------------------------ MODULE OsclSchedulerProofs ------------------------
(***************************************************************************)
(* Proofs about OsclScheduler, for every set of active objects, timers and *)
(* controlling threads, every priority the code allows and every width of  *)
(* the tick count.                                                         *)
(***************************************************************************)
EXTENDS OsclScheduler, TLAPS, WellFoundedInduction, NaturalsInduction,
        SequenceTheorems

-----------------------------------------------------------------------------
(***************************************************************************)
(* The queues: what Without, Append and PosOf do to a queue that holds     *)
(* each of its members once.                                               *)
(***************************************************************************)
Distinct(q) == \A i, j \in 1..Len(q) : q[i] = q[j] => i = j

\* Without removes one element and keeps the others.
LEMMA WithoutType ==
    ASSUME NEW S, NEW q \in Seq(S), NEW i \in 1..Len(q)
    PROVE  /\ Without(q, i) \in Seq(S)
           /\ Len(Without(q, i)) = Len(q) - 1
<1>1. Len(q) \in Nat /\ Len(q) - 1 \in Nat
  OBVIOUS
<1>2. \A j \in 1..(Len(q) - 1) : (IF j < i THEN q[j] ELSE q[j + 1]) \in S
  <2> TAKE j \in 1..(Len(q) - 1)
  <2>1. j \in 1..Len(q) /\ j + 1 \in 1..Len(q)
    OBVIOUS
  <2> QED BY <2>1
<1>3. Without(q, i) \in [1..(Len(q) - 1) -> S]
  BY <1>2 DEF Without
<1> QED BY <1>1, <1>3, SeqDef, LenProperties DEF Without

LEMMA WithoutElements ==
    ASSUME NEW S, NEW q \in Seq(S), NEW i \in 1..Len(q)
    PROVE  \A b : b # q[i] => (IsQueued(Without(q, i), b) <=> IsQueued(q, b))
<1> DEFINE w == Without(q, i)
<1>1. Len(q) \in Nat /\ Len(w) = Len(q) - 1
  BY WithoutType
<1>2. \A j \in 1..(Len(q) - 1) : w[j] = IF j < i THEN q[j] ELSE q[j + 1]
  BY DEF Without
<1> HIDE DEF w
<1> SUFFICES ASSUME NEW b, b # q[i]
             PROVE  IsQueued(w, b) <=> IsQueued(q, b)
  BY DEF w
<1>3. ASSUME NEW j \in 1..Len(w), w[j] = b
      PROVE  \E k \in 1..Len(q) : q[k] = b
  BY <1>1, <1>2, <1>3
<1>4. ASSUME NEW k \in 1..Len(q), q[k] = b
      PROVE  \E j \in 1..Len(w) : w[j] = b
  <2>1. CASE k < i
    BY <1>1, <1>2, <1>4, <2>1
  <2>2. CASE k > i
    <3>1. k - 1 \in 1..Len(w) /\ ~(k - 1 < i) /\ (k - 1) + 1 = k
      BY <1>1, <2>2
    <3>2. w[k - 1] = b
      BY <1>1, <1>2, <1>4, <3>1
    <3> QED BY <3>1, <3>2
  <2> QED BY <2>1, <2>2, <1>4
<1> QED BY <1>3, <1>4 DEF IsQueued

LEMMA WithoutDistinct ==
    ASSUME NEW S, NEW q \in Seq(S), NEW i \in 1..Len(q), Distinct(q)
    PROVE  /\ Distinct(Without(q, i))
           /\ ~IsQueued(Without(q, i), q[i])
<1> DEFINE w == Without(q, i)
<1>1. Len(q) \in Nat /\ Len(w) = Len(q) - 1
  BY WithoutType
<1>2. \A j \in 1..(Len(q) - 1) : w[j] = IF j < i THEN q[j] ELSE q[j + 1]
  BY DEF Without
<1> HIDE DEF w
<1>3. Distinct(w)
  BY <1>1, <1>2 DEF Distinct
<1>4. ASSUME NEW j \in 1..Len(w), w[j] = q[i]
      PROVE  FALSE
  <2>1. CASE j < i
    BY <1>1, <1>2, <1>4, <2>1 DEF Distinct
  <2>2. CASE ~(j < i)
    <3>1. j + 1 \in 1..Len(q) /\ q[j + 1] = q[i]
      BY <1>1, <1>2, <1>4, <2>2
    <3>2. j + 1 = i
      BY <3>1 DEF Distinct
    <3> QED BY <1>1, <2>2, <3>2
  <2> QED BY <2>1, <2>2
<1> QED BY <1>3, <1>4 DEF w, IsQueued

LEMMA AppendQueued ==
    ASSUME NEW S, NEW q \in Seq(S), NEW x \in S
    PROVE  /\ Append(q, x) \in Seq(S)
           /\ Len(Append(q, x)) = Len(q) + 1
           /\ \A b : IsQueued(Append(q, x), b) <=> IsQueued(q, b) \/ b = x
           /\ Distinct(q) /\ ~IsQueued(q, x) => Distinct(Append(q, x))
<1> DEFINE w == Append(q, x)
<1>1. w \in Seq(S) /\ Len(q) \in Nat /\ Len(w) = Len(q) + 1
  OBVIOUS
<1>2. \A j \in 1..Len(q) : w[j] = q[j]
  OBVIOUS
<1>3. w[Len(q) + 1] = x
  OBVIOUS
<1> HIDE DEF w
<1>4. \A b : IsQueued(w, b) <=> IsQueued(q, b) \/ b = x
  <2> TAKE b
  <2>1. IsQueued(w, b) => IsQueued(q, b) \/ b = x
    BY <1>1, <1>2, <1>3 DEF IsQueued
  <2>2. IsQueued(q, b) => IsQueued(w, b)
    BY <1>1, <1>2 DEF IsQueued
  <2>3. b = x => IsQueued(w, b)
    BY <1>1, <1>3 DEF IsQueued
  <2> QED BY <2>1, <2>2, <2>3
<1>5. ASSUME Distinct(q), ~IsQueued(q, x)
      PROVE  Distinct(w)
  BY <1>1, <1>2, <1>3, <1>5 DEF Distinct, IsQueued
<1> QED BY <1>1, <1>4, <1>5 DEF w

LEMMA PosOfQueued ==
    ASSUME NEW S, NEW q \in Seq(S), NEW x, IsQueued(q, x)
    PROVE  PosOf(q, x) \in 1..Len(q) /\ q[PosOf(q, x)] = x
BY DEF PosOf, IsQueued

-----------------------------------------------------------------------------
(***************************************************************************)
(* Arithmetic modulo the width of the tick count.                          *)
(***************************************************************************)
\* The residue of a number less than a turn away from 0..(Wrap - 1).
LEMMA ModCases ==
    ASSUME NEW x \in Int
    PROVE  /\ x % Wrap \in 0..(Wrap - 1)
           /\ 0 <= x /\ x < Wrap => x % Wrap = x
           /\ -Wrap <= x /\ x < 0 => x % Wrap = x + Wrap
           /\ Wrap <= x /\ x < 2 * Wrap => x % Wrap = x - Wrap
<1>1. Wrap \in Nat \ {0}
  BY TimeAssumption
<1> QED BY <1>1

\* iTimeCompareThreshold is one less than half a turn.
LEMMA HalfTurn ==
    /\ Wrap \in Nat /\ Wrap >= 2
    /\ Threshold \in Nat
    /\ Wrap = 2 * (Threshold + 1)
    /\ MaxLate \in Nat
<1>1. Wrap \in Nat \ {0} /\ Wrap % 2 = 0 /\ MaxLate \in Nat
  BY TimeAssumption
<1>2. Wrap \div 2 \in Nat /\ Wrap = 2 * (Wrap \div 2)
  BY <1>1
<1> QED BY <1>1, <1>2 DEF Threshold

\* The difference of two tick counts gives the time between them.
LEMMA ModDiff ==
    ASSUME NEW x \in Int, NEW y \in Int,
           -Wrap <= x, x < 2 * Wrap, -Wrap <= y, y < 2 * Wrap
    PROVE  /\ 0 <= x - y /\ x - y < Wrap =>
                  ((x % Wrap) - (y % Wrap)) % Wrap = x - y
           /\ -Wrap <= x - y /\ x - y < 0 =>
                  ((x % Wrap) - (y % Wrap)) % Wrap = x - y + Wrap
<1>0. Wrap \in Nat /\ Wrap >= 2
  BY HalfTurn
<1> DEFINE a == x % Wrap  b == y % Wrap
<1>1. /\ a \in 0..(Wrap - 1)
      /\ a = x \/ a = x + Wrap \/ a = x - Wrap
  <2>1. /\ a \in 0..(Wrap - 1)
        /\ 0 <= x /\ x < Wrap => a = x
        /\ -Wrap <= x /\ x < 0 => a = x + Wrap
        /\ Wrap <= x /\ x < 2 * Wrap => a = x - Wrap
    BY ModCases
  <2> HIDE DEF a
  <2> QED BY <1>0, <2>1
<1>2. /\ b \in 0..(Wrap - 1)
      /\ b = y \/ b = y + Wrap \/ b = y - Wrap
  <2>1. /\ b \in 0..(Wrap - 1)
        /\ 0 <= y /\ y < Wrap => b = y
        /\ -Wrap <= y /\ y < 0 => b = y + Wrap
        /\ Wrap <= y /\ y < 2 * Wrap => b = y - Wrap
    BY ModCases
  <2> HIDE DEF b
  <2> QED BY <1>0, <2>1
<1>3. /\ a - b \in Int
      /\ 0 <= a - b => (a - b) % Wrap = a - b
      /\ a - b < 0 => (a - b) % Wrap = a - b + Wrap
  <2> HIDE DEF a, b
  <2>1. a - b \in Int /\ -Wrap <= a - b /\ a - b < Wrap
    BY <1>0, <1>1, <1>2
  <2> QED BY <1>0, <2>1, ModCases
<1> DEFINE c == (a - b) % Wrap
<1> HIDE DEF a, b
<1>4. /\ 0 <= a - b => c = a - b
      /\ a - b < 0 => c = a - b + Wrap
  BY <1>3
<1> HIDE DEF c
<1>5. /\ 0 <= x - y /\ x - y < Wrap => c = x - y
      /\ -Wrap <= x - y /\ x - y < 0 => c = x - y + Wrap
  BY <1>0, <1>1, <1>2, <1>4
<1>6. c = ((x % Wrap) - (y % Wrap)) % Wrap
  BY Zenon DEF a, b, c
<1> QED BY <1>5, <1>6

\* A tick brings every time one tick closer, across the rollover too.
LEMMA ModTick ==
    ASSUME NEW n \in 0..(Wrap - 1), NEW k \in Int,
           -Wrap <= k, k < Wrap
    PROVE  (n + k) % Wrap = (((n + 1) % Wrap) + (k - 1)) % Wrap
<1>0. Wrap \in Nat /\ Wrap >= 2
  BY HalfTurn
<1>1. CASE n + 1 < Wrap
  <2>1. (n + 1) % Wrap = n + 1
    BY <1>0, <1>1, ModCases
  <2>2. (n + 1) + (k - 1) = n + k
    BY <1>0
  <2> QED BY <2>1, <2>2
<1>2. CASE n + 1 = Wrap
  <2>1. (n + 1) % Wrap = 0
    BY <1>0, <1>2, ModCases
  <2>2. n + k = (k - 1) + Wrap /\ 0 + (k - 1) = k - 1
    BY <1>0, <1>2
  <2>3. (k - 1) % Wrap = ((k - 1) + Wrap) % Wrap
    <3> DEFINE z == k - 1
    <3>1. z \in Int /\ -Wrap - 1 <= z /\ z < Wrap
      BY <1>0
    <3> HIDE DEF z
    <3>2. CASE z = -Wrap - 1
      <4>1. z + Wrap = -1 /\ (z + Wrap) % Wrap = Wrap - 1
        BY <1>0, <3>1, <3>2, ModCases
      <4>2. z % Wrap = Wrap - 1
        BY <1>0, <3>1, <3>2
      <4> QED BY <4>1, <4>2 DEF z
    <3>3. CASE -Wrap <= z
      <4>1. z + Wrap \in Int /\ 0 <= z + Wrap /\ z + Wrap < 2 * Wrap
        BY <1>0, <3>1, <3>3
      <4>2. z % Wrap = IF z < 0 THEN z + Wrap ELSE z
        BY <1>0, <3>1, <3>3, ModCases
      <4>3. (z + Wrap) % Wrap = IF z < 0 THEN z + Wrap ELSE z
        BY <1>0, <3>1, <3>3, <4>1, ModCases
      <4> QED BY <4>2, <4>3 DEF z
    <3> QED BY <1>0, <3>1, <3>2, <3>3
  <2> QED BY <2>1, <2>2, <2>3
<1> QED BY <1>0, <1>1, <1>2

-----------------------------------------------------------------------------
(***************************************************************************)
(* top() exists: the ready order is total, and the timer order is total on *)
(* times that lie within half a turn of each other.                        *)
(***************************************************************************)
\* Every non-empty set of naturals has a least member.
LEMMA LeastNat ==
    ASSUME NEW S \in SUBSET Nat, S # {}
    PROVE  \E m \in S : \A n \in S : m <= n
<1> DEFINE R == OpToRel(<, Nat)
<1>1. \A m, n \in Nat : n < m => <<n, m>> \in R
  BY DEF OpToRel
<1>2. PICK m \in S : \A n \in Nat : <<n, m>> \in R => n \notin S
  <2> HIDE DEF R
  <2>1. IsWellFoundedOn(R, Nat)
    BY NatLessThanWellFounded DEF R
  <2> QED BY <2>1, WFMin
<1> HIDE DEF R
<1>3. m \in Nat
  OBVIOUS
<1>4. \A n \in Nat : n < m => n \notin S
  BY <1>1, <1>2, <1>3, Zenon
<1>5. \A n \in S : m <= n
  BY <1>3, <1>4
<1> QED BY <1>5

\* Among some positions of a queue, one has no less priority than the others.
LEMMA ReadyMaximal ==
    ASSUME NEW q \in Seq(Obj), NEW P \in SUBSET (1..Len(q)), P # {}
    PROVE  \E i \in P : \A j \in P \ {i} : ~ReadyLT(q, i, j)
<1>1. Priority \in [Obj -> Int] /\ Stopper \in Obj
  BY PriorityAssumption DEF Obj
<1>2. \A i \in P : q[i] \in Obj /\ Priority[q[i]] \in Int
                   /\ Priority[q[i]] <= Priority[Stopper]
  BY <1>1, PriorityAssumption DEF Obj
<1> DEFINE K(i) == Priority[Stopper] - Priority[q[i]]
           S == {K(i) : i \in P}
<1>3. PICK m \in S : \A n \in S : m <= n
  <2>1. \A i \in P : K(i) \in Nat
    BY <1>1, <1>2
  <2>2. S \in SUBSET Nat /\ S # {}
    BY <2>1
  <2> QED BY <2>2, LeastNat
<1> DEFINE I == {i \in P : K(i) = m}
<1>4. PICK i \in I : \A j \in I : i <= j
  <2>1. P \in SUBSET Nat /\ I \in SUBSET Nat
    <3>1. Len(q) \in Nat
      OBVIOUS
    <3>2. P \in SUBSET Nat
      BY <3>1
    <3> QED BY <3>2
  <2>2. \E i \in P : m = K(i)
    BY <1>3
  <2>3. I # {}
    BY <2>2
  <2> HIDE DEF I
  <2> QED BY <2>1, <2>3, LeastNat
<1>5. i \in P /\ K(i) = m
  BY <1>4
<1>6. ASSUME NEW j \in P, j # i
      PROVE  ~ReadyLT(q, i, j)
  <2>1. m <= K(j)
    BY <1>3
  <2>2. Priority[q[j]] <= Priority[q[i]]
    BY <1>1, <1>2, <1>5, <2>1
  <2>3. Priority[q[j]] = Priority[q[i]] => i < j
    BY <1>1, <1>2, <1>4, <1>5, <1>6
  <2> QED BY <1>2, <1>5, <2>2, <2>3 DEF ReadyLT
<1> QED BY <1>5, <1>6

\* iReadyQ.top() of a queue that is not empty.
LEMMA ReadyTopExists ==
    ASSUME readyQ \in Seq(Obj), readyQ # <<>>
    PROVE  /\ ReadyTop \in 1..Len(readyQ)
           /\ readyQ[ReadyTop] \in Obj
<1>1. 1..Len(readyQ) # {}
  <2>1. Len(readyQ) \in Nat /\ Len(readyQ) # 0
    BY EmptySeq
  <2> QED BY <2>1
<1>2. \E i \in 1..Len(readyQ) :
         \A j \in 1..Len(readyQ) \ {i} : ~ReadyLT(readyQ, i, j)
  BY <1>1, ReadyMaximal
<1>3. ReadyTop \in 1..Len(readyQ)
  BY <1>2 DEF ReadyTop
<1> QED BY <1>3

\* The timer t has k ticks left until it would be MaxLate ticks overdue.
TimeLeft(t, k) == due[t] = (now + k - MaxLate) % Wrap

\* Two timers that have k and m ticks left compare as k and m do.
LEMMA TimeLeftOrder ==
    ASSUME now \in 0..(Wrap - 1), NEW t, NEW u,
           NEW k \in 0..Threshold, NEW m \in 0..Threshold,
           TimeLeft(t, k), TimeLeft(u, m), MaxLate < Threshold, m <= k
    PROVE  (due[t] - due[u]) % Wrap = k - m
<1>1. /\ now + k - MaxLate \in Int /\ now + m - MaxLate \in Int
      /\ -Wrap <= now + k - MaxLate /\ now + k - MaxLate < 2 * Wrap
      /\ -Wrap <= now + m - MaxLate /\ now + m - MaxLate < 2 * Wrap
      /\ (now + k - MaxLate) - (now + m - MaxLate) = k - m
      /\ 0 <= k - m /\ k - m < Wrap
  BY HalfTurn
<1> DEFINE x == now + k - MaxLate  y == now + m - MaxLate
<1>2. due[t] = x % Wrap /\ due[u] = y % Wrap
  BY DEF TimeLeft
<1>3. ((x % Wrap) - (y % Wrap)) % Wrap = x - y
  <2> HIDE DEF x, y
  <2> QED BY <1>1, ModDiff DEF x, y
<1>4. x - y = k - m
  BY <1>1
<1> HIDE DEF x, y
<1> QED BY <1>2, <1>3, <1>4, Zenon

\* iExecTimerQ.top() of a queue that is not empty, and what it says.
LEMMA TimerTopExists ==
    ASSUME timerQ \in Seq(Timer), timerQ # <<>>, now \in 0..(Wrap - 1),
           \A i \in 1..Len(timerQ) :
              MaxLate < Threshold /\ \E k \in 0..Threshold : TimeLeft(timerQ[i], k)
    PROVE  /\ TimerTop \in 1..Len(timerQ)
           /\ timerQ[TimerTop] \in Timer
           /\ \A j \in 1..Len(timerQ) \ {TimerTop} : ~TimerLT(timerQ, TimerTop, j)
<1> DEFINE N == 1..Len(timerQ)
           S == {k \in 0..Threshold : \E i \in N : TimeLeft(timerQ[i], k)}
<1>1. N # {} /\ timerQ \in Seq(Obj)
  <2>1. N # {}
    BY EmptySeq, LenProperties
  <2>2. timerQ \in Seq(Obj)
    BY SeqMonotonic DEF Obj
  <2> QED BY <2>1, <2>2
<1>2. PICK m \in S : \A n \in S : m <= n
  <2>1. S \in SUBSET Nat /\ S # {}
    BY <1>1
  <2> HIDE DEF S
  <2> QED BY <2>1, LeastNat
<1> DEFINE P == {i \in N : TimeLeft(timerQ[i], m)}
<1>3. PICK i \in P : \A j \in P \ {i} : ~ReadyLT(timerQ, i, j)
  <2>1. P \in SUBSET N /\ P # {}
    BY <1>2
  <2> HIDE DEF P
  <2> QED BY <1>1, <2>1, ReadyMaximal
<1>4. ASSUME NEW j \in N \ {i}
      PROVE  ~TimerLT(timerQ, i, j)
  <2>1. CASE due[timerQ[i]] = due[timerQ[j]]
    <3>1. j \in P
      BY <1>3, <2>1 DEF TimeLeft
    <3> QED BY <1>3, <2>1, <3>1 DEF TimerLT
  <2>2. CASE due[timerQ[i]] # due[timerQ[j]]
    <3>1. PICK k \in 0..Threshold : TimeLeft(timerQ[j], k)
      OBVIOUS
    <3>2. m <= k
      BY <1>2, <3>1
    <3>3. (due[timerQ[j]] - due[timerQ[i]]) % Wrap = k - m
      BY <1>2, <1>3, <3>1, <3>2, TimeLeftOrder
    <3>4. k - m <= Threshold /\ k - m \in Int /\ Threshold \in Int
      BY <1>2, <3>1, HalfTurn
    <3>5. ~(k - m > Threshold)
      BY <3>4
    <3> QED BY <2>2, <3>3, <3>5 DEF TimerLT
  <2> QED BY <2>1, <2>2
<1>5. \E ii \in N : \A j \in N \ {ii} : ~TimerLT(timerQ, ii, j)
  BY <1>3, <1>4
<1>6. /\ TimerTop \in N
      /\ \A j \in N \ {TimerTop} : ~TimerLT(timerQ, TimerTop, j)
  BY <1>5 DEF TimerTop
<1> QED BY <1>6

-----------------------------------------------------------------------------
(***************************************************************************)
(* The inductive invariant.                                                *)
(***************************************************************************)
\* Where the scheduling thread is tells what its locals hold.
CtlInv ==
    /\ crit <=> pc \in {"pop_sem", "cancel_sem"}
    /\ pc \in CancelPCs <=> canc # None
    /\ pc \in {"timer_complete", "timed_wait", "timer_expired"} => cur \in Timer
    /\ pc \in {"pop_sem", "run"} => cur \in Obj
    /\ pc = "pop" => cur \in Timer \cup {None}

\* The object that is about to run, or is being cancelled, has its request
\* active and its link where the steps that follow expect it.
ObjInv ==
    /\ \A a \in Obj : busy[a] => a \in added
    /\ canc # None => canc \in added
    /\ pc \in {"pop_sem", "run"} =>
          busy[cur] /\ status[cur] # "pending" /\ isIn[cur] = "none"
    /\ pc = "timer_complete" => CanComplete(cur)
    /\ pc \in {"cancel_restore", "cancel_idle", "cancel_remove"} =>
          isIn[canc] = "ready"
    /\ pc = "cancel_sem" => isIn[canc] = "none"
    /\ pc \in {"cancel_remove", "cancel_sem"} => ~busy[canc]
    /\ pc \in CancelPCs \ {"cancel_remove", "cancel_sem"} => busy[canc]

\* The timer the loop holds is still the front of the timer queue.
TopInv ==
    pc \in {"pop", "timed_wait", "timer_expired"} /\ cur # None =>
        timerQ # <<>> /\ cur = timerQ[TimerTop]

\* A queued timer is at most MaxLate ticks overdue, and all queued timers lie
\* within half a turn of the tick count.
TimeInv ==
    \A t \in Timer : isIn[t] = "timer" =>
        MaxLate < Threshold /\ \E k \in 0..Threshold : TimeLeft(t, k)

IInv ==
    /\ TypeOK /\ CtlInv /\ ObjInv /\ QueuesConsistent /\ SemCountsReadyQ
    /\ TopInv /\ TimeInv

\* In a state of the invariant the tops of the queues are members of them.
LEMMA Tops ==
    ASSUME TypeOK, QueuesConsistent, TimeInv
    PROVE  /\ readyQ # <<>> =>
                 /\ ReadyTop \in 1..Len(readyQ)
                 /\ readyQ[ReadyTop] \in Obj
                 /\ isIn[readyQ[ReadyTop]] = "ready"
           /\ timerQ # <<>> =>
                 /\ TimerTop \in 1..Len(timerQ)
                 /\ timerQ[TimerTop] \in Timer
                 /\ isIn[timerQ[TimerTop]] = "timer"
                 /\ \A j \in 1..Len(timerQ) \ {TimerTop} :
                       ~TimerLT(timerQ, TimerTop, j)
<1>1. readyQ # <<>> =>
         /\ ReadyTop \in 1..Len(readyQ) /\ readyQ[ReadyTop] \in Obj
  BY ReadyTopExists DEF TypeOK
<1>2. \A i \in 1..Len(readyQ) : readyQ[i] \in Obj /\ isIn[readyQ[i]] = "ready"
  BY DEF TypeOK, QueuesConsistent, IsQueued
<1>3. \A i \in 1..Len(timerQ) : timerQ[i] \in Timer /\ isIn[timerQ[i]] = "timer"
  BY DEF TypeOK, QueuesConsistent, IsQueued, Obj
<1>4. timerQ # <<>> =>
         /\ TimerTop \in 1..Len(timerQ) /\ timerQ[TimerTop] \in Timer
         /\ \A j \in 1..Len(timerQ) \ {TimerTop} : ~TimerLT(timerQ, TimerTop, j)
  <2>1. \A i \in 1..Len(timerQ) :
           MaxLate < Threshold /\ \E k \in 0..Threshold : TimeLeft(timerQ[i], k)
    BY <1>3 DEF TimeInv
  <2> QED BY <2>1, TimerTopExists DEF TypeOK
<1> QED BY <1>1, <1>2, <1>3, <1>4

\* The conjuncts of TypeOK, by what they are about.
ObjTypes ==
    /\ busy \in [Obj -> BOOLEAN] /\ added \subseteq Obj
    /\ status \in [Obj -> {"none", "pending", "cancel", "stop", "suspend"}]
    /\ isIn \in [Obj -> {"none", "ready", "timer"}]
QueueTypes == readyQ \in Seq(Obj) /\ timerQ \in Seq(Timer)
CountTypes == sem \in Nat /\ nwait \in Nat /\ resumeSem \in 0..MaxResume
FlagTypes ==
    /\ crit \in BOOLEAN /\ callback \in BOOLEAN /\ blocking \in BOOLEAN
    /\ doStop \in BOOLEAN /\ doSuspend \in BOOLEAN
    /\ suspended \in BOOLEAN /\ removing \in BOOLEAN
TimeTypes ==
    /\ now \in 0..(Wrap - 1) /\ timenow \in 0..(Wrap - 1)
    /\ due \in [Timer -> 0..(Wrap - 1)]
ThreadTypes ==
    /\ pc \in PCs /\ cur \in Obj \cup {None} /\ canc \in Obj \cup {None}
    /\ ret \in {"idle", "running", "cleanup"}
OtherTypes ==
    /\ cpc \in [Control -> {"idle", "stop", "stop_signal", "stop_complete",
                            "suspend_complete", "resume_signal"}]
    /\ owed \subseteq AO

LEMMA TypeParts ==
    TypeOK <=> /\ ObjTypes /\ QueueTypes /\ CountTypes /\ FlagTypes
               /\ TimeTypes /\ ThreadTypes /\ OtherTypes
BY DEF TypeOK, ObjTypes, QueueTypes, CountTypes, FlagTypes, TimeTypes,
       ThreadTypes, OtherTypes

LEMMA TypePartsNext ==
    ASSUME ObjTypes', QueueTypes', CountTypes', FlagTypes', TimeTypes',
           ThreadTypes', OtherTypes'
    PROVE  TypeOK'
BY DEF TypeOK, ObjTypes, QueueTypes, CountTypes, FlagTypes, TimeTypes,
       ThreadTypes, OtherTypes

\* Every step keeps the types.
LEMMA TypeStep ==
    ASSUME IInv, [Next]_vars
    PROVE  TypeOK'
<1> USE DEF vars, aoVars, qVars, timeVars, flagVars, thrVars, cancVars, envVars
<1>1. /\ AO \subseteq Obj /\ Timer \subseteq Obj /\ Stopper \in Obj
      /\ Wrap \in Nat /\ Wrap >= 2 /\ MaxResume \in Nat
  BY HalfTurn, BoundAssumption DEF Obj
<1>2. TypeOK
  BY DEF IInv
<1>3. CASE LoopTest
  <2>3. ObjTypes'
    BY <1>3, <1>1, <1>2 DEF ObjTypes, TypeOK, LoopTest
  <2>4. QueueTypes'
    BY <1>3, <1>1, <1>2 DEF QueueTypes, TypeOK, LoopTest
  <2>5. CountTypes'
    BY <1>3, <1>1, <1>2 DEF CountTypes, TypeOK, LoopTest
  <2>6. FlagTypes'
    BY <1>3, <1>1, <1>2 DEF FlagTypes, TypeOK, LoopTest
  <2>7. TimeTypes'
    BY <1>3, <1>1, <1>2 DEF TimeTypes, TypeOK, LoopTest
  <2>8. ThreadTypes'
    BY <1>3, <1>1, <1>2 DEF ThreadTypes, TypeOK, PCs, CancelPCs, LoopTest
  <2>9. OtherTypes'
    BY <1>3, <1>1, <1>2 DEF OtherTypes, TypeOK, LoopTest
  <2> QED BY <2>3, <2>4, <2>5, <2>6, <2>7, <2>8, <2>9, TypePartsNext
<1>4. CASE TimerDue
  <2>0. timerQ # <<>>
    BY <1>4 DEF TimerDue, TopDue
  <2>1. timerQ[TimerTop] \in Timer /\ Without(timerQ, TimerTop) \in Seq(Timer)
    BY <1>2, <2>0, Tops, WithoutType DEF IInv, TypeOK
  <2> QED
    BY <1>4, <1>1, <1>2, <2>1 DEF TypeOK, PCs, CancelPCs, TimerDue, TopDue
<1>5. CASE TimerComplete
  <2>1. cur \in Obj /\ Append(readyQ, cur) \in Seq(Obj)
    BY <1>5, <1>1, <1>2 DEF TypeOK, IInv, CtlInv, CancelPCs, TimerComplete
  <2>3. ObjTypes'
    BY <1>5, <1>1, <1>2, <2>1 DEF ObjTypes, TypeOK, TimerComplete, Complete,
       CanComplete, AfterLeave
  <2>4. QueueTypes'
    BY <1>5, <1>1, <1>2, <2>1 DEF QueueTypes, TypeOK, TimerComplete,
       Complete, CanComplete, AfterLeave
  <2>5. CountTypes'
    BY <1>5, <1>1, <1>2, <2>1 DEF CountTypes, TypeOK, TimerComplete,
       Complete, CanComplete, AfterLeave
  <2>6. FlagTypes'
    BY <1>5, <1>1, <1>2, <2>1 DEF FlagTypes, TypeOK, TimerComplete, Complete,
       CanComplete, AfterLeave
  <2>7. TimeTypes'
    BY <1>5, <1>1, <1>2, <2>1 DEF TimeTypes, TypeOK, TimerComplete, Complete,
       CanComplete, AfterLeave
  <2>8. ThreadTypes'
    BY <1>5, <1>1, <1>2, <2>1 DEF ThreadTypes, TypeOK, PCs, CancelPCs,
       TimerComplete, Complete, CanComplete, AfterLeave
  <2>9. OtherTypes'
    BY <1>5, <1>1, <1>2, <2>1 DEF OtherTypes, TypeOK, TimerComplete,
       Complete, CanComplete, AfterLeave
  <2> QED BY <2>3, <2>4, <2>5, <2>6, <2>7, <2>8, <2>9, TypePartsNext
<1>6. CASE TimersDone
  <2>1. timerQ # <<>> => timerQ[TimerTop] \in Timer
    BY Tops DEF IInv
  <2> QED
    BY <1>6, <1>1, <1>2, <2>1 DEF TypeOK, PCs, CancelPCs, TimersDone, TopDue
<1>7. CASE PopTop
  <2>0. readyQ # <<>>
    BY <1>7 DEF PopTop
  <2>1. readyQ[ReadyTop] \in Obj /\ Without(readyQ, ReadyTop) \in Seq(Obj)
    BY <1>2, <2>0, Tops, WithoutType DEF IInv, TypeOK
  <2> QED
    BY <1>7, <1>1, <1>2, <2>1 DEF TypeOK, PCs, CancelPCs, PopTop
<1>8. CASE PopSem
  <2>1. sem' \in Nat
    BY <1>8, <1>2 DEF PopSem, TypeOK
  <2>3. ObjTypes'
    BY <1>8, <1>1, <1>2, <2>1 DEF ObjTypes, TypeOK, PopSem
  <2>4. QueueTypes'
    BY <1>8, <1>1, <1>2, <2>1 DEF QueueTypes, TypeOK, PopSem
  <2>5. CountTypes'
    BY <1>8, <1>1, <1>2, <2>1 DEF CountTypes, TypeOK, PopSem
  <2>6. FlagTypes'
    BY <1>8, <1>1, <1>2, <2>1 DEF FlagTypes, TypeOK, PopSem
  <2>7. TimeTypes'
    BY <1>8, <1>1, <1>2, <2>1 DEF TimeTypes, TypeOK, PopSem
  <2>8. ThreadTypes'
    BY <1>8, <1>1, <1>2, <2>1 DEF ThreadTypes, TypeOK, PCs, CancelPCs, PopSem
  <2>9. OtherTypes'
    BY <1>8, <1>1, <1>2, <2>1 DEF OtherTypes, TypeOK, PopSem
  <2> QED BY <2>3, <2>4, <2>5, <2>6, <2>7, <2>8, <2>9, TypePartsNext
<1>9. CASE PopNothing
  BY <1>9, <1>1, <1>2 DEF TypeOK, PCs, CancelPCs, PopNothing
<1>10. CASE WaitSem
  BY <1>10, <1>1, <1>2 DEF TypeOK, PCs, CancelPCs, WaitSem
<1>11. CASE PopTopAfterWait
  <2>0. readyQ # <<>>
    BY <1>11, <1>2 DEF PopTopAfterWait, IInv, CtlInv, SemCountsReadyQ, TypeOK
  <2>1. readyQ[ReadyTop] \in Obj /\ Without(readyQ, ReadyTop) \in Seq(Obj)
    BY <1>2, <2>0, Tops, WithoutType DEF IInv, TypeOK
  <2> QED
    BY <1>11, <1>1, <1>2, <2>1 DEF TypeOK, PCs, CancelPCs, PopTopAfterWait
<1>12. CASE WaitTimeout
  BY <1>12, <1>1, <1>2 DEF TypeOK, PCs, CancelPCs, WaitTimeout
<1>13. CASE TimerExpired
  <2>0. timerQ # <<>>
    BY <1>13, ObjAssumption DEF Obj, TimerExpired, IInv, TopInv, CtlInv
  <2>1. timerQ[TimerTop] \in Timer /\ Without(timerQ, TimerTop) \in Seq(Timer)
    BY <1>2, <2>0, Tops, WithoutType DEF IInv, TypeOK
  <2>3. ObjTypes'
    BY <1>13, <1>1, <1>2, <2>1 DEF ObjTypes, TypeOK, TimerExpired
  <2>4. QueueTypes'
    BY <1>13, <1>1, <1>2, <2>1 DEF QueueTypes, TypeOK, TimerExpired
  <2>5. CountTypes'
    BY <1>13, <1>1, <1>2, <2>1 DEF CountTypes, TypeOK, TimerExpired
  <2>6. FlagTypes'
    BY <1>13, <1>1, <1>2, <2>1 DEF FlagTypes, TypeOK, TimerExpired
  <2>7. TimeTypes'
    BY <1>13, <1>1, <1>2, <2>1 DEF TimeTypes, TypeOK, TimerExpired
  <2>8. ThreadTypes'
    BY <1>13, <1>1, <1>2, <2>1 DEF ThreadTypes, TypeOK, PCs, CancelPCs,
       TimerExpired
  <2>9. OtherTypes'
    BY <1>13, <1>1, <1>2, <2>1 DEF OtherTypes, TypeOK, TimerExpired
  <2> QED BY <2>3, <2>4, <2>5, <2>6, <2>7, <2>8, <2>9, TypePartsNext
<1>14. CASE RunStopper
  <2>3. ObjTypes'
    BY <1>14, <1>1, <1>2 DEF ObjTypes, TypeOK, RunStopper
  <2>4. QueueTypes'
    BY <1>14, <1>1, <1>2 DEF QueueTypes, TypeOK, RunStopper
  <2>5. CountTypes'
    BY <1>14, <1>1, <1>2 DEF CountTypes, TypeOK, RunStopper
  <2>6. FlagTypes'
    BY <1>14, <1>1, <1>2 DEF FlagTypes, TypeOK, RunStopper
  <2>7. TimeTypes'
    BY <1>14, <1>1, <1>2 DEF TimeTypes, TypeOK, RunStopper
  <2>8. ThreadTypes'
    BY <1>14, <1>1, <1>2 DEF ThreadTypes, TypeOK, PCs, CancelPCs, RunStopper
  <2>9. OtherTypes'
    BY <1>14, <1>1, <1>2 DEF OtherTypes, TypeOK, RunStopper
  <2> QED BY <2>3, <2>4, <2>5, <2>6, <2>7, <2>8, <2>9, TypePartsNext
<1>15. CASE CallRun
  <2>3. ObjTypes'
    BY <1>15, <1>1, <1>2 DEF ObjTypes, TypeOK, CallRun
  <2>4. QueueTypes'
    BY <1>15, <1>1, <1>2 DEF QueueTypes, TypeOK, CallRun
  <2>5. CountTypes'
    BY <1>15, <1>1, <1>2 DEF CountTypes, TypeOK, CallRun
  <2>6. FlagTypes'
    BY <1>15, <1>1, <1>2 DEF FlagTypes, TypeOK, CallRun
  <2>7. TimeTypes'
    BY <1>15, <1>1, <1>2 DEF TimeTypes, TypeOK, CallRun
  <2>8. ThreadTypes'
    BY <1>15, <1>1, <1>2 DEF ThreadTypes, TypeOK, PCs, CancelPCs, CallRun
  <2>9. OtherTypes'
    BY <1>15, <1>1, <1>2 DEF OtherTypes, TypeOK, CallRun
  <2> QED BY <2>3, <2>4, <2>5, <2>6, <2>7, <2>8, <2>9, TypePartsNext
<1>16. CASE AfterRun
  <2>3. ObjTypes'
    BY <1>16, <1>1, <1>2 DEF ObjTypes, TypeOK, AfterRun
  <2>4. QueueTypes'
    BY <1>16, <1>1, <1>2 DEF QueueTypes, TypeOK, AfterRun
  <2>5. CountTypes'
    BY <1>16, <1>1, <1>2 DEF CountTypes, TypeOK, AfterRun
  <2>6. FlagTypes'
    BY <1>16, <1>1, <1>2 DEF FlagTypes, TypeOK, AfterRun
  <2>7. TimeTypes'
    BY <1>16, <1>1, <1>2 DEF TimeTypes, TypeOK, AfterRun
  <2>8. ThreadTypes'
    BY <1>16, <1>1, <1>2 DEF ThreadTypes, TypeOK, PCs, CancelPCs, AfterRun
  <2>9. OtherTypes'
    BY <1>16, <1>1, <1>2 DEF OtherTypes, TypeOK, AfterRun
  <2> QED BY <2>3, <2>4, <2>5, <2>6, <2>7, <2>8, <2>9, TypePartsNext
<1>17. CASE SuspendClear
  <2>3. ObjTypes'
    BY <1>17, <1>1, <1>2 DEF ObjTypes, TypeOK, SuspendClear
  <2>4. QueueTypes'
    BY <1>17, <1>1, <1>2 DEF QueueTypes, TypeOK, SuspendClear
  <2>5. CountTypes'
    BY <1>17, <1>1, <1>2 DEF CountTypes, TypeOK, SuspendClear
  <2>6. FlagTypes'
    BY <1>17, <1>1, <1>2 DEF FlagTypes, TypeOK, SuspendClear
  <2>7. TimeTypes'
    BY <1>17, <1>1, <1>2 DEF TimeTypes, TypeOK, SuspendClear
  <2>8. ThreadTypes'
    BY <1>17, <1>1, <1>2 DEF ThreadTypes, TypeOK, PCs, CancelPCs, SuspendClear
  <2>9. OtherTypes'
    BY <1>17, <1>1, <1>2 DEF OtherTypes, TypeOK, SuspendClear
  <2> QED BY <2>3, <2>4, <2>5, <2>6, <2>7, <2>8, <2>9, TypePartsNext
<1>18. CASE SuspendWait
  <2>3. ObjTypes'
    BY <1>18, <1>1, <1>2 DEF ObjTypes, TypeOK, SuspendWait
  <2>4. QueueTypes'
    BY <1>18, <1>1, <1>2 DEF QueueTypes, TypeOK, SuspendWait
  <2>5. CountTypes'
    BY <1>18, <1>1, <1>2 DEF CountTypes, TypeOK, SuspendWait
  <2>6. FlagTypes'
    BY <1>18, <1>1, <1>2 DEF FlagTypes, TypeOK, SuspendWait
  <2>7. TimeTypes'
    BY <1>18, <1>1, <1>2 DEF TimeTypes, TypeOK, SuspendWait
  <2>8. ThreadTypes'
    BY <1>18, <1>1, <1>2 DEF ThreadTypes, TypeOK, PCs, CancelPCs, SuspendWait
  <2>9. OtherTypes'
    BY <1>18, <1>1, <1>2 DEF OtherTypes, TypeOK, SuspendWait
  <2> QED BY <2>3, <2>4, <2>5, <2>6, <2>7, <2>8, <2>9, TypePartsNext
<1>19. CASE SuspendEnd
  <2>3. ObjTypes'
    BY <1>19, <1>1, <1>2 DEF ObjTypes, TypeOK, SuspendEnd
  <2>4. QueueTypes'
    BY <1>19, <1>1, <1>2 DEF QueueTypes, TypeOK, SuspendEnd
  <2>5. CountTypes'
    BY <1>19, <1>1, <1>2 DEF CountTypes, TypeOK, SuspendEnd
  <2>6. FlagTypes'
    BY <1>19, <1>1, <1>2 DEF FlagTypes, TypeOK, SuspendEnd
  <2>7. TimeTypes'
    BY <1>19, <1>1, <1>2 DEF TimeTypes, TypeOK, SuspendEnd
  <2>8. ThreadTypes'
    BY <1>19, <1>1, <1>2 DEF ThreadTypes, TypeOK, PCs, CancelPCs, SuspendEnd
  <2>9. OtherTypes'
    BY <1>19, <1>1, <1>2 DEF OtherTypes, TypeOK, SuspendEnd
  <2> QED BY <2>3, <2>4, <2>5, <2>6, <2>7, <2>8, <2>9, TypePartsNext
<1>20. CASE ExitLoop
  <2>3. ObjTypes'
    BY <1>20, <1>1, <1>2 DEF ObjTypes, TypeOK, ExitLoop, EndScheduling,
       EnterCancel, Started
  <2>4. QueueTypes'
    BY <1>20, <1>1, <1>2 DEF QueueTypes, TypeOK, ExitLoop, EndScheduling,
       EnterCancel, Started
  <2>5. CountTypes'
    BY <1>20, <1>1, <1>2 DEF CountTypes, TypeOK, ExitLoop, EndScheduling,
       EnterCancel, Started
  <2>6. FlagTypes'
    BY <1>20, <1>1, <1>2 DEF FlagTypes, TypeOK, ExitLoop, EndScheduling,
       EnterCancel, Started
  <2>7. TimeTypes'
    BY <1>20, <1>1, <1>2 DEF TimeTypes, TypeOK, ExitLoop, EndScheduling,
       EnterCancel, Started
  <2>8. ThreadTypes'
    BY <1>20, <1>1, <1>2 DEF ThreadTypes, TypeOK, PCs, CancelPCs, ExitLoop,
       EndScheduling, EnterCancel, Started
  <2>9. OtherTypes'
    BY <1>20, <1>1, <1>2 DEF OtherTypes, TypeOK, ExitLoop, EndScheduling,
       EnterCancel, Started
  <2> QED BY <2>3, <2>4, <2>5, <2>6, <2>7, <2>8, <2>9, TypePartsNext
<1>21. CASE DoCancel
  BY <1>21, <1>1, <1>2 DEF TypeOK, PCs, CancelPCs, DoCancel
<1>22. CASE CancelComplete
  <2>1. canc \in Obj /\ Append(readyQ, canc) \in Seq(Obj)
    BY <1>22, <1>1, <1>2 DEF TypeOK, IInv, CtlInv, CancelPCs, CancelComplete
  <2>2. isIn[canc] = "timer" =>
           Without(timerQ, PosOf(timerQ, canc)) \in Seq(Timer)
    BY <1>2, <2>1, PosOfQueued, WithoutType DEF TypeOK, IInv, QueuesConsistent
  <2>3. ObjTypes'
    BY <1>22, <1>1, <1>2, <2>1, <2>2 DEF ObjTypes, TypeOK, CancelComplete,
       Complete, CancelLeave, AfterLeave
  <2>4. QueueTypes'
    BY <1>22, <1>1, <1>2, <2>1, <2>2 DEF QueueTypes, TypeOK, CancelComplete,
       Complete, CancelLeave, AfterLeave
  <2>5. CountTypes'
    BY <1>22, <1>1, <1>2, <2>1, <2>2 DEF CountTypes, TypeOK, CancelComplete,
       Complete, CancelLeave, AfterLeave
  <2>6. FlagTypes'
    BY <1>22, <1>1, <1>2, <2>1, <2>2 DEF FlagTypes, TypeOK, CancelComplete,
       Complete, CancelLeave, AfterLeave
  <2>7. TimeTypes'
    BY <1>22, <1>1, <1>2, <2>1, <2>2 DEF TimeTypes, TypeOK, CancelComplete,
       Complete, CancelLeave, AfterLeave
  <2>8. ThreadTypes'
    BY <1>22, <1>1, <1>2, <2>1, <2>2 DEF ThreadTypes, TypeOK, PCs, CancelPCs,
       CancelComplete, Complete, CancelLeave, AfterLeave
  <2>9. OtherTypes'
    BY <1>22, <1>1, <1>2, <2>1, <2>2 DEF OtherTypes, TypeOK, CancelComplete,
       Complete, CancelLeave, AfterLeave
  <2> QED BY <2>3, <2>4, <2>5, <2>6, <2>7, <2>8, <2>9, TypePartsNext
<1>23. CASE CancelIsIn
  <2>3. ObjTypes'
    BY <1>23, <1>1, <1>2 DEF ObjTypes, TypeOK, CancelIsIn
  <2>4. QueueTypes'
    BY <1>23, <1>1, <1>2 DEF QueueTypes, TypeOK, CancelIsIn
  <2>5. CountTypes'
    BY <1>23, <1>1, <1>2 DEF CountTypes, TypeOK, CancelIsIn
  <2>6. FlagTypes'
    BY <1>23, <1>1, <1>2 DEF FlagTypes, TypeOK, CancelIsIn
  <2>7. TimeTypes'
    BY <1>23, <1>1, <1>2 DEF TimeTypes, TypeOK, CancelIsIn
  <2>8. ThreadTypes'
    BY <1>23, <1>1, <1>2 DEF ThreadTypes, TypeOK, PCs, CancelPCs, CancelIsIn
  <2>9. OtherTypes'
    BY <1>23, <1>1, <1>2 DEF OtherTypes, TypeOK, CancelIsIn
  <2> QED BY <2>3, <2>4, <2>5, <2>6, <2>7, <2>8, <2>9, TypePartsNext
<1>24. CASE CancelWait
  BY <1>24, <1>1, <1>2 DEF TypeOK, PCs, CancelPCs, CancelWait
<1>25. CASE CancelCheck
  BY <1>25, <1>1, <1>2 DEF TypeOK, PCs, CancelPCs, CancelCheck
<1>26. CASE CancelRestore
  BY <1>26, <1>1, <1>2 DEF TypeOK, PCs, CancelPCs, CancelRestore
<1>27. CASE CancelIdle
  <2>3. ObjTypes'
    BY <1>27, <1>1, <1>2 DEF ObjTypes, TypeOK, CancelIdle
  <2>4. QueueTypes'
    BY <1>27, <1>1, <1>2 DEF QueueTypes, TypeOK, CancelIdle
  <2>5. CountTypes'
    BY <1>27, <1>1, <1>2 DEF CountTypes, TypeOK, CancelIdle
  <2>6. FlagTypes'
    BY <1>27, <1>1, <1>2 DEF FlagTypes, TypeOK, CancelIdle
  <2>7. TimeTypes'
    BY <1>27, <1>1, <1>2 DEF TimeTypes, TypeOK, CancelIdle
  <2>8. ThreadTypes'
    BY <1>27, <1>1, <1>2 DEF ThreadTypes, TypeOK, PCs, CancelPCs, CancelIdle
  <2>9. OtherTypes'
    BY <1>27, <1>1, <1>2 DEF OtherTypes, TypeOK, CancelIdle
  <2> QED BY <2>3, <2>4, <2>5, <2>6, <2>7, <2>8, <2>9, TypePartsNext
<1>28. CASE CancelRemove
  <2>1. IsQueued(readyQ, canc) =>
           Without(readyQ, PosOf(readyQ, canc)) \in Seq(Obj)
    BY <1>2, PosOfQueued, WithoutType DEF TypeOK
  <2>3. ObjTypes'
    BY <1>28, <1>1, <1>2, <2>1 DEF ObjTypes, TypeOK, CancelRemove,
       CancelReturn
  <2>4. QueueTypes'
    BY <1>28, <1>1, <1>2, <2>1 DEF QueueTypes, TypeOK, CancelRemove,
       CancelReturn
  <2>5. CountTypes'
    BY <1>28, <1>1, <1>2, <2>1 DEF CountTypes, TypeOK, CancelRemove,
       CancelReturn
  <2>6. FlagTypes'
    BY <1>28, <1>1, <1>2, <2>1 DEF FlagTypes, TypeOK, CancelRemove,
       CancelReturn
  <2>7. TimeTypes'
    BY <1>28, <1>1, <1>2, <2>1 DEF TimeTypes, TypeOK, CancelRemove,
       CancelReturn
  <2>8. ThreadTypes'
    BY <1>28, <1>1, <1>2, <2>1 DEF ThreadTypes, TypeOK, PCs, CancelPCs,
       CancelRemove, CancelReturn
  <2>9. OtherTypes'
    BY <1>28, <1>1, <1>2, <2>1 DEF OtherTypes, TypeOK, CancelRemove,
       CancelReturn
  <2> QED BY <2>3, <2>4, <2>5, <2>6, <2>7, <2>8, <2>9, TypePartsNext
<1>29. CASE CancelSem
  <2>1. sem' \in Nat
    BY <1>29, <1>2 DEF CancelSem, TypeOK
  <2> QED
    BY <1>29, <1>1, <1>2, <2>1 DEF TypeOK, PCs, CancelPCs, CancelSem,
       CancelReturn
<1>30. CASE CleanupTimer
  <2>0. timerQ # <<>>
    BY <1>30 DEF CleanupTimer
  <2>1. timerQ[TimerTop] \in Timer /\ Without(timerQ, TimerTop) \in Seq(Timer)
    BY <1>2, <2>0, Tops, WithoutType DEF IInv, TypeOK
  <2> QED
    BY <1>30, <1>1, <1>2, <2>1 DEF TypeOK, PCs, CancelPCs, CleanupTimer,
       EnterCancel
<1>31. CASE CleanupReady
  <2>1. readyQ[ReadyTop] \in Obj
    BY <1>31, Tops DEF IInv, CleanupReady
  <2> QED
    BY <1>31, <1>1, <1>2, <2>1 DEF TypeOK, PCs, CancelPCs, CleanupReady,
       EnterCancel
<1>32. CASE CleanupDone
  BY <1>32, <1>1, <1>2 DEF TypeOK, PCs, CancelPCs, CleanupDone
<1>33. CASE StartScheduler
  BY <1>33, <1>1, <1>2 DEF TypeOK, PCs, CancelPCs, StartScheduler,
     BeginScheduling, Started
<1>34. CASE RunSchedulerNonBlocking
  <2>2. CASE Started
    BY <1>34, <1>1, <1>2, <2>2 DEF TypeOK, PCs, CancelPCs,
       RunSchedulerNonBlocking
  <2>3. CASE ~Started
    <3>0. BeginScheduling(FALSE)
      BY <1>34, <2>3 DEF RunSchedulerNonBlocking
    <3>1. /\ busy' \in [Obj -> BOOLEAN] /\ added' \subseteq Obj
          /\ status' \in [Obj -> {"none", "pending", "cancel", "stop", "suspend"}]
          /\ blocking' \in BOOLEAN
      BY <3>0, <1>1, <1>2 DEF TypeOK, BeginScheduling
    <3>2. /\ pc' = "timers" /\ timenow' = now
          /\ UNCHANGED <<isIn, qVars, now, due, doStop, doSuspend, suspended,
                         resumeSem, cur, cancVars, envVars>>
      BY <1>34 DEF RunSchedulerNonBlocking
    <3> QED
      BY <1>2, <3>1, <3>2 DEF TypeOK, PCs
  <2> QED BY <2>2, <2>3
<1>35. CASE CountReached
  BY <1>35, <1>1, <1>2 DEF TypeOK, PCs, CancelPCs, CountReached
<1>36. CASE RunReturn
  BY <1>36, <1>1, <1>2 DEF TypeOK, PCs, CancelPCs, RunReturn
<1>37. CASE RunLeave
  BY <1>37, <1>1, <1>2 DEF TypeOK, PCs, CancelPCs, RunLeave, AfterLeave
<1>38. CASE UninstallScheduler
  <2>3. ObjTypes'
    BY <1>38, <1>1, <1>2 DEF ObjTypes, TypeOK, UninstallScheduler,
       EndScheduling, EnterCancel, Started
  <2>4. QueueTypes'
    BY <1>38, <1>1, <1>2 DEF QueueTypes, TypeOK, UninstallScheduler,
       EndScheduling, EnterCancel, Started
  <2>5. CountTypes'
    BY <1>38, <1>1, <1>2 DEF CountTypes, TypeOK, UninstallScheduler,
       EndScheduling, EnterCancel, Started
  <2>6. FlagTypes'
    BY <1>38, <1>1, <1>2 DEF FlagTypes, TypeOK, UninstallScheduler,
       EndScheduling, EnterCancel, Started
  <2>7. TimeTypes'
    BY <1>38, <1>1, <1>2 DEF TimeTypes, TypeOK, UninstallScheduler,
       EndScheduling, EnterCancel, Started
  <2>8. ThreadTypes'
    BY <1>38, <1>1, <1>2 DEF ThreadTypes, TypeOK, PCs, CancelPCs,
       UninstallScheduler, EndScheduling, EnterCancel, Started
  <2>9. OtherTypes'
    BY <1>38, <1>1, <1>2 DEF OtherTypes, TypeOK, UninstallScheduler,
       EndScheduling, EnterCancel, Started
  <2> QED BY <2>3, <2>4, <2>5, <2>6, <2>7, <2>8, <2>9, TypePartsNext
<1>39. CASE RegisterForCallback
  <2>3. ObjTypes'
    BY <1>39, <1>1, <1>2 DEF ObjTypes, TypeOK, RegisterForCallback, UserCode
  <2>4. QueueTypes'
    BY <1>39, <1>1, <1>2 DEF QueueTypes, TypeOK, RegisterForCallback,
       UserCode
  <2>5. CountTypes'
    BY <1>39, <1>1, <1>2 DEF CountTypes, TypeOK, RegisterForCallback,
       UserCode
  <2>6. FlagTypes'
    BY <1>39, <1>1, <1>2 DEF FlagTypes, TypeOK, RegisterForCallback, UserCode
  <2>7. TimeTypes'
    BY <1>39, <1>1, <1>2 DEF TimeTypes, TypeOK, RegisterForCallback, UserCode
  <2>8. ThreadTypes'
    BY <1>39, <1>1, <1>2 DEF ThreadTypes, TypeOK, PCs, CancelPCs,
       RegisterForCallback, UserCode
  <2>9. OtherTypes'
    BY <1>39, <1>1, <1>2 DEF OtherTypes, TypeOK, RegisterForCallback,
       UserCode
  <2> QED BY <2>3, <2>4, <2>5, <2>6, <2>7, <2>8, <2>9, TypePartsNext
<1>40. ASSUME NEW a \in AO, PendForExec(a) PROVE TypeOK'
  BY <1>40, <1>1, <1>2 DEF TypeOK, PCs, CancelPCs, PendForExec, UserCode,
     Activate
<1>41. ASSUME NEW a \in AO \cup Timer, RunIfNotReady(a) PROVE TypeOK'
  <2>1. a \in Obj /\ Append(readyQ, a) \in Seq(Obj)
    BY <1>41, <1>1, <1>2 DEF TypeOK, IInv, CtlInv, CancelPCs, RunIfNotReady
  <2>3. ObjTypes'
    BY <1>41, <1>1, <1>2, <2>1 DEF ObjTypes, TypeOK, RunIfNotReady, UserCode,
       Activate, Complete
  <2>4. QueueTypes'
    BY <1>41, <1>1, <1>2, <2>1 DEF QueueTypes, TypeOK, RunIfNotReady,
       UserCode, Activate, Complete
  <2>5. CountTypes'
    BY <1>41, <1>1, <1>2, <2>1 DEF CountTypes, TypeOK, RunIfNotReady,
       UserCode, Activate, Complete
  <2>6. FlagTypes'
    BY <1>41, <1>1, <1>2, <2>1 DEF FlagTypes, TypeOK, RunIfNotReady,
       UserCode, Activate, Complete
  <2>7. TimeTypes'
    BY <1>41, <1>1, <1>2, <2>1 DEF TimeTypes, TypeOK, RunIfNotReady,
       UserCode, Activate, Complete
  <2>8. ThreadTypes'
    BY <1>41, <1>1, <1>2, <2>1 DEF ThreadTypes, TypeOK, PCs, CancelPCs,
       RunIfNotReady, UserCode, Activate, Complete
  <2>9. OtherTypes'
    BY <1>41, <1>1, <1>2, <2>1 DEF OtherTypes, TypeOK, RunIfNotReady,
       UserCode, Activate, Complete
  <2> QED BY <2>3, <2>4, <2>5, <2>6, <2>7, <2>8, <2>9, TypePartsNext
<1>42. ASSUME NEW a \in AO \cup Timer, Cancel(a) PROVE TypeOK'
  <2>3. ObjTypes'
    BY <1>42, <1>1, <1>2 DEF ObjTypes, TypeOK, Cancel, UserCode, EnterCancel
  <2>4. QueueTypes'
    BY <1>42, <1>1, <1>2 DEF QueueTypes, TypeOK, Cancel, UserCode, EnterCancel
  <2>5. CountTypes'
    BY <1>42, <1>1, <1>2 DEF CountTypes, TypeOK, Cancel, UserCode, EnterCancel
  <2>6. FlagTypes'
    BY <1>42, <1>1, <1>2 DEF FlagTypes, TypeOK, Cancel, UserCode, EnterCancel
  <2>7. TimeTypes'
    BY <1>42, <1>1, <1>2 DEF TimeTypes, TypeOK, Cancel, UserCode, EnterCancel
  <2>8. ThreadTypes'
    BY <1>42, <1>1, <1>2 DEF ThreadTypes, TypeOK, PCs, CancelPCs, Cancel,
       UserCode, EnterCancel
  <2>9. OtherTypes'
    BY <1>42, <1>1, <1>2 DEF OtherTypes, TypeOK, Cancel, UserCode, EnterCancel
  <2> QED BY <2>3, <2>4, <2>5, <2>6, <2>7, <2>8, <2>9, TypePartsNext
<1>43. ASSUME NEW a \in AO \cup Timer, RemoveFromScheduler(a) PROVE TypeOK'
  <2>3. ObjTypes'
    BY <1>43, <1>1, <1>2 DEF ObjTypes, TypeOK, RemoveFromScheduler, UserCode,
       EnterCancel
  <2>4. QueueTypes'
    BY <1>43, <1>1, <1>2 DEF QueueTypes, TypeOK, RemoveFromScheduler,
       UserCode, EnterCancel
  <2>5. CountTypes'
    BY <1>43, <1>1, <1>2 DEF CountTypes, TypeOK, RemoveFromScheduler,
       UserCode, EnterCancel
  <2>6. FlagTypes'
    BY <1>43, <1>1, <1>2 DEF FlagTypes, TypeOK, RemoveFromScheduler,
       UserCode, EnterCancel
  <2>7. TimeTypes'
    BY <1>43, <1>1, <1>2 DEF TimeTypes, TypeOK, RemoveFromScheduler,
       UserCode, EnterCancel
  <2>8. ThreadTypes'
    BY <1>43, <1>1, <1>2 DEF ThreadTypes, TypeOK, PCs, CancelPCs,
       RemoveFromScheduler, UserCode, EnterCancel
  <2>9. OtherTypes'
    BY <1>43, <1>1, <1>2 DEF OtherTypes, TypeOK, RemoveFromScheduler,
       UserCode, EnterCancel
  <2> QED BY <2>3, <2>4, <2>5, <2>6, <2>7, <2>8, <2>9, TypePartsNext
<1>44. ASSUME NEW a \in AO \cup Timer, AddToScheduler(a) PROVE TypeOK'
  BY <1>44, <1>1, <1>2 DEF TypeOK, PCs, CancelPCs, AddToScheduler, UserCode
<1>45. ASSUME NEW t \in Timer, NEW d \in Delays, After(t, d) PROVE TypeOK'
  <2>1. Append(timerQ, t) \in Seq(Timer) /\ (now + d) % Wrap \in 0..(Wrap - 1)
    <3>1. now + d \in Int
      BY <1>2, TimeAssumption DEF TypeOK
    <3> QED BY <1>2, <3>1, ModCases DEF TypeOK
  <2>2. callback' \in BOOLEAN
    BY <1>45, <1>2 DEF After, TypeOK
  <2> QED
    BY <1>45, <1>1, <1>2, <2>1, <2>2 DEF TypeOK, PCs, CancelPCs, After,
       UserCode, Activate
<1>46. ASSUME NEW a \in AO, RemoteComplete(a) PROVE TypeOK'
  <2>1. a \in Obj /\ Append(readyQ, a) \in Seq(Obj)
    BY <1>46, <1>1, <1>2 DEF TypeOK, IInv, CtlInv, CancelPCs, RemoteComplete
  <2>3. ObjTypes'
    BY <1>46, <1>1, <1>2, <2>1 DEF ObjTypes, TypeOK, RemoteComplete,
       Complete, CanComplete
  <2>4. QueueTypes'
    BY <1>46, <1>1, <1>2, <2>1 DEF QueueTypes, TypeOK, RemoteComplete,
       Complete, CanComplete
  <2>5. CountTypes'
    BY <1>46, <1>1, <1>2, <2>1 DEF CountTypes, TypeOK, RemoteComplete,
       Complete, CanComplete
  <2>6. FlagTypes'
    BY <1>46, <1>1, <1>2, <2>1 DEF FlagTypes, TypeOK, RemoteComplete,
       Complete, CanComplete
  <2>7. TimeTypes'
    BY <1>46, <1>1, <1>2, <2>1 DEF TimeTypes, TypeOK, RemoteComplete,
       Complete, CanComplete
  <2>8. ThreadTypes'
    BY <1>46, <1>1, <1>2, <2>1 DEF ThreadTypes, TypeOK, PCs, CancelPCs,
       RemoteComplete, Complete, CanComplete
  <2>9. OtherTypes'
    BY <1>46, <1>1, <1>2, <2>1 DEF OtherTypes, TypeOK, RemoteComplete,
       Complete, CanComplete
  <2> QED BY <2>3, <2>4, <2>5, <2>6, <2>7, <2>8, <2>9, TypePartsNext
<1>47. ASSUME NEW t \in Control, StopCheck(t) PROVE TypeOK'
  BY <1>47, <1>1, <1>2 DEF TypeOK, PCs, CancelPCs, StopCheck, Goto
<1>48. ASSUME NEW t \in Control, StopTestSuspend(t) PROVE TypeOK'
  BY <1>48, <1>1, <1>2 DEF TypeOK, PCs, CancelPCs, StopTestSuspend, Goto
<1>49. ASSUME NEW t \in Control, SuspendCheck(t) PROVE TypeOK'
  BY <1>49, <1>1, <1>2 DEF TypeOK, PCs, CancelPCs, SuspendCheck, Goto
<1>50. ASSUME NEW t \in Control, ResumeCheck(t) PROVE TypeOK'
  BY <1>50, <1>1, <1>2 DEF TypeOK, PCs, CancelPCs, ResumeCheck, Goto
<1>51. ASSUME NEW t \in Control, SignalResume(t) PROVE TypeOK'
  BY <1>51, <1>1, <1>2 DEF TypeOK, PCs, CancelPCs, SignalResume
<1>52. ASSUME NEW t \in Control, CompleteStopper(t) PROVE TypeOK'
  <2>1. Stopper \in Obj /\ Append(readyQ, Stopper) \in Seq(Obj)
    BY <1>52, <1>1, <1>2 DEF TypeOK, IInv, CtlInv, CancelPCs, CompleteStopper
  <2>3. ObjTypes'
    BY <1>52, <1>1, <1>2, <2>1 DEF ObjTypes, TypeOK, CompleteStopper,
       Complete, CanComplete, Started
  <2>4. QueueTypes'
    BY <1>52, <1>1, <1>2, <2>1 DEF QueueTypes, TypeOK, CompleteStopper,
       Complete, CanComplete, Started
  <2>5. CountTypes'
    BY <1>52, <1>1, <1>2, <2>1 DEF CountTypes, TypeOK, CompleteStopper,
       Complete, CanComplete, Started
  <2>6. FlagTypes'
    BY <1>52, <1>1, <1>2, <2>1 DEF FlagTypes, TypeOK, CompleteStopper,
       Complete, CanComplete, Started
  <2>7. TimeTypes'
    BY <1>52, <1>1, <1>2, <2>1 DEF TimeTypes, TypeOK, CompleteStopper,
       Complete, CanComplete, Started
  <2>8. ThreadTypes'
    BY <1>52, <1>1, <1>2, <2>1 DEF ThreadTypes, TypeOK, PCs, CancelPCs,
       CompleteStopper, Complete, CanComplete, Started
  <2>9. OtherTypes'
    BY <1>52, <1>1, <1>2, <2>1 DEF OtherTypes, TypeOK, CompleteStopper,
       Complete, CanComplete, Started
  <2> QED BY <2>3, <2>4, <2>5, <2>6, <2>7, <2>8, <2>9, TypePartsNext
<1>53. CASE Tick
  BY <1>53, <1>1, <1>2 DEF TypeOK, PCs, CancelPCs, Tick
<1>54. CASE UNCHANGED vars
  BY <1>54, <1>1, <1>2 DEF TypeOK, PCs, CancelPCs
<1> QED
  BY <1>3, <1>4, <1>5, <1>6, <1>7, <1>8, <1>9, <1>10, <1>11, <1>12,
     <1>13, <1>14, <1>15, <1>16, <1>17, <1>18, <1>19, <1>20, <1>21,
     <1>22, <1>23, <1>24, <1>25, <1>26, <1>27, <1>28, <1>29, <1>30,
     <1>31, <1>32, <1>33, <1>34, <1>35, <1>36, <1>37, <1>38, <1>39,
     <1>40, <1>41, <1>42, <1>43, <1>44, <1>45, <1>46, <1>47, <1>48,
     <1>49, <1>50, <1>51, <1>52, <1>53, <1>54 DEF Next, LoopStep,
     CancelStep, UserStep, ControlStep

\* Every step leaves the locals as the place it goes to expects them.
LEMMA CtlStep ==
    ASSUME IInv, [Next]_vars
    PROVE  CtlInv'
<1> USE DEF vars, aoVars, qVars, timeVars, flagVars, thrVars, cancVars, envVars
<1>1. /\ AO \subseteq Obj /\ Timer \subseteq Obj /\ Stopper \in Obj
      /\ None \notin Obj
  BY ObjAssumption DEF Obj
<1>2. TypeOK /\ CtlInv
  BY DEF IInv
<1>3. /\ readyQ # <<>> => readyQ[ReadyTop] \in Obj
      /\ timerQ # <<>> => timerQ[TimerTop] \in Timer
  BY Tops DEF IInv
<1>4. /\ pc \in PCs /\ ret \in {"idle", "running", "cleanup"}
      /\ crit \in BOOLEAN
  BY <1>2 DEF TypeOK
<1>5. CASE LoopTest
  BY <1>5, <1>1, <1>2, <1>3, <1>4 DEF CtlInv, CancelPCs, LoopTest
<1>6. CASE TimerDue
  BY <1>6, <1>1, <1>2, <1>3, <1>4 DEF CtlInv, CancelPCs, TimerDue, TopDue
<1>7. CASE TimerComplete
  BY <1>7, <1>1, <1>2, <1>3, <1>4 DEF CtlInv, CancelPCs, TimerComplete,
     Complete, CanComplete, AfterLeave
<1>8. CASE TimersDone
  BY <1>8, <1>1, <1>2, <1>3, <1>4 DEF CtlInv, CancelPCs, TimersDone, TopDue
<1>9. CASE PopTop
  BY <1>9, <1>1, <1>2, <1>3, <1>4 DEF CtlInv, CancelPCs, PopTop
<1>10. CASE PopSem
  BY <1>10, <1>1, <1>2, <1>3, <1>4 DEF CtlInv, CancelPCs, PopSem
<1>11. CASE PopNothing
  BY <1>11, <1>1, <1>2, <1>3, <1>4 DEF CtlInv, CancelPCs, PopNothing
<1>12. CASE WaitSem
  BY <1>12, <1>1, <1>2, <1>3, <1>4 DEF CtlInv, CancelPCs, WaitSem
<1>13. CASE PopTopAfterWait
  BY <1>13, <1>1, <1>2, <1>3, <1>4 DEF CtlInv, CancelPCs, PopTopAfterWait
<1>14. CASE WaitTimeout
  BY <1>14, <1>1, <1>2, <1>3, <1>4 DEF CtlInv, CancelPCs, WaitTimeout
<1>15. CASE TimerExpired
  BY <1>15, <1>1, <1>2, <1>3, <1>4 DEF CtlInv, CancelPCs, TimerExpired
<1>16. CASE RunStopper
  BY <1>16, <1>1, <1>2, <1>3, <1>4 DEF CtlInv, CancelPCs, RunStopper
<1>17. CASE CallRun
  BY <1>17, <1>1, <1>2, <1>3, <1>4 DEF CtlInv, CancelPCs, CallRun
<1>18. CASE AfterRun
  BY <1>18, <1>1, <1>2, <1>3, <1>4 DEF CtlInv, CancelPCs, AfterRun
<1>19. CASE SuspendClear
  BY <1>19, <1>1, <1>2, <1>3, <1>4 DEF CtlInv, CancelPCs, SuspendClear
<1>20. CASE SuspendWait
  BY <1>20, <1>1, <1>2, <1>3, <1>4 DEF CtlInv, CancelPCs, SuspendWait
<1>21. CASE SuspendEnd
  BY <1>21, <1>1, <1>2, <1>3, <1>4 DEF CtlInv, CancelPCs, SuspendEnd
<1>22. CASE ExitLoop
  BY <1>22, <1>1, <1>2, <1>3, <1>4 DEF CtlInv, CancelPCs, ExitLoop,
     EndScheduling, EnterCancel, Started
<1>23. CASE DoCancel
  BY <1>23, <1>1, <1>2, <1>3, <1>4 DEF CtlInv, CancelPCs, DoCancel
<1>24. CASE CancelComplete
  BY <1>24, <1>1, <1>2, <1>3, <1>4 DEF CtlInv, CancelPCs, CancelComplete,
     Complete, CancelLeave, AfterLeave
<1>25. CASE CancelIsIn
  BY <1>25, <1>1, <1>2, <1>3, <1>4 DEF CtlInv, CancelPCs, CancelIsIn
<1>26. CASE CancelWait
  BY <1>26, <1>1, <1>2, <1>3, <1>4 DEF CtlInv, CancelPCs, CancelWait
<1>27. CASE CancelCheck
  BY <1>27, <1>1, <1>2, <1>3, <1>4 DEF CtlInv, CancelPCs, CancelCheck
<1>28. CASE CancelRestore
  BY <1>28, <1>1, <1>2, <1>3, <1>4 DEF CtlInv, CancelPCs, CancelRestore
<1>29. CASE CancelIdle
  BY <1>29, <1>1, <1>2, <1>3, <1>4 DEF CtlInv, CancelPCs, CancelIdle
<1>30. CASE CancelRemove
  BY <1>30, <1>1, <1>2, <1>3, <1>4 DEF CtlInv, CancelPCs, CancelRemove,
     CancelReturn
<1>31. CASE CancelSem
  BY <1>31, <1>1, <1>2, <1>3, <1>4 DEF CtlInv, CancelPCs, CancelSem,
     CancelReturn
<1>32. CASE CleanupTimer
  BY <1>32, <1>1, <1>2, <1>3, <1>4 DEF CtlInv, CancelPCs, CleanupTimer,
     EnterCancel
<1>33. CASE CleanupReady
  BY <1>33, <1>1, <1>2, <1>3, <1>4 DEF CtlInv, CancelPCs, CleanupReady,
     EnterCancel
<1>34. CASE CleanupDone
  BY <1>34, <1>1, <1>2, <1>3, <1>4 DEF CtlInv, CancelPCs, CleanupDone
<1>35. CASE StartScheduler
  BY <1>35, <1>1, <1>2, <1>3, <1>4 DEF CtlInv, CancelPCs, StartScheduler,
     BeginScheduling, Started
<1>36. CASE RunSchedulerNonBlocking
  BY <1>36, <1>1, <1>2, <1>3, <1>4 DEF CtlInv, CancelPCs,
     RunSchedulerNonBlocking, BeginScheduling, Started
<1>37. CASE CountReached
  BY <1>37, <1>1, <1>2, <1>3, <1>4 DEF CtlInv, CancelPCs, CountReached
<1>38. CASE RunReturn
  BY <1>38, <1>1, <1>2, <1>3, <1>4 DEF CtlInv, CancelPCs, RunReturn
<1>39. CASE RunLeave
  BY <1>39, <1>1, <1>2, <1>3, <1>4 DEF CtlInv, CancelPCs, RunLeave,
     AfterLeave
<1>40. CASE UninstallScheduler
  BY <1>40, <1>1, <1>2, <1>3, <1>4 DEF CtlInv, CancelPCs, UninstallScheduler,
     EndScheduling, EnterCancel, Started
<1>41. CASE RegisterForCallback
  BY <1>41, <1>1, <1>2, <1>3, <1>4 DEF CtlInv, CancelPCs,
     RegisterForCallback, UserCode
<1>42. ASSUME NEW a \in AO, PendForExec(a) PROVE CtlInv'
  BY <1>42, <1>1, <1>2, <1>3, <1>4 DEF CtlInv, CancelPCs, PendForExec,
     UserCode, Activate
<1>43. ASSUME NEW a \in AO \cup Timer, RunIfNotReady(a) PROVE CtlInv'
  BY <1>43, <1>1, <1>2, <1>3, <1>4 DEF CtlInv, CancelPCs, RunIfNotReady,
     UserCode, Activate, Complete
<1>44. ASSUME NEW a \in AO \cup Timer, Cancel(a) PROVE CtlInv'
  BY <1>44, <1>1, <1>2, <1>3, <1>4 DEF CtlInv, CancelPCs, Cancel, UserCode,
     EnterCancel
<1>45. ASSUME NEW a \in AO \cup Timer, RemoveFromScheduler(a) PROVE CtlInv'
  BY <1>45, <1>1, <1>2, <1>3, <1>4 DEF CtlInv, CancelPCs,
     RemoveFromScheduler, UserCode, EnterCancel
<1>46. ASSUME NEW a \in AO \cup Timer, AddToScheduler(a) PROVE CtlInv'
  BY <1>46, <1>1, <1>2, <1>3, <1>4 DEF CtlInv, CancelPCs, AddToScheduler,
     UserCode
<1>47. ASSUME NEW t \in Timer, NEW d \in Delays, After(t, d) PROVE CtlInv'
  BY <1>47, <1>1, <1>2, <1>3, <1>4 DEF CtlInv, CancelPCs, After, UserCode,
     Activate
<1>48. ASSUME NEW a \in AO, RemoteComplete(a) PROVE CtlInv'
  BY <1>48, <1>1, <1>2, <1>3, <1>4 DEF CtlInv, CancelPCs, RemoteComplete,
     Complete, CanComplete
<1>49. ASSUME NEW t \in Control, StopCheck(t) PROVE CtlInv'
  BY <1>49, <1>1, <1>2, <1>3, <1>4 DEF CtlInv, CancelPCs, StopCheck, Goto
<1>50. ASSUME NEW t \in Control, StopTestSuspend(t) PROVE CtlInv'
  BY <1>50, <1>1, <1>2, <1>3, <1>4 DEF CtlInv, CancelPCs, StopTestSuspend,
     Goto
<1>51. ASSUME NEW t \in Control, SuspendCheck(t) PROVE CtlInv'
  BY <1>51, <1>1, <1>2, <1>3, <1>4 DEF CtlInv, CancelPCs, SuspendCheck, Goto
<1>52. ASSUME NEW t \in Control, ResumeCheck(t) PROVE CtlInv'
  BY <1>52, <1>1, <1>2, <1>3, <1>4 DEF CtlInv, CancelPCs, ResumeCheck, Goto
<1>53. ASSUME NEW t \in Control, SignalResume(t) PROVE CtlInv'
  BY <1>53, <1>1, <1>2, <1>3, <1>4 DEF CtlInv, CancelPCs, SignalResume
<1>54. ASSUME NEW t \in Control, CompleteStopper(t) PROVE CtlInv'
  BY <1>54, <1>1, <1>2, <1>3, <1>4 DEF CtlInv, CancelPCs, CompleteStopper,
     Complete, CanComplete, Started
<1>55. CASE Tick
  BY <1>55, <1>1, <1>2, <1>3, <1>4 DEF CtlInv, CancelPCs, Tick
<1>56. CASE UNCHANGED vars
  BY <1>56, <1>1, <1>2, <1>3, <1>4 DEF CtlInv, CancelPCs
<1> QED
  BY <1>5, <1>6, <1>7, <1>8, <1>9, <1>10, <1>11, <1>12, <1>13, <1>14,
     <1>15, <1>16, <1>17, <1>18, <1>19, <1>20, <1>21, <1>22, <1>23,
     <1>24, <1>25, <1>26, <1>27, <1>28, <1>29, <1>30, <1>31, <1>32,
     <1>33, <1>34, <1>35, <1>36, <1>37, <1>38, <1>39, <1>40, <1>41,
     <1>42, <1>43, <1>44, <1>45, <1>46, <1>47, <1>48, <1>49, <1>50,
     <1>51, <1>52, <1>53, <1>54, <1>55, <1>56 DEF Next, LoopStep,
     CancelStep, UserStep, ControlStep

\* Every step keeps the state of the object at hand.
LEMMA ObjStep ==
    ASSUME IInv, [Next]_vars
    PROVE  ObjInv'
<1> USE DEF vars, aoVars, qVars, timeVars, flagVars, thrVars, cancVars, envVars
<1>1. /\ AO \subseteq Obj /\ Timer \subseteq Obj /\ Stopper \in Obj
      /\ None \notin Obj /\ AO \cap Timer = {} /\ Stopper \notin Timer
  BY ObjAssumption DEF Obj
<1>2. ObjInv /\ CtlInv
  BY DEF IInv
<1>3. /\ readyQ # <<>> => LET a == readyQ[ReadyTop] IN
            /\ a \in Obj /\ isIn[a] = "ready" /\ status[a] # "pending"
            /\ pc # "cancel_remove" => busy[a]
      /\ timerQ # <<>> => LET t == timerQ[TimerTop] IN
            t \in Timer /\ isIn[t] = "timer" /\ status[t] = "pending" /\ busy[t]
  BY <1>1, Tops DEF IInv, QueuesConsistent
<1>4. /\ pc \in PCs /\ ret \in {"idle", "running", "cleanup"}
      /\ added \subseteq Obj /\ canc \in Obj \cup {None}
      /\ cur \in Obj \cup {None}
      /\ busy \in [Obj -> BOOLEAN] /\ DOMAIN status = Obj /\ DOMAIN isIn = Obj
  BY DEF IInv, TypeOK
<1>5. CASE LoopTest
  BY <1>5, <1>1, <1>2, <1>3, <1>4 DEF ObjInv, CtlInv, CancelPCs, CanComplete,
     LoopTest
<1>6. CASE TimerDue
  BY <1>6, <1>1, <1>2, <1>3, <1>4 DEF ObjInv, CtlInv, CancelPCs, CanComplete,
     TimerDue, TopDue
<1>7. CASE TimerComplete
  BY <1>7, <1>1, <1>2, <1>3, <1>4 DEF ObjInv, CtlInv, CancelPCs, CanComplete,
     TimerComplete, Complete, AfterLeave
<1>8. CASE TimersDone
  BY <1>8, <1>1, <1>2, <1>3, <1>4 DEF ObjInv, CtlInv, CancelPCs, CanComplete,
     TimersDone, TopDue
<1>9. CASE PopTop
  BY <1>9, <1>1, <1>2, <1>3, <1>4 DEF ObjInv, CtlInv, CancelPCs, CanComplete,
     PopTop
<1>10. CASE PopSem
  BY <1>10, <1>1, <1>2, <1>3, <1>4 DEF ObjInv, CtlInv, CancelPCs, CanComplete,
     PopSem
<1>11. CASE PopNothing
  BY <1>11, <1>1, <1>2, <1>3, <1>4 DEF ObjInv, CtlInv, CancelPCs, CanComplete,
     PopNothing
<1>12. CASE WaitSem
  BY <1>12, <1>1, <1>2, <1>3, <1>4 DEF ObjInv, CtlInv, CancelPCs, CanComplete,
     WaitSem
<1>13. CASE PopTopAfterWait
  BY <1>13, <1>1, <1>2, <1>3, <1>4 DEF ObjInv, CtlInv, CancelPCs, CanComplete,
     PopTopAfterWait
<1>14. CASE WaitTimeout
  BY <1>14, <1>1, <1>2, <1>3, <1>4 DEF ObjInv, CtlInv, CancelPCs,
     CanComplete, WaitTimeout
<1>15. CASE TimerExpired
  <2>1. cur \in Timer /\ cur = timerQ[TimerTop] /\ timerQ # <<>>
    BY <1>15, <1>1, <1>2 DEF IInv, TopInv, CtlInv, TimerExpired
  <2> QED
    BY <1>15, <1>1, <1>2, <1>3, <1>4, <2>1 DEF ObjInv, CtlInv, CancelPCs,
       CanComplete, TimerExpired
<1>16. CASE RunStopper
  BY <1>16, <1>1, <1>2, <1>3, <1>4 DEF ObjInv, CtlInv, CancelPCs,
     CanComplete, RunStopper
<1>17. CASE CallRun
  BY <1>17, <1>1, <1>2, <1>3, <1>4 DEF ObjInv, CtlInv, CancelPCs,
     CanComplete, CallRun
<1>18. CASE AfterRun
  BY <1>18, <1>1, <1>2, <1>3, <1>4 DEF ObjInv, CtlInv, CancelPCs,
     CanComplete, AfterRun
<1>19. CASE SuspendClear
  BY <1>19, <1>1, <1>2, <1>3, <1>4 DEF ObjInv, CtlInv, CancelPCs,
     CanComplete, SuspendClear
<1>20. CASE SuspendWait
  BY <1>20, <1>1, <1>2, <1>3, <1>4 DEF ObjInv, CtlInv, CancelPCs,
     CanComplete, SuspendWait
<1>21. CASE SuspendEnd
  BY <1>21, <1>1, <1>2, <1>3, <1>4 DEF ObjInv, CtlInv, CancelPCs,
     CanComplete, SuspendEnd
<1>22. CASE ExitLoop
  BY <1>22, <1>1, <1>2, <1>3, <1>4 DEF ObjInv, CtlInv, CancelPCs,
     CanComplete, ExitLoop, EndScheduling, EnterCancel, Started
<1>23. CASE DoCancel
  BY <1>23, <1>1, <1>2, <1>3, <1>4 DEF ObjInv, CtlInv, CancelPCs,
     CanComplete, DoCancel
<1>24. CASE CancelComplete
  BY <1>24, <1>1, <1>2, <1>3, <1>4 DEF ObjInv, CtlInv, CancelPCs,
     CanComplete, CancelComplete, Complete, CancelLeave, AfterLeave
<1>25. CASE CancelIsIn
  BY <1>25, <1>1, <1>2, <1>3, <1>4 DEF ObjInv, CtlInv, CancelPCs,
     CanComplete, CancelIsIn
<1>26. CASE CancelWait
  BY <1>26, <1>1, <1>2, <1>3, <1>4 DEF ObjInv, CtlInv, CancelPCs,
     CanComplete, CancelWait
<1>27. CASE CancelCheck
  BY <1>27, <1>1, <1>2, <1>3, <1>4 DEF ObjInv, CtlInv, CancelPCs,
     CanComplete, CancelCheck
<1>28. CASE CancelRestore
  BY <1>28, <1>1, <1>2, <1>3, <1>4 DEF ObjInv, CtlInv, CancelPCs,
     CanComplete, CancelRestore
<1>29. CASE CancelIdle
  BY <1>29, <1>1, <1>2, <1>3, <1>4 DEF ObjInv, CtlInv, CancelPCs,
     CanComplete, CancelIdle
<1>30. CASE CancelRemove
  BY <1>30, <1>1, <1>2, <1>3, <1>4 DEF ObjInv, CtlInv, CancelPCs,
     CanComplete, CancelRemove, CancelReturn
<1>31. CASE CancelSem
  BY <1>31, <1>1, <1>2, <1>3, <1>4 DEF ObjInv, CtlInv, CancelPCs,
     CanComplete, CancelSem, CancelReturn
<1>32. CASE CleanupTimer
  BY <1>32, <1>1, <1>2, <1>3, <1>4 DEF ObjInv, CtlInv, CancelPCs,
     CanComplete, CleanupTimer, EnterCancel
<1>33. CASE CleanupReady
  BY <1>33, <1>1, <1>2, <1>3, <1>4 DEF ObjInv, CtlInv, CancelPCs,
     CanComplete, CleanupReady, EnterCancel
<1>34. CASE CleanupDone
  BY <1>34, <1>1, <1>2, <1>3, <1>4 DEF ObjInv, CtlInv, CancelPCs,
     CanComplete, CleanupDone
<1>35. CASE StartScheduler
  BY <1>35, <1>1, <1>2, <1>3, <1>4 DEF ObjInv, CtlInv, CancelPCs,
     CanComplete, StartScheduler, BeginScheduling, Started
<1>36. CASE RunSchedulerNonBlocking
  BY <1>36, <1>1, <1>2, <1>3, <1>4 DEF ObjInv, CtlInv, CancelPCs,
     CanComplete, RunSchedulerNonBlocking, BeginScheduling, Started
<1>37. CASE CountReached
  BY <1>37, <1>1, <1>2, <1>3, <1>4 DEF ObjInv, CtlInv, CancelPCs,
     CanComplete, CountReached
<1>38. CASE RunReturn
  BY <1>38, <1>1, <1>2, <1>3, <1>4 DEF ObjInv, CtlInv, CancelPCs,
     CanComplete, RunReturn
<1>39. CASE RunLeave
  BY <1>39, <1>1, <1>2, <1>3, <1>4 DEF ObjInv, CtlInv, CancelPCs,
     CanComplete, RunLeave, AfterLeave
<1>40. CASE UninstallScheduler
  BY <1>40, <1>1, <1>2, <1>3, <1>4 DEF ObjInv, CtlInv, CancelPCs,
     CanComplete, UninstallScheduler, EndScheduling, EnterCancel, Started
<1>41. CASE RegisterForCallback
  BY <1>41, <1>1, <1>2, <1>3, <1>4 DEF ObjInv, CtlInv, CancelPCs,
     CanComplete, RegisterForCallback, UserCode
<1>42. ASSUME NEW a \in AO, PendForExec(a) PROVE ObjInv'
  BY <1>42, <1>1, <1>2, <1>3, <1>4 DEF ObjInv, CtlInv, CancelPCs,
     CanComplete, PendForExec, UserCode, Activate
<1>43. ASSUME NEW a \in AO \cup Timer, RunIfNotReady(a) PROVE ObjInv'
  BY <1>43, <1>1, <1>2, <1>3, <1>4 DEF ObjInv, CtlInv, CancelPCs,
     CanComplete, RunIfNotReady, UserCode, Activate, Complete
<1>44. ASSUME NEW a \in AO \cup Timer, Cancel(a) PROVE ObjInv'
  BY <1>44, <1>1, <1>2, <1>3, <1>4 DEF ObjInv, CtlInv, CancelPCs,
     CanComplete, Cancel, UserCode, EnterCancel
<1>45. ASSUME NEW a \in AO \cup Timer, RemoveFromScheduler(a) PROVE ObjInv'
  BY <1>45, <1>1, <1>2, <1>3, <1>4 DEF ObjInv, CtlInv, CancelPCs,
     CanComplete, RemoveFromScheduler, UserCode, EnterCancel
<1>46. ASSUME NEW a \in AO \cup Timer, AddToScheduler(a) PROVE ObjInv'
  BY <1>46, <1>1, <1>2, <1>3, <1>4 DEF ObjInv, CtlInv, CancelPCs,
     CanComplete, AddToScheduler, UserCode
<1>47. ASSUME NEW t \in Timer, NEW d \in Delays, After(t, d) PROVE ObjInv'
  BY <1>47, <1>1, <1>2, <1>3, <1>4 DEF ObjInv, CtlInv, CancelPCs,
     CanComplete, After, UserCode, Activate
<1>48. ASSUME NEW a \in AO, RemoteComplete(a) PROVE ObjInv'
  BY <1>48, <1>1, <1>2, <1>3, <1>4 DEF ObjInv, CtlInv, CancelPCs,
     CanComplete, RemoteComplete, Complete
<1>49. ASSUME NEW t \in Control, StopCheck(t) PROVE ObjInv'
  BY <1>49, <1>1, <1>2, <1>3, <1>4 DEF ObjInv, CtlInv, CancelPCs,
     CanComplete, StopCheck, Goto
<1>50. ASSUME NEW t \in Control, StopTestSuspend(t) PROVE ObjInv'
  BY <1>50, <1>1, <1>2, <1>3, <1>4 DEF ObjInv, CtlInv, CancelPCs,
     CanComplete, StopTestSuspend, Goto
<1>51. ASSUME NEW t \in Control, SuspendCheck(t) PROVE ObjInv'
  BY <1>51, <1>1, <1>2, <1>3, <1>4 DEF ObjInv, CtlInv, CancelPCs,
     CanComplete, SuspendCheck, Goto
<1>52. ASSUME NEW t \in Control, ResumeCheck(t) PROVE ObjInv'
  BY <1>52, <1>1, <1>2, <1>3, <1>4 DEF ObjInv, CtlInv, CancelPCs,
     CanComplete, ResumeCheck, Goto
<1>53. ASSUME NEW t \in Control, SignalResume(t) PROVE ObjInv'
  BY <1>53, <1>1, <1>2, <1>3, <1>4 DEF ObjInv, CtlInv, CancelPCs,
     CanComplete, SignalResume
<1>54. ASSUME NEW t \in Control, CompleteStopper(t) PROVE ObjInv'
  BY <1>54, <1>1, <1>2, <1>3, <1>4 DEF ObjInv, CtlInv, CancelPCs,
     CanComplete, CompleteStopper, Complete, Started
<1>55. CASE Tick
  BY <1>55, <1>1, <1>2, <1>3, <1>4 DEF ObjInv, CtlInv, CancelPCs,
     CanComplete, Tick
<1>56. CASE UNCHANGED vars
  BY <1>56, <1>1, <1>2, <1>3, <1>4 DEF ObjInv, CtlInv, CancelPCs, CanComplete
<1> QED
  BY <1>5, <1>6, <1>7, <1>8, <1>9, <1>10, <1>11, <1>12, <1>13, <1>14,
     <1>15, <1>16, <1>17, <1>18, <1>19, <1>20, <1>21, <1>22, <1>23,
     <1>24, <1>25, <1>26, <1>27, <1>28, <1>29, <1>30, <1>31, <1>32,
     <1>33, <1>34, <1>35, <1>36, <1>37, <1>38, <1>39, <1>40, <1>41,
     <1>42, <1>43, <1>44, <1>45, <1>46, <1>47, <1>48, <1>49, <1>50,
     <1>51, <1>52, <1>53, <1>54, <1>55, <1>56 DEF Next, LoopStep,
     CancelStep, UserStep, ControlStep

\* QueuesConsistent with its parts named.
Linked ==
    /\ \A a \in Obj : isIn[a] = "ready" <=> IsQueued(readyQ, a)
    /\ \A a \in Obj : isIn[a] = "timer" <=> IsQueued(timerQ, a)
    /\ Distinct(readyQ) /\ Distinct(timerQ)

Requested ==
    /\ \A a \in Obj : isIn[a] = "ready" =>
          status[a] # "pending" /\ (busy[a] \/ (canc = a /\ pc = "cancel_remove"))
    /\ \A a \in Obj : isIn[a] = "timer" => status[a] = "pending" /\ busy[a]

LEMMA QueuesConsistentParts == QueuesConsistent <=> Linked /\ Requested
BY DEF QueuesConsistent, Linked, Requested, Distinct

(***************************************************************************)
(* What a step may do to the queues and the links: nothing, enter the      *)
(* ready queue, leave it, enter the timer queue, leave it, or, in Cancel,  *)
(* go from the timer queue to the ready queue.                             *)
(***************************************************************************)
EnterReady(x) ==
    /\ x \in Obj /\ isIn[x] = "none"
    /\ isIn' = [isIn EXCEPT ![x] = "ready"]
    /\ readyQ' = Append(readyQ, x) /\ timerQ' = timerQ

LeaveReady(i) ==
    /\ i \in 1..Len(readyQ)
    /\ isIn' = [isIn EXCEPT ![readyQ[i]] = "none"]
    /\ readyQ' = Without(readyQ, i) /\ timerQ' = timerQ

EnterTimer(x) ==
    /\ x \in Timer /\ isIn[x] = "none"
    /\ isIn' = [isIn EXCEPT ![x] = "timer"]
    /\ timerQ' = Append(timerQ, x) /\ readyQ' = readyQ

LeaveTimer(i) ==
    /\ i \in 1..Len(timerQ)
    /\ isIn' = [isIn EXCEPT ![timerQ[i]] = "none"]
    /\ timerQ' = Without(timerQ, i) /\ readyQ' = readyQ

TimerToReady(i) ==
    /\ i \in 1..Len(timerQ)
    /\ isIn' = [isIn EXCEPT ![timerQ[i]] = "ready"]
    /\ timerQ' = Without(timerQ, i) /\ readyQ' = Append(readyQ, timerQ[i])

QueueMove ==
    \/ UNCHANGED <<isIn, readyQ, timerQ>>
    \/ \E x \in Obj : EnterReady(x)
    \/ \E x \in Timer : EnterTimer(x)
    \/ \E i \in 1..Len(readyQ) : LeaveReady(i)
    \/ \E i \in 1..Len(timerQ) : LeaveTimer(i) \/ TimerToReady(i)

\* A move keeps the links in step with the queues.
LEMMA MoveLinked ==
    ASSUME TypeOK, Linked, QueueMove
    PROVE  Linked'
<1>1. /\ Timer \subseteq Obj
      /\ isIn \in [Obj -> {"none", "ready", "timer"}]
      /\ readyQ \in Seq(Obj) /\ timerQ \in Seq(Timer)
  BY DEF TypeOK, Obj
<1>2. \A i \in 1..Len(readyQ) :
         /\ readyQ[i] \in Obj /\ isIn[readyQ[i]] = "ready"
         /\ Distinct(Without(readyQ, i))
         /\ \A b : IsQueued(Without(readyQ, i), b)
                    <=> IsQueued(readyQ, b) /\ b # readyQ[i]
  <2> TAKE i \in 1..Len(readyQ)
  <2>1. readyQ[i] \in Obj /\ IsQueued(readyQ, readyQ[i])
    BY <1>1 DEF IsQueued
  <2>2. readyQ[i] \in Obj /\ isIn[readyQ[i]] = "ready" /\ Distinct(readyQ)
    BY <1>1, <2>1 DEF Linked
  <2>3. /\ Distinct(Without(readyQ, i))
        /\ ~IsQueued(Without(readyQ, i), readyQ[i])
    BY <1>1, <2>2, WithoutDistinct
  <2>4. \A b : b # readyQ[i] => (IsQueued(Without(readyQ, i), b) <=> IsQueued(readyQ, b))
    BY <1>1, WithoutElements
  <2> QED BY <2>2, <2>3, <2>4
<1>3. \A i \in 1..Len(timerQ) :
         /\ timerQ[i] \in Obj /\ isIn[timerQ[i]] = "timer"
         /\ Distinct(Without(timerQ, i))
         /\ \A b : IsQueued(Without(timerQ, i), b)
                    <=> IsQueued(timerQ, b) /\ b # timerQ[i]
  <2> TAKE i \in 1..Len(timerQ)
  <2>1. timerQ[i] \in Timer /\ IsQueued(timerQ, timerQ[i])
    BY <1>1 DEF IsQueued
  <2>2. timerQ[i] \in Obj /\ isIn[timerQ[i]] = "timer" /\ Distinct(timerQ)
    BY <1>1, <2>1 DEF Linked
  <2>3. /\ Distinct(Without(timerQ, i))
        /\ ~IsQueued(Without(timerQ, i), timerQ[i])
    BY <1>1, <2>2, WithoutDistinct
  <2>4. \A b : b # timerQ[i] => (IsQueued(Without(timerQ, i), b) <=> IsQueued(timerQ, b))
    BY <1>1, WithoutElements
  <2> QED BY <2>2, <2>3, <2>4
<1>4. \A x \in Obj : isIn[x] # "ready" =>
         /\ Distinct(Append(readyQ, x))
         /\ \A b : IsQueued(Append(readyQ, x), b) <=> IsQueued(readyQ, b) \/ b = x
  BY <1>1, AppendQueued DEF Linked
<1>5. \A x \in Timer : isIn[x] # "timer" =>
         /\ Distinct(Append(timerQ, x))
         /\ \A b : IsQueued(Append(timerQ, x), b) <=> IsQueued(timerQ, b) \/ b = x
  BY <1>1, AppendQueued DEF Linked
<1>6. CASE UNCHANGED <<isIn, readyQ, timerQ>>
  BY <1>6 DEF Linked
<1>7. ASSUME NEW x \in Obj, EnterReady(x) PROVE Linked'
  <2>1. Distinct(readyQ') /\ Distinct(timerQ')
    BY <1>4, <1>7 DEF Linked, EnterReady
  <2>2. \A a \in Obj : isIn'[a] = "ready" <=> IsQueued(readyQ', a)
    BY <1>1, <1>4, <1>7 DEF Linked, EnterReady
  <2>3. \A a \in Obj : isIn'[a] = "timer" <=> IsQueued(timerQ', a)
    BY <1>1, <1>7 DEF Linked, EnterReady
  <2> QED BY <2>1, <2>2, <2>3 DEF Linked
<1>8. ASSUME NEW x \in Timer, EnterTimer(x) PROVE Linked'
  <2>1. Distinct(readyQ') /\ Distinct(timerQ')
    BY <1>5, <1>8 DEF Linked, EnterTimer
  <2>2. \A a \in Obj : isIn'[a] = "ready" <=> IsQueued(readyQ', a)
    BY <1>1, <1>8 DEF Linked, EnterTimer
  <2>3. \A a \in Obj : isIn'[a] = "timer" <=> IsQueued(timerQ', a)
    BY <1>1, <1>5, <1>8 DEF Linked, EnterTimer
  <2> QED BY <2>1, <2>2, <2>3 DEF Linked
<1>9. ASSUME NEW i \in 1..Len(readyQ), LeaveReady(i) PROVE Linked'
  <2>1. Distinct(readyQ') /\ Distinct(timerQ')
    BY <1>2, <1>9 DEF Linked, LeaveReady
  <2>2. \A a \in Obj : isIn'[a] = "ready" <=> IsQueued(readyQ', a)
    BY <1>1, <1>2, <1>9 DEF Linked, LeaveReady
  <2>3. \A a \in Obj : isIn'[a] = "timer" <=> IsQueued(timerQ', a)
    BY <1>1, <1>2, <1>9 DEF Linked, LeaveReady
  <2> QED BY <2>1, <2>2, <2>3 DEF Linked
<1>10. ASSUME NEW i \in 1..Len(timerQ), LeaveTimer(i) PROVE Linked'
  <2>1. Distinct(readyQ') /\ Distinct(timerQ')
    BY <1>3, <1>10 DEF Linked, LeaveTimer
  <2>2. \A a \in Obj : isIn'[a] = "ready" <=> IsQueued(readyQ', a)
    BY <1>1, <1>3, <1>10 DEF Linked, LeaveTimer
  <2>3. \A a \in Obj : isIn'[a] = "timer" <=> IsQueued(timerQ', a)
    BY <1>1, <1>3, <1>10 DEF Linked, LeaveTimer
  <2> QED BY <2>1, <2>2, <2>3 DEF Linked
<1>11. ASSUME NEW i \in 1..Len(timerQ), TimerToReady(i) PROVE Linked'
  <2>1. Distinct(readyQ') /\ Distinct(timerQ')
    BY <1>3, <1>4, <1>11 DEF Linked, TimerToReady
  <2>2. \A a \in Obj : isIn'[a] = "ready" <=> IsQueued(readyQ', a)
    BY <1>1, <1>3, <1>4, <1>11 DEF Linked, TimerToReady
  <2>3. \A a \in Obj : isIn'[a] = "timer" <=> IsQueued(timerQ', a)
    BY <1>1, <1>3, <1>11 DEF Linked, TimerToReady
  <2> QED BY <2>1, <2>2, <2>3 DEF Linked
<1> QED BY <1>6, <1>7, <1>8, <1>9, <1>10, <1>11 DEF QueueMove

\* Every step moves the queues and the links in one of these ways.
LEMMA EveryMove ==
    ASSUME IInv, [Next]_vars
    PROVE  QueueMove
<1> USE DEF vars, aoVars, qVars, timeVars, flagVars, thrVars, cancVars, envVars
<1>1. /\ AO \subseteq Obj /\ Timer \subseteq Obj /\ Stopper \in Obj
      /\ None \notin Obj
  BY ObjAssumption DEF Obj
<1>2. TypeOK /\ Linked /\ ObjInv /\ CtlInv
  BY QueuesConsistentParts DEF IInv
<1>3. /\ readyQ # <<>> => ReadyTop \in 1..Len(readyQ)
      /\ timerQ # <<>> => TimerTop \in 1..Len(timerQ)
  BY Tops DEF IInv
<1>4. CASE LoopTest
  BY <1>4 DEF QueueMove, LoopTest
<1>5. CASE TimerDue
  <2>5. LeaveTimer(TimerTop)
    BY <1>5, <1>1, <1>3 DEF LeaveTimer, TimerDue, TopDue
  <2> QED BY <2>5, <1>1 DEF QueueMove, LeaveTimer
<1>6. CASE TimerComplete
  <2>1. CASE CanComplete(cur)
    <3>1. EnterReady(cur)
      BY <1>6, <1>1, <1>2, <2>1 DEF TimerComplete, Complete, CanComplete, EnterReady, CtlInv
    <3> QED BY <3>1 DEF QueueMove, EnterReady
  <2>2. CASE ~(CanComplete(cur))
    BY <1>6, <2>2 DEF TimerComplete, QueueMove
  <2> QED BY <2>1, <2>2
<1>7. CASE TimersDone
  BY <1>7 DEF QueueMove, TimersDone, TopDue
<1>8. CASE PopTop
  <2>5. LeaveReady(ReadyTop)
    BY <1>8, <1>1, <1>3 DEF LeaveReady, PopTop
  <2> QED BY <2>5, <1>1 DEF QueueMove, LeaveReady
<1>9. CASE PopSem
  BY <1>9 DEF QueueMove, PopSem
<1>10. CASE PopNothing
  BY <1>10 DEF QueueMove, PopNothing
<1>11. CASE WaitSem
  BY <1>11 DEF QueueMove, WaitSem
<1>12. CASE PopTopAfterWait
  <2>1. CASE readyQ # <<>>
    <3>1. LeaveReady(ReadyTop)
      BY <1>12, <1>3, <2>1 DEF PopTopAfterWait, LeaveReady
    <3> QED BY <3>1 DEF QueueMove, LeaveReady
  <2>2. CASE readyQ = <<>>
    BY <1>12, <2>2 DEF PopTopAfterWait, QueueMove
  <2> QED BY <2>1, <2>2
<1>13. CASE WaitTimeout
  BY <1>13 DEF QueueMove, WaitTimeout
<1>14. CASE TimerExpired
  <2>1. cur = timerQ[TimerTop] /\ timerQ # <<>>
    BY <1>14, <1>1, <1>2 DEF IInv, TopInv, CtlInv, TimerExpired
  <2>5. LeaveTimer(TimerTop)
    BY <1>14, <1>1, <1>3, <2>1 DEF LeaveTimer, TimerExpired
  <2> QED BY <2>5, <1>1 DEF QueueMove, LeaveTimer
<1>15. CASE RunStopper
  BY <1>15 DEF QueueMove, RunStopper
<1>16. CASE CallRun
  BY <1>16 DEF QueueMove, CallRun
<1>17. CASE AfterRun
  BY <1>17 DEF QueueMove, AfterRun
<1>18. CASE SuspendClear
  BY <1>18 DEF QueueMove, SuspendClear
<1>19. CASE SuspendWait
  BY <1>19 DEF QueueMove, SuspendWait
<1>20. CASE SuspendEnd
  BY <1>20 DEF QueueMove, SuspendEnd
<1>21. CASE ExitLoop
  BY <1>21 DEF QueueMove, ExitLoop, EndScheduling, EnterCancel, Started
<1>22. CASE DoCancel
  BY <1>22 DEF QueueMove, DoCancel
<1>23. CASE CancelComplete
  <2>1. canc \in Obj
    BY <1>23, <1>2 DEF TypeOK, CtlInv, CancelPCs, CancelComplete
  <2> DEFINE OK == isIn[canc] # "ready" /\ busy[canc] /\ status[canc] = "pending"
             i == PosOf(timerQ, canc)
  <2>2. CASE OK /\ isIn[canc] = "timer"
    <3>1. i \in 1..Len(timerQ) /\ timerQ[i] = canc
      BY <1>2, <2>1, <2>2, PosOfQueued DEF Linked, TypeOK
    <3>2. TimerToReady(i)
      BY <1>23, <2>2, <3>1 DEF CancelComplete, Complete, TimerToReady
    <3> QED BY <3>1, <3>2 DEF QueueMove
  <2>3. CASE OK /\ isIn[canc] # "timer"
    <3>1. EnterReady(canc)
      BY <1>23, <1>2, <2>1, <2>3 DEF CancelComplete, Complete, EnterReady, TypeOK
    <3> QED BY <2>1, <3>1 DEF QueueMove
  <2>4. CASE ~OK
    BY <1>23, <2>4 DEF CancelComplete, QueueMove
  <2> QED BY <2>2, <2>3, <2>4
<1>24. CASE CancelIsIn
  BY <1>24 DEF QueueMove, CancelIsIn
<1>25. CASE CancelWait
  BY <1>25 DEF QueueMove, CancelWait
<1>26. CASE CancelCheck
  BY <1>26 DEF QueueMove, CancelCheck
<1>27. CASE CancelRestore
  BY <1>27 DEF QueueMove, CancelRestore
<1>28. CASE CancelIdle
  BY <1>28 DEF QueueMove, CancelIdle
<1>29. CASE CancelRemove
  <2> DEFINE i == PosOf(readyQ, canc)
  <2>1. canc \in Obj /\ isIn[canc] = "ready"
    BY <1>29, <1>2 DEF TypeOK, CtlInv, CancelPCs, CancelRemove, ObjInv
  <2>2. IsQueued(readyQ, canc) /\ i \in 1..Len(readyQ) /\ readyQ[i] = canc
    BY <1>2, <2>1, PosOfQueued DEF Linked, TypeOK
  <2>3. LeaveReady(i)
    BY <1>29, <2>2 DEF CancelRemove, LeaveReady
  <2> QED BY <2>2, <2>3 DEF QueueMove
<1>30. CASE CancelSem
  BY <1>30 DEF QueueMove, CancelSem, CancelReturn
<1>31. CASE CleanupTimer
  <2>5. LeaveTimer(TimerTop)
    BY <1>31, <1>1, <1>3 DEF LeaveTimer, CleanupTimer, EnterCancel
  <2> QED BY <2>5, <1>1 DEF QueueMove, LeaveTimer
<1>32. CASE CleanupReady
  BY <1>32 DEF QueueMove, CleanupReady, EnterCancel
<1>33. CASE CleanupDone
  BY <1>33 DEF QueueMove, CleanupDone
<1>34. CASE StartScheduler
  BY <1>34 DEF QueueMove, StartScheduler, BeginScheduling, Started
<1>35. CASE RunSchedulerNonBlocking
  BY <1>35 DEF QueueMove, RunSchedulerNonBlocking, BeginScheduling, Started
<1>36. CASE CountReached
  BY <1>36 DEF QueueMove, CountReached
<1>37. CASE RunReturn
  BY <1>37 DEF QueueMove, RunReturn
<1>38. CASE RunLeave
  BY <1>38 DEF QueueMove, RunLeave, AfterLeave
<1>39. CASE UninstallScheduler
  BY <1>39 DEF QueueMove, UninstallScheduler, EndScheduling, EnterCancel,
     Started
<1>40. CASE RegisterForCallback
  BY <1>40 DEF QueueMove, RegisterForCallback, UserCode
<1>41. ASSUME NEW a \in AO, PendForExec(a) PROVE QueueMove
  BY <1>41 DEF QueueMove, PendForExec, UserCode, Activate
<1>42. ASSUME NEW a \in AO \cup Timer, RunIfNotReady(a) PROVE QueueMove
  <2>5. EnterReady(a)
    BY <1>42, <1>1, <1>3 DEF EnterReady, RunIfNotReady, UserCode, Activate,
       Complete
  <2> QED BY <2>5, <1>1 DEF QueueMove, EnterReady
<1>43. ASSUME NEW a \in AO \cup Timer, Cancel(a) PROVE QueueMove
  BY <1>43 DEF QueueMove, Cancel, UserCode, EnterCancel
<1>44. ASSUME NEW a \in AO \cup Timer, RemoveFromScheduler(a) PROVE QueueMove
  BY <1>44 DEF QueueMove, RemoveFromScheduler, UserCode, EnterCancel
<1>45. ASSUME NEW a \in AO \cup Timer, AddToScheduler(a) PROVE QueueMove
  BY <1>45 DEF QueueMove, AddToScheduler, UserCode
<1>46. ASSUME NEW t \in Timer, NEW d \in Delays, After(t, d) PROVE QueueMove
  <2>5. EnterTimer(t)
    BY <1>46, <1>1, <1>3 DEF EnterTimer, After, UserCode, Activate
  <2> QED BY <2>5, <1>1 DEF QueueMove, EnterTimer
<1>47. ASSUME NEW a \in AO, RemoteComplete(a) PROVE QueueMove
  <2>1. CASE a \in added /\ CanComplete(a)
    <3>1. EnterReady(a)
      BY <1>47, <1>1, <1>2, <2>1 DEF RemoteComplete, Complete, CanComplete, EnterReady, CtlInv
    <3> QED BY <3>1 DEF QueueMove, EnterReady
  <2>2. CASE ~(a \in added /\ CanComplete(a))
    BY <1>47, <2>2 DEF RemoteComplete, QueueMove
  <2> QED BY <2>1, <2>2
<1>48. ASSUME NEW t \in Control, StopCheck(t) PROVE QueueMove
  BY <1>48 DEF QueueMove, StopCheck, Goto
<1>49. ASSUME NEW t \in Control, StopTestSuspend(t) PROVE QueueMove
  BY <1>49 DEF QueueMove, StopTestSuspend, Goto
<1>50. ASSUME NEW t \in Control, SuspendCheck(t) PROVE QueueMove
  BY <1>50 DEF QueueMove, SuspendCheck, Goto
<1>51. ASSUME NEW t \in Control, ResumeCheck(t) PROVE QueueMove
  BY <1>51 DEF QueueMove, ResumeCheck, Goto
<1>52. ASSUME NEW t \in Control, SignalResume(t) PROVE QueueMove
  BY <1>52 DEF QueueMove, SignalResume
<1>53. ASSUME NEW t \in Control, CompleteStopper(t) PROVE QueueMove
  <2>1. CASE Started /\ CanComplete(Stopper)
    <3>1. EnterReady(Stopper)
      BY <1>53, <1>1, <1>2, <2>1 DEF CompleteStopper, Complete, CanComplete, EnterReady, CtlInv
    <3> QED BY <3>1 DEF QueueMove, EnterReady
  <2>2. CASE ~(Started /\ CanComplete(Stopper))
    BY <1>53, <2>2 DEF CompleteStopper, QueueMove
  <2> QED BY <2>1, <2>2
<1>54. CASE Tick
  BY <1>54 DEF QueueMove, Tick
<1>55. CASE UNCHANGED vars
  BY <1>55 DEF QueueMove
<1> QED
  BY <1>4, <1>5, <1>6, <1>7, <1>8, <1>9, <1>10, <1>11, <1>12, <1>13,
     <1>14, <1>15, <1>16, <1>17, <1>18, <1>19, <1>20, <1>21, <1>22,
     <1>23, <1>24, <1>25, <1>26, <1>27, <1>28, <1>29, <1>30, <1>31,
     <1>32, <1>33, <1>34, <1>35, <1>36, <1>37, <1>38, <1>39, <1>40,
     <1>41, <1>42, <1>43, <1>44, <1>45, <1>46, <1>47, <1>48, <1>49,
     <1>50, <1>51, <1>52, <1>53, <1>54, <1>55 DEF Next, LoopStep,
     CancelStep, UserStep, ControlStep

\* Every step leaves only completed requests in the ready queue and only
\* pending ones in the timer queue.
LEMMA RequestedStep ==
    ASSUME IInv, [Next]_vars
    PROVE  Requested'
<1> USE DEF vars, aoVars, qVars, timeVars, flagVars, thrVars, cancVars, envVars
<1>1. /\ AO \subseteq Obj /\ Timer \subseteq Obj /\ Stopper \in Obj
      /\ None \notin Obj
  BY ObjAssumption DEF Obj
<1>2. Requested /\ ObjInv /\ CtlInv
  BY QueuesConsistentParts DEF IInv
<1>3. /\ readyQ # <<>> => readyQ[ReadyTop] \in Obj
      /\ timerQ # <<>> => timerQ[TimerTop] \in Timer
  BY Tops DEF IInv
<1>4. /\ pc \in PCs /\ canc \in Obj \cup {None} /\ cur \in Obj \cup {None}
      /\ busy \in [Obj -> BOOLEAN] /\ DOMAIN status = Obj /\ DOMAIN isIn = Obj
  BY DEF IInv, TypeOK
<1>5. CASE LoopTest
  BY <1>5, <1>1, <1>2, <1>3, <1>4 DEF Requested, ObjInv, CtlInv, CancelPCs,
     CanComplete, LoopTest
<1>6. CASE TimerDue
  BY <1>6, <1>1, <1>2, <1>3, <1>4 DEF Requested, ObjInv, CtlInv, CancelPCs,
     CanComplete, TimerDue, TopDue
<1>7. CASE TimerComplete
  BY <1>7, <1>1, <1>2, <1>3, <1>4 DEF Requested, ObjInv, CtlInv, CancelPCs,
     CanComplete, TimerComplete, Complete, AfterLeave
<1>8. CASE TimersDone
  BY <1>8, <1>1, <1>2, <1>3, <1>4 DEF Requested, ObjInv, CtlInv, CancelPCs,
     CanComplete, TimersDone, TopDue
<1>9. CASE PopTop
  BY <1>9, <1>1, <1>2, <1>3, <1>4 DEF Requested, ObjInv, CtlInv, CancelPCs,
     CanComplete, PopTop
<1>10. CASE PopSem
  BY <1>10, <1>1, <1>2, <1>3, <1>4 DEF Requested, ObjInv, CtlInv, CancelPCs,
     CanComplete, PopSem
<1>11. CASE PopNothing
  BY <1>11, <1>1, <1>2, <1>3, <1>4 DEF Requested, ObjInv, CtlInv, CancelPCs,
     CanComplete, PopNothing
<1>12. CASE WaitSem
  BY <1>12, <1>1, <1>2, <1>3, <1>4 DEF Requested, ObjInv, CtlInv, CancelPCs,
     CanComplete, WaitSem
<1>13. CASE PopTopAfterWait
  BY <1>13, <1>1, <1>2, <1>3, <1>4 DEF Requested, ObjInv, CtlInv, CancelPCs,
     CanComplete, PopTopAfterWait
<1>14. CASE WaitTimeout
  BY <1>14, <1>1, <1>2, <1>3, <1>4 DEF Requested, ObjInv, CtlInv, CancelPCs,
     CanComplete, WaitTimeout
<1>15. CASE TimerExpired
  BY <1>15, <1>1, <1>2, <1>3, <1>4 DEF Requested, ObjInv, CtlInv, CancelPCs,
     CanComplete, TimerExpired
<1>16. CASE RunStopper
  BY <1>16, <1>1, <1>2, <1>3, <1>4 DEF Requested, ObjInv, CtlInv, CancelPCs,
     CanComplete, RunStopper
<1>17. CASE CallRun
  BY <1>17, <1>1, <1>2, <1>3, <1>4 DEF Requested, ObjInv, CtlInv, CancelPCs,
     CanComplete, CallRun
<1>18. CASE AfterRun
  BY <1>18, <1>1, <1>2, <1>3, <1>4 DEF Requested, ObjInv, CtlInv, CancelPCs,
     CanComplete, AfterRun
<1>19. CASE SuspendClear
  BY <1>19, <1>1, <1>2, <1>3, <1>4 DEF Requested, ObjInv, CtlInv, CancelPCs,
     CanComplete, SuspendClear
<1>20. CASE SuspendWait
  BY <1>20, <1>1, <1>2, <1>3, <1>4 DEF Requested, ObjInv, CtlInv, CancelPCs,
     CanComplete, SuspendWait
<1>21. CASE SuspendEnd
  BY <1>21, <1>1, <1>2, <1>3, <1>4 DEF Requested, ObjInv, CtlInv, CancelPCs,
     CanComplete, SuspendEnd
<1>22. CASE ExitLoop
  BY <1>22, <1>1, <1>2, <1>3, <1>4 DEF Requested, ObjInv, CtlInv, CancelPCs,
     CanComplete, ExitLoop, EndScheduling, EnterCancel, Started
<1>23. CASE DoCancel
  BY <1>23, <1>1, <1>2, <1>3, <1>4 DEF Requested, ObjInv, CtlInv, CancelPCs,
     CanComplete, DoCancel
<1>24. CASE CancelComplete
  BY <1>24, <1>1, <1>2, <1>3, <1>4 DEF Requested, ObjInv, CtlInv, CancelPCs,
     CanComplete, CancelComplete, Complete, CancelLeave, AfterLeave
<1>25. CASE CancelIsIn
  BY <1>25, <1>1, <1>2, <1>3, <1>4 DEF Requested, ObjInv, CtlInv, CancelPCs,
     CanComplete, CancelIsIn
<1>26. CASE CancelWait
  BY <1>26, <1>1, <1>2, <1>3, <1>4 DEF Requested, ObjInv, CtlInv, CancelPCs,
     CanComplete, CancelWait
<1>27. CASE CancelCheck
  BY <1>27, <1>1, <1>2, <1>3, <1>4 DEF Requested, ObjInv, CtlInv, CancelPCs,
     CanComplete, CancelCheck
<1>28. CASE CancelRestore
  BY <1>28, <1>1, <1>2, <1>3, <1>4 DEF Requested, ObjInv, CtlInv, CancelPCs,
     CanComplete, CancelRestore
<1>29. CASE CancelIdle
  BY <1>29, <1>1, <1>2, <1>3, <1>4 DEF Requested, ObjInv, CtlInv, CancelPCs,
     CanComplete, CancelIdle
<1>30. CASE CancelRemove
  BY <1>30, <1>1, <1>2, <1>3, <1>4 DEF Requested, ObjInv, CtlInv, CancelPCs,
     CanComplete, CancelRemove, CancelReturn
<1>31. CASE CancelSem
  BY <1>31, <1>1, <1>2, <1>3, <1>4 DEF Requested, ObjInv, CtlInv, CancelPCs,
     CanComplete, CancelSem, CancelReturn
<1>32. CASE CleanupTimer
  BY <1>32, <1>1, <1>2, <1>3, <1>4 DEF Requested, ObjInv, CtlInv, CancelPCs,
     CanComplete, CleanupTimer, EnterCancel
<1>33. CASE CleanupReady
  BY <1>33, <1>1, <1>2, <1>3, <1>4 DEF Requested, ObjInv, CtlInv, CancelPCs,
     CanComplete, CleanupReady, EnterCancel
<1>34. CASE CleanupDone
  BY <1>34, <1>1, <1>2, <1>3, <1>4 DEF Requested, ObjInv, CtlInv, CancelPCs,
     CanComplete, CleanupDone
<1>35. CASE StartScheduler
  BY <1>35, <1>1, <1>2, <1>3, <1>4 DEF Requested, ObjInv, CtlInv, CancelPCs,
     CanComplete, StartScheduler, BeginScheduling, Started
<1>36. CASE RunSchedulerNonBlocking
  BY <1>36, <1>1, <1>2, <1>3, <1>4 DEF Requested, ObjInv, CtlInv, CancelPCs,
     CanComplete, RunSchedulerNonBlocking, BeginScheduling, Started
<1>37. CASE CountReached
  BY <1>37, <1>1, <1>2, <1>3, <1>4 DEF Requested, ObjInv, CtlInv, CancelPCs,
     CanComplete, CountReached
<1>38. CASE RunReturn
  BY <1>38, <1>1, <1>2, <1>3, <1>4 DEF Requested, ObjInv, CtlInv, CancelPCs,
     CanComplete, RunReturn
<1>39. CASE RunLeave
  BY <1>39, <1>1, <1>2, <1>3, <1>4 DEF Requested, ObjInv, CtlInv, CancelPCs,
     CanComplete, RunLeave, AfterLeave
<1>40. CASE UninstallScheduler
  BY <1>40, <1>1, <1>2, <1>3, <1>4 DEF Requested, ObjInv, CtlInv, CancelPCs,
     CanComplete, UninstallScheduler, EndScheduling, EnterCancel, Started
<1>41. CASE RegisterForCallback
  BY <1>41, <1>1, <1>2, <1>3, <1>4 DEF Requested, ObjInv, CtlInv, CancelPCs,
     CanComplete, RegisterForCallback, UserCode
<1>42. ASSUME NEW a \in AO, PendForExec(a) PROVE Requested'
  BY <1>42, <1>1, <1>2, <1>3, <1>4 DEF Requested, ObjInv, CtlInv, CancelPCs,
     CanComplete, PendForExec, UserCode, Activate
<1>43. ASSUME NEW a \in AO \cup Timer, RunIfNotReady(a) PROVE Requested'
  BY <1>43, <1>1, <1>2, <1>3, <1>4 DEF Requested, ObjInv, CtlInv, CancelPCs,
     CanComplete, RunIfNotReady, UserCode, Activate, Complete
<1>44. ASSUME NEW a \in AO \cup Timer, Cancel(a) PROVE Requested'
  BY <1>44, <1>1, <1>2, <1>3, <1>4 DEF Requested, ObjInv, CtlInv, CancelPCs,
     CanComplete, Cancel, UserCode, EnterCancel
<1>45. ASSUME NEW a \in AO \cup Timer, RemoveFromScheduler(a) PROVE Requested'
  BY <1>45, <1>1, <1>2, <1>3, <1>4 DEF Requested, ObjInv, CtlInv, CancelPCs,
     CanComplete, RemoveFromScheduler, UserCode, EnterCancel
<1>46. ASSUME NEW a \in AO \cup Timer, AddToScheduler(a) PROVE Requested'
  BY <1>46, <1>1, <1>2, <1>3, <1>4 DEF Requested, ObjInv, CtlInv, CancelPCs,
     CanComplete, AddToScheduler, UserCode
<1>47. ASSUME NEW t \in Timer, NEW d \in Delays, After(t, d) PROVE Requested'
  BY <1>47, <1>1, <1>2, <1>3, <1>4 DEF Requested, ObjInv, CtlInv, CancelPCs,
     CanComplete, After, UserCode, Activate
<1>48. ASSUME NEW a \in AO, RemoteComplete(a) PROVE Requested'
  BY <1>48, <1>1, <1>2, <1>3, <1>4 DEF Requested, ObjInv, CtlInv, CancelPCs,
     CanComplete, RemoteComplete, Complete
<1>49. ASSUME NEW t \in Control, StopCheck(t) PROVE Requested'
  BY <1>49, <1>1, <1>2, <1>3, <1>4 DEF Requested, ObjInv, CtlInv, CancelPCs,
     CanComplete, StopCheck, Goto
<1>50. ASSUME NEW t \in Control, StopTestSuspend(t) PROVE Requested'
  BY <1>50, <1>1, <1>2, <1>3, <1>4 DEF Requested, ObjInv, CtlInv, CancelPCs,
     CanComplete, StopTestSuspend, Goto
<1>51. ASSUME NEW t \in Control, SuspendCheck(t) PROVE Requested'
  BY <1>51, <1>1, <1>2, <1>3, <1>4 DEF Requested, ObjInv, CtlInv, CancelPCs,
     CanComplete, SuspendCheck, Goto
<1>52. ASSUME NEW t \in Control, ResumeCheck(t) PROVE Requested'
  BY <1>52, <1>1, <1>2, <1>3, <1>4 DEF Requested, ObjInv, CtlInv, CancelPCs,
     CanComplete, ResumeCheck, Goto
<1>53. ASSUME NEW t \in Control, SignalResume(t) PROVE Requested'
  BY <1>53, <1>1, <1>2, <1>3, <1>4 DEF Requested, ObjInv, CtlInv, CancelPCs,
     CanComplete, SignalResume
<1>54. ASSUME NEW t \in Control, CompleteStopper(t) PROVE Requested'
  BY <1>54, <1>1, <1>2, <1>3, <1>4 DEF Requested, ObjInv, CtlInv, CancelPCs,
     CanComplete, CompleteStopper, Complete, Started
<1>55. CASE Tick
  BY <1>55, <1>1, <1>2, <1>3, <1>4 DEF Requested, ObjInv, CtlInv, CancelPCs,
     CanComplete, Tick
<1>56. CASE UNCHANGED vars
  BY <1>56, <1>1, <1>2, <1>3, <1>4 DEF Requested, ObjInv, CtlInv, CancelPCs,
     CanComplete
<1> QED
  BY <1>5, <1>6, <1>7, <1>8, <1>9, <1>10, <1>11, <1>12, <1>13, <1>14,
     <1>15, <1>16, <1>17, <1>18, <1>19, <1>20, <1>21, <1>22, <1>23,
     <1>24, <1>25, <1>26, <1>27, <1>28, <1>29, <1>30, <1>31, <1>32,
     <1>33, <1>34, <1>35, <1>36, <1>37, <1>38, <1>39, <1>40, <1>41,
     <1>42, <1>43, <1>44, <1>45, <1>46, <1>47, <1>48, <1>49, <1>50,
     <1>51, <1>52, <1>53, <1>54, <1>55, <1>56 DEF Next, LoopStep,
     CancelStep, UserStep, ControlStep

\* Every step keeps the count of the ready queue.
LEMMA SemStep ==
    ASSUME IInv, [Next]_vars
    PROVE  SemCountsReadyQ'
<1> USE DEF vars, aoVars, qVars, timeVars, flagVars, thrVars, cancVars, envVars
<1>1. /\ readyQ \in Seq(Obj) /\ sem \in Nat /\ nwait \in Nat
      /\ crit <=> pc \in {"pop_sem", "cancel_sem"}
      /\ CtlInv /\ SemCountsReadyQ /\ pc \in PCs
      /\ ret \in {"idle", "running", "cleanup"}
      /\ canc \in Obj \cup {None}
      /\ cur \in Obj \cup {None}
      /\ AO \subseteq Obj /\ Timer \subseteq Obj /\ Stopper \in Obj
  BY DEF IInv, TypeOK, CtlInv, Obj
<1>2. Len(readyQ) \in Nat /\ Len(<<>>) = 0
  BY <1>1
<1>3. \A x \in Obj : Len(Append(readyQ, x)) = Len(readyQ) + 1
  BY <1>1
<1>4. /\ readyQ # <<>> => Len(Without(readyQ, ReadyTop)) = Len(readyQ) - 1
      /\ IsQueued(readyQ, canc) =>
            Len(Without(readyQ, PosOf(readyQ, canc))) = Len(readyQ) - 1
  BY <1>1, Tops, WithoutType, PosOfQueued DEF IInv
<1>5. CASE LoopTest
  BY <1>5, <1>1, <1>2, <1>3, <1>4 DEF SemCountsReadyQ, CancelPCs, CtlInv,
     LoopTest
<1>6. CASE TimerDue
  BY <1>6, <1>1, <1>2, <1>3, <1>4 DEF SemCountsReadyQ, CancelPCs, CtlInv,
     TimerDue, TopDue
<1>7. CASE TimerComplete
  BY <1>7, <1>1, <1>2, <1>3, <1>4 DEF SemCountsReadyQ, CancelPCs, CtlInv,
     TimerComplete, Complete, CanComplete, AfterLeave
<1>8. CASE TimersDone
  BY <1>8, <1>1, <1>2, <1>3, <1>4 DEF SemCountsReadyQ, CancelPCs, CtlInv,
     TimersDone, TopDue
<1>9. CASE PopTop
  BY <1>9, <1>1, <1>2, <1>3, <1>4 DEF SemCountsReadyQ, CancelPCs, CtlInv,
     PopTop
<1>10. CASE PopSem
  BY <1>10, <1>1, <1>2, <1>3, <1>4 DEF SemCountsReadyQ, CancelPCs, CtlInv,
     PopSem
<1>11. CASE PopNothing
  BY <1>11, <1>1, <1>2, <1>3, <1>4 DEF SemCountsReadyQ, CancelPCs, CtlInv,
     PopNothing
<1>12. CASE WaitSem
  BY <1>12, <1>1, <1>2, <1>3, <1>4 DEF SemCountsReadyQ, CancelPCs, CtlInv,
     WaitSem
<1>13. CASE PopTopAfterWait
  BY <1>13, <1>1, <1>2, <1>3, <1>4 DEF SemCountsReadyQ, CancelPCs, CtlInv,
     PopTopAfterWait
<1>14. CASE WaitTimeout
  BY <1>14, <1>1, <1>2, <1>3, <1>4 DEF SemCountsReadyQ, CancelPCs, CtlInv,
     WaitTimeout
<1>15. CASE TimerExpired
  BY <1>15, <1>1, <1>2, <1>3, <1>4 DEF SemCountsReadyQ, CancelPCs, CtlInv,
     TimerExpired
<1>16. CASE RunStopper
  BY <1>16, <1>1, <1>2, <1>3, <1>4 DEF SemCountsReadyQ, CancelPCs, CtlInv,
     RunStopper
<1>17. CASE CallRun
  BY <1>17, <1>1, <1>2, <1>3, <1>4 DEF SemCountsReadyQ, CancelPCs, CtlInv,
     CallRun
<1>18. CASE AfterRun
  BY <1>18, <1>1, <1>2, <1>3, <1>4 DEF SemCountsReadyQ, CancelPCs, CtlInv,
     AfterRun
<1>19. CASE SuspendClear
  BY <1>19, <1>1, <1>2, <1>3, <1>4 DEF SemCountsReadyQ, CancelPCs, CtlInv,
     SuspendClear
<1>20. CASE SuspendWait
  BY <1>20, <1>1, <1>2, <1>3, <1>4 DEF SemCountsReadyQ, CancelPCs, CtlInv,
     SuspendWait
<1>21. CASE SuspendEnd
  BY <1>21, <1>1, <1>2, <1>3, <1>4 DEF SemCountsReadyQ, CancelPCs, CtlInv,
     SuspendEnd
<1>22. CASE ExitLoop
  BY <1>22, <1>1, <1>2, <1>3, <1>4 DEF SemCountsReadyQ, CancelPCs, CtlInv,
     ExitLoop, EndScheduling, EnterCancel, Started
<1>23. CASE DoCancel
  BY <1>23, <1>1, <1>2, <1>3, <1>4 DEF SemCountsReadyQ, CancelPCs, CtlInv,
     DoCancel
<1>24. CASE CancelComplete
  BY <1>24, <1>1, <1>2, <1>3, <1>4 DEF SemCountsReadyQ, CancelPCs, CtlInv,
     CancelComplete, Complete, CancelLeave, AfterLeave
<1>25. CASE CancelIsIn
  BY <1>25, <1>1, <1>2, <1>3, <1>4 DEF SemCountsReadyQ, CancelPCs, CtlInv,
     CancelIsIn
<1>26. CASE CancelWait
  BY <1>26, <1>1, <1>2, <1>3, <1>4 DEF SemCountsReadyQ, CancelPCs, CtlInv,
     CancelWait
<1>27. CASE CancelCheck
  BY <1>27, <1>1, <1>2, <1>3, <1>4 DEF SemCountsReadyQ, CancelPCs, CtlInv,
     CancelCheck
<1>28. CASE CancelRestore
  BY <1>28, <1>1, <1>2, <1>3, <1>4 DEF SemCountsReadyQ, CancelPCs, CtlInv,
     CancelRestore
<1>29. CASE CancelIdle
  BY <1>29, <1>1, <1>2, <1>3, <1>4 DEF SemCountsReadyQ, CancelPCs, CtlInv,
     CancelIdle
<1>30. CASE CancelRemove
  BY <1>30, <1>1, <1>2, <1>3, <1>4 DEF SemCountsReadyQ, CancelPCs, CtlInv,
     CancelRemove, CancelReturn
<1>31. CASE CancelSem
  BY <1>31, <1>1, <1>2, <1>3, <1>4 DEF SemCountsReadyQ, CancelPCs, CtlInv,
     CancelSem, CancelReturn
<1>32. CASE CleanupTimer
  BY <1>32, <1>1, <1>2, <1>3, <1>4 DEF SemCountsReadyQ, CancelPCs, CtlInv,
     CleanupTimer, EnterCancel
<1>33. CASE CleanupReady
  BY <1>33, <1>1, <1>2, <1>3, <1>4 DEF SemCountsReadyQ, CancelPCs, CtlInv,
     CleanupReady, EnterCancel
<1>34. CASE CleanupDone
  BY <1>34, <1>1, <1>2, <1>3, <1>4 DEF SemCountsReadyQ, CancelPCs, CtlInv,
     CleanupDone
<1>35. CASE StartScheduler
  BY <1>35, <1>1, <1>2, <1>3, <1>4 DEF SemCountsReadyQ, CancelPCs, CtlInv,
     StartScheduler, BeginScheduling, Started
<1>36. CASE RunSchedulerNonBlocking
  BY <1>36, <1>1, <1>2, <1>3, <1>4 DEF SemCountsReadyQ, CancelPCs, CtlInv,
     RunSchedulerNonBlocking, BeginScheduling, Started
<1>37. CASE CountReached
  BY <1>37, <1>1, <1>2, <1>3, <1>4 DEF SemCountsReadyQ, CancelPCs, CtlInv,
     CountReached
<1>38. CASE RunReturn
  BY <1>38, <1>1, <1>2, <1>3, <1>4 DEF SemCountsReadyQ, CancelPCs, CtlInv,
     RunReturn
<1>39. CASE RunLeave
  BY <1>39, <1>1, <1>2, <1>3, <1>4 DEF SemCountsReadyQ, CancelPCs, CtlInv,
     RunLeave, AfterLeave
<1>40. CASE UninstallScheduler
  BY <1>40, <1>1, <1>2, <1>3, <1>4 DEF SemCountsReadyQ, CancelPCs, CtlInv,
     UninstallScheduler, EndScheduling, EnterCancel, Started
<1>41. CASE RegisterForCallback
  BY <1>41, <1>1, <1>2, <1>3, <1>4 DEF SemCountsReadyQ, CancelPCs, CtlInv,
     RegisterForCallback, UserCode
<1>42. ASSUME NEW a \in AO, PendForExec(a) PROVE SemCountsReadyQ'
  BY <1>42, <1>1, <1>2, <1>3, <1>4 DEF SemCountsReadyQ, CancelPCs, CtlInv,
     PendForExec, UserCode, Activate
<1>43. ASSUME NEW a \in AO \cup Timer, RunIfNotReady(a) PROVE SemCountsReadyQ'
  BY <1>43, <1>1, <1>2, <1>3, <1>4 DEF SemCountsReadyQ, CancelPCs, CtlInv,
     RunIfNotReady, UserCode, Activate, Complete
<1>44. ASSUME NEW a \in AO \cup Timer, Cancel(a) PROVE SemCountsReadyQ'
  BY <1>44, <1>1, <1>2, <1>3, <1>4 DEF SemCountsReadyQ, CancelPCs, CtlInv,
     Cancel, UserCode, EnterCancel
<1>45. ASSUME NEW a \in AO \cup Timer, RemoveFromScheduler(a) PROVE SemCountsReadyQ'
  BY <1>45, <1>1, <1>2, <1>3, <1>4 DEF SemCountsReadyQ, CancelPCs, CtlInv,
     RemoveFromScheduler, UserCode, EnterCancel
<1>46. ASSUME NEW a \in AO \cup Timer, AddToScheduler(a) PROVE SemCountsReadyQ'
  BY <1>46, <1>1, <1>2, <1>3, <1>4 DEF SemCountsReadyQ, CancelPCs, CtlInv,
     AddToScheduler, UserCode
<1>47. ASSUME NEW t \in Timer, NEW d \in Delays, After(t, d) PROVE SemCountsReadyQ'
  BY <1>47, <1>1, <1>2, <1>3, <1>4 DEF SemCountsReadyQ, CancelPCs, CtlInv,
     After, UserCode, Activate
<1>48. ASSUME NEW a \in AO, RemoteComplete(a) PROVE SemCountsReadyQ'
  BY <1>48, <1>1, <1>2, <1>3, <1>4 DEF SemCountsReadyQ, CancelPCs, CtlInv,
     RemoteComplete, Complete, CanComplete
<1>49. ASSUME NEW t \in Control, StopCheck(t) PROVE SemCountsReadyQ'
  BY <1>49, <1>1, <1>2, <1>3, <1>4 DEF SemCountsReadyQ, CancelPCs, CtlInv,
     StopCheck, Goto
<1>50. ASSUME NEW t \in Control, StopTestSuspend(t) PROVE SemCountsReadyQ'
  BY <1>50, <1>1, <1>2, <1>3, <1>4 DEF SemCountsReadyQ, CancelPCs, CtlInv,
     StopTestSuspend, Goto
<1>51. ASSUME NEW t \in Control, SuspendCheck(t) PROVE SemCountsReadyQ'
  BY <1>51, <1>1, <1>2, <1>3, <1>4 DEF SemCountsReadyQ, CancelPCs, CtlInv,
     SuspendCheck, Goto
<1>52. ASSUME NEW t \in Control, ResumeCheck(t) PROVE SemCountsReadyQ'
  BY <1>52, <1>1, <1>2, <1>3, <1>4 DEF SemCountsReadyQ, CancelPCs, CtlInv,
     ResumeCheck, Goto
<1>53. ASSUME NEW t \in Control, SignalResume(t) PROVE SemCountsReadyQ'
  BY <1>53, <1>1, <1>2, <1>3, <1>4 DEF SemCountsReadyQ, CancelPCs, CtlInv,
     SignalResume
<1>54. ASSUME NEW t \in Control, CompleteStopper(t) PROVE SemCountsReadyQ'
  BY <1>54, <1>1, <1>2, <1>3, <1>4 DEF SemCountsReadyQ, CancelPCs, CtlInv,
     CompleteStopper, Complete, CanComplete, Started
<1>55. CASE Tick
  BY <1>55, <1>1, <1>2, <1>3, <1>4 DEF SemCountsReadyQ, CancelPCs, CtlInv,
     Tick
<1>56. CASE UNCHANGED vars
  BY <1>56, <1>1, <1>2, <1>3, <1>4 DEF SemCountsReadyQ, CancelPCs, CtlInv
<1> QED
  BY <1>5, <1>6, <1>7, <1>8, <1>9, <1>10, <1>11, <1>12, <1>13, <1>14,
     <1>15, <1>16, <1>17, <1>18, <1>19, <1>20, <1>21, <1>22, <1>23,
     <1>24, <1>25, <1>26, <1>27, <1>28, <1>29, <1>30, <1>31, <1>32,
     <1>33, <1>34, <1>35, <1>36, <1>37, <1>38, <1>39, <1>40, <1>41,
     <1>42, <1>43, <1>44, <1>45, <1>46, <1>47, <1>48, <1>49, <1>50,
     <1>51, <1>52, <1>53, <1>54, <1>55, <1>56 DEF Next, LoopStep,
     CancelStep, UserStep, ControlStep

\* While the scheduler is not MaxLate ticks late for a timer, a tick takes
\* one from the ticks it has left.
LEMMA TickLeft ==
    ASSUME now \in 0..(Wrap - 1), NEW t \in Timer, NEW k \in 0..Threshold,
           TimeLeft(t, k), MaxLate < Threshold, Tick, isIn[t] = "timer"
    PROVE  k # 0 /\ TimeLeft(t, k - 1)'
<1>1. /\ now' = (now + 1) % Wrap /\ due' = due
      /\ (now - due[t]) % Wrap # MaxLate
  BY DEF Tick
<1>2. /\ Wrap \in Nat /\ Threshold \in Nat /\ MaxLate \in Nat
      /\ Wrap = 2 * (Threshold + 1)
  BY HalfTurn
<1>3. k # 0
  <2> SUFFICES ASSUME k = 0 PROVE FALSE
    OBVIOUS
  <2> DEFINE x == now  y == now - MaxLate
  <2>1. now % Wrap = now
    <3>1. now \in Int /\ 0 <= now /\ now < Wrap
      BY <1>2
    <3> QED BY <3>1, ModCases
  <2>2. due[t] = y % Wrap
    <3>1. now + k - MaxLate = y
      BY <1>2
    <3> QED BY <3>1 DEF TimeLeft
  <2>3. /\ x \in Int /\ y \in Int /\ x - y = MaxLate
        /\ -Wrap <= x /\ x < 2 * Wrap /\ -Wrap <= y /\ y < 2 * Wrap
        /\ 0 <= x - y /\ x - y < Wrap
    BY <1>2
  <2>4. ((x % Wrap) - (y % Wrap)) % Wrap = MaxLate
    <3> HIDE DEF x, y
    <3> QED BY <2>3, ModDiff
  <2> QED BY <1>1, <2>1, <2>2, <2>4
<1>4. due[t] = (((now + 1) % Wrap) + ((k - MaxLate) - 1)) % Wrap
  <2>1. k - MaxLate \in Int /\ -Wrap <= k - MaxLate /\ k - MaxLate < Wrap
    BY <1>2
  <2>2. now + k - MaxLate = now + (k - MaxLate)
    BY <1>2
  <2> QED BY <2>1, <2>2, ModTick DEF TimeLeft
<1>5. (now + 1) % Wrap \in Int
  BY <1>2, ModCases
<1>6. now' + (k - 1) - MaxLate = ((now + 1) % Wrap) + ((k - MaxLate) - 1)
  BY <1>1, <1>2, <1>5
<1>7. TimeLeft(t, k - 1)'
  BY <1>1, <1>4, <1>6 DEF TimeLeft
<1> QED BY <1>3, <1>7

\* Every step keeps the queued timers within half a turn of each other.
LEMMA TimeStep ==
    ASSUME IInv, [Next]_vars
    PROVE  TimeInv'
<1> USE DEF vars, aoVars, qVars, timeVars, flagVars, thrVars, cancVars, envVars
<1>1. /\ AO \subseteq Obj /\ Timer \subseteq Obj /\ Stopper \in Obj
      /\ isIn \in [Obj -> {"none", "ready", "timer"}]
      /\ now \in 0..(Wrap - 1) /\ DOMAIN due = Timer
      /\ canc \in Obj \cup {None}
  BY DEF IInv, TypeOK, Obj
<1>2. TimeInv
  BY DEF IInv
<1>3. /\ readyQ # <<>> => readyQ[ReadyTop] \in Obj
      /\ timerQ # <<>> => timerQ[TimerTop] \in Timer
  BY Tops DEF IInv
<1>4. CASE LoopTest
  BY <1>4, <1>1, <1>2, <1>3 DEF TimeInv, TimeLeft, LoopTest
<1>5. CASE TimerDue
  BY <1>5, <1>1, <1>2, <1>3 DEF TimeInv, TimeLeft, TimerDue, TopDue
<1>6. CASE TimerComplete
  BY <1>6, <1>1, <1>2, <1>3 DEF TimeInv, TimeLeft, TimerComplete, Complete,
     CanComplete, AfterLeave
<1>7. CASE TimersDone
  BY <1>7, <1>1, <1>2, <1>3 DEF TimeInv, TimeLeft, TimersDone, TopDue
<1>8. CASE PopTop
  BY <1>8, <1>1, <1>2, <1>3 DEF TimeInv, TimeLeft, PopTop
<1>9. CASE PopSem
  BY <1>9, <1>1, <1>2, <1>3 DEF TimeInv, TimeLeft, PopSem
<1>10. CASE PopNothing
  BY <1>10, <1>1, <1>2, <1>3 DEF TimeInv, TimeLeft, PopNothing
<1>11. CASE WaitSem
  BY <1>11, <1>1, <1>2, <1>3 DEF TimeInv, TimeLeft, WaitSem
<1>12. CASE PopTopAfterWait
  BY <1>12, <1>1, <1>2, <1>3 DEF TimeInv, TimeLeft, PopTopAfterWait
<1>13. CASE WaitTimeout
  BY <1>13, <1>1, <1>2, <1>3 DEF TimeInv, TimeLeft, WaitTimeout
<1>14. CASE TimerExpired
  BY <1>14, <1>1, <1>2, <1>3 DEF TimeInv, TimeLeft, TimerExpired
<1>15. CASE RunStopper
  BY <1>15, <1>1, <1>2, <1>3 DEF TimeInv, TimeLeft, RunStopper
<1>16. CASE CallRun
  BY <1>16, <1>1, <1>2, <1>3 DEF TimeInv, TimeLeft, CallRun
<1>17. CASE AfterRun
  BY <1>17, <1>1, <1>2, <1>3 DEF TimeInv, TimeLeft, AfterRun
<1>18. CASE SuspendClear
  BY <1>18, <1>1, <1>2, <1>3 DEF TimeInv, TimeLeft, SuspendClear
<1>19. CASE SuspendWait
  BY <1>19, <1>1, <1>2, <1>3 DEF TimeInv, TimeLeft, SuspendWait
<1>20. CASE SuspendEnd
  BY <1>20, <1>1, <1>2, <1>3 DEF TimeInv, TimeLeft, SuspendEnd
<1>21. CASE ExitLoop
  BY <1>21, <1>1, <1>2, <1>3 DEF TimeInv, TimeLeft, ExitLoop, EndScheduling,
     EnterCancel, Started
<1>22. CASE DoCancel
  BY <1>22, <1>1, <1>2, <1>3 DEF TimeInv, TimeLeft, DoCancel
<1>23. CASE CancelComplete
  BY <1>23, <1>1, <1>2, <1>3 DEF TimeInv, TimeLeft, CancelComplete, Complete,
     CancelLeave, AfterLeave
<1>24. CASE CancelIsIn
  BY <1>24, <1>1, <1>2, <1>3 DEF TimeInv, TimeLeft, CancelIsIn
<1>25. CASE CancelWait
  BY <1>25, <1>1, <1>2, <1>3 DEF TimeInv, TimeLeft, CancelWait
<1>26. CASE CancelCheck
  BY <1>26, <1>1, <1>2, <1>3 DEF TimeInv, TimeLeft, CancelCheck
<1>27. CASE CancelRestore
  BY <1>27, <1>1, <1>2, <1>3 DEF TimeInv, TimeLeft, CancelRestore
<1>28. CASE CancelIdle
  BY <1>28, <1>1, <1>2, <1>3 DEF TimeInv, TimeLeft, CancelIdle
<1>29. CASE CancelRemove
  BY <1>29, <1>1, <1>2, <1>3 DEF TimeInv, TimeLeft, CancelRemove,
     CancelReturn
<1>30. CASE CancelSem
  BY <1>30, <1>1, <1>2, <1>3 DEF TimeInv, TimeLeft, CancelSem, CancelReturn
<1>31. CASE CleanupTimer
  BY <1>31, <1>1, <1>2, <1>3 DEF TimeInv, TimeLeft, CleanupTimer, EnterCancel
<1>32. CASE CleanupReady
  BY <1>32, <1>1, <1>2, <1>3 DEF TimeInv, TimeLeft, CleanupReady, EnterCancel
<1>33. CASE CleanupDone
  BY <1>33, <1>1, <1>2, <1>3 DEF TimeInv, TimeLeft, CleanupDone
<1>34. CASE StartScheduler
  BY <1>34, <1>1, <1>2, <1>3 DEF TimeInv, TimeLeft, StartScheduler,
     BeginScheduling, Started
<1>35. CASE RunSchedulerNonBlocking
  BY <1>35, <1>1, <1>2, <1>3 DEF TimeInv, TimeLeft, RunSchedulerNonBlocking,
     BeginScheduling, Started
<1>36. CASE CountReached
  BY <1>36, <1>1, <1>2, <1>3 DEF TimeInv, TimeLeft, CountReached
<1>37. CASE RunReturn
  BY <1>37, <1>1, <1>2, <1>3 DEF TimeInv, TimeLeft, RunReturn
<1>38. CASE RunLeave
  BY <1>38, <1>1, <1>2, <1>3 DEF TimeInv, TimeLeft, RunLeave, AfterLeave
<1>39. CASE UninstallScheduler
  BY <1>39, <1>1, <1>2, <1>3 DEF TimeInv, TimeLeft, UninstallScheduler,
     EndScheduling, EnterCancel, Started
<1>40. CASE RegisterForCallback
  BY <1>40, <1>1, <1>2, <1>3 DEF TimeInv, TimeLeft, RegisterForCallback,
     UserCode
<1>41. ASSUME NEW a \in AO, PendForExec(a) PROVE TimeInv'
  BY <1>41, <1>1, <1>2, <1>3 DEF TimeInv, TimeLeft, PendForExec, UserCode,
     Activate
<1>42. ASSUME NEW a \in AO \cup Timer, RunIfNotReady(a) PROVE TimeInv'
  BY <1>42, <1>1, <1>2, <1>3 DEF TimeInv, TimeLeft, RunIfNotReady, UserCode,
     Activate, Complete
<1>43. ASSUME NEW a \in AO \cup Timer, Cancel(a) PROVE TimeInv'
  BY <1>43, <1>1, <1>2, <1>3 DEF TimeInv, TimeLeft, Cancel, UserCode,
     EnterCancel
<1>44. ASSUME NEW a \in AO \cup Timer, RemoveFromScheduler(a) PROVE TimeInv'
  BY <1>44, <1>1, <1>2, <1>3 DEF TimeInv, TimeLeft, RemoveFromScheduler,
     UserCode, EnterCancel
<1>45. ASSUME NEW a \in AO \cup Timer, AddToScheduler(a) PROVE TimeInv'
  <2>1. ~busy[a]
    BY <1>45, <1>1 DEF AddToScheduler, IInv, ObjInv
  <2>2. isIn[a] # "timer"
    BY <1>1, <2>1 DEF IInv, QueuesConsistent
  <2> QED
    BY <1>45, <1>1, <1>2, <2>2 DEF AddToScheduler, TimeInv, TimeLeft
<1>46. ASSUME NEW t \in Timer, NEW d \in Delays, After(t, d) PROVE TimeInv'
  <2>1. d \in 1..(Threshold - MaxLate) /\ Threshold \in Nat /\ MaxLate \in Nat
    BY TimeAssumption, HalfTurn
  <2>2. MaxLate < Threshold /\ d + MaxLate \in 0..Threshold
    BY <2>1
  <2>3. /\ now' = now /\ isIn' = [isIn EXCEPT ![t] = "timer"]
        /\ due' = [due EXCEPT ![t] = (now + d) % Wrap]
    BY <1>46 DEF After
  <2>4. now + d = now + (d + MaxLate) - MaxLate
    BY <1>1, <2>1, HalfTurn
  <2>5. TimeLeft(t, d + MaxLate)'
    BY <1>1, <2>3, <2>4 DEF TimeLeft
  <2>6. \A u \in Timer \ {t} : isIn'[u] = isIn[u] /\ due'[u] = due[u]
    BY <1>1, <2>3
  <2> QED BY <1>1, <1>2, <2>2, <2>3, <2>5, <2>6 DEF TimeInv, TimeLeft
<1>47. ASSUME NEW a \in AO, RemoteComplete(a) PROVE TimeInv'
  BY <1>47, <1>1, <1>2, <1>3 DEF TimeInv, TimeLeft, RemoteComplete, Complete,
     CanComplete
<1>48. ASSUME NEW t \in Control, StopCheck(t) PROVE TimeInv'
  BY <1>48, <1>1, <1>2, <1>3 DEF TimeInv, TimeLeft, StopCheck, Goto
<1>49. ASSUME NEW t \in Control, StopTestSuspend(t) PROVE TimeInv'
  BY <1>49, <1>1, <1>2, <1>3 DEF TimeInv, TimeLeft, StopTestSuspend, Goto
<1>50. ASSUME NEW t \in Control, SuspendCheck(t) PROVE TimeInv'
  BY <1>50, <1>1, <1>2, <1>3 DEF TimeInv, TimeLeft, SuspendCheck, Goto
<1>51. ASSUME NEW t \in Control, ResumeCheck(t) PROVE TimeInv'
  BY <1>51, <1>1, <1>2, <1>3 DEF TimeInv, TimeLeft, ResumeCheck, Goto
<1>52. ASSUME NEW t \in Control, SignalResume(t) PROVE TimeInv'
  BY <1>52, <1>1, <1>2, <1>3 DEF TimeInv, TimeLeft, SignalResume
<1>53. ASSUME NEW t \in Control, CompleteStopper(t) PROVE TimeInv'
  BY <1>53, <1>1, <1>2, <1>3 DEF TimeInv, TimeLeft, CompleteStopper,
     Complete, CanComplete, Started
<1>54. CASE Tick
  <2> SUFFICES ASSUME NEW t \in Timer, isIn[t] = "timer"
               PROVE  MaxLate < Threshold /\ \E k \in 0..Threshold : TimeLeft(t, k)'
    BY <1>54 DEF Tick, TimeInv
  <2>1. MaxLate < Threshold
    BY <1>2 DEF TimeInv
  <2>2. PICK k \in 0..Threshold : TimeLeft(t, k)
    BY <1>2 DEF TimeInv
  <2>3. k # 0 /\ TimeLeft(t, k - 1)'
    BY <1>54, <1>1, <2>1, <2>2, TickLeft DEF Tick
  <2>4. k - 1 \in 0..Threshold
    BY <2>3, HalfTurn
  <2> QED BY <2>1, <2>3, <2>4
<1>55. CASE UNCHANGED vars
  BY <1>55, <1>1, <1>2, <1>3 DEF TimeInv, TimeLeft
<1> QED
  BY <1>4, <1>5, <1>6, <1>7, <1>8, <1>9, <1>10, <1>11, <1>12, <1>13,
     <1>14, <1>15, <1>16, <1>17, <1>18, <1>19, <1>20, <1>21, <1>22,
     <1>23, <1>24, <1>25, <1>26, <1>27, <1>28, <1>29, <1>30, <1>31,
     <1>32, <1>33, <1>34, <1>35, <1>36, <1>37, <1>38, <1>39, <1>40,
     <1>41, <1>42, <1>43, <1>44, <1>45, <1>46, <1>47, <1>48, <1>49,
     <1>50, <1>51, <1>52, <1>53, <1>54, <1>55 DEF Next, LoopStep,
     CancelStep, UserStep, ControlStep

\* The front of the timer queue depends on the queue and the times only.
LEMMA TimerTopSame ==
    ASSUME timerQ' = timerQ, due' = due
    PROVE  TimerTop' = TimerTop
BY DEF TimerTop, TimerLT, ReadyLT

\* Nothing changes the timer queue while the loop holds its front.
LEMMA TopStep ==
    ASSUME IInv, [Next]_vars
    PROVE  TopInv'
<1> USE DEF vars, aoVars, qVars, timeVars, flagVars, thrVars, cancVars, envVars
<1>1. TopInv /\ pc \in PCs /\ ret \in {"idle", "running", "cleanup"}
  BY DEF IInv, TypeOK
<1>2. timerQ' = timerQ /\ due' = due => TimerTop' = TimerTop
  BY TimerTopSame
<1>3. CASE LoopTest
  BY <1>3, <1>1, <1>2 DEF TopInv, PCs, CancelPCs, LoopTest
<1>4. CASE TimerDue
  BY <1>4, <1>1, <1>2 DEF TopInv, PCs, CancelPCs, TimerDue, TopDue
<1>5. CASE TimerComplete
  BY <1>5, <1>1, <1>2 DEF TopInv, PCs, CancelPCs, TimerComplete, Complete,
     CanComplete, AfterLeave
<1>6. CASE TimersDone
  BY <1>6, <1>1, <1>2 DEF TopInv, PCs, CancelPCs, TimersDone, TopDue
<1>7. CASE PopTop
  BY <1>7, <1>1, <1>2 DEF TopInv, PCs, CancelPCs, PopTop
<1>8. CASE PopSem
  BY <1>8, <1>1, <1>2 DEF TopInv, PCs, CancelPCs, PopSem
<1>9. CASE PopNothing
  BY <1>9, <1>1, <1>2 DEF TopInv, PCs, CancelPCs, PopNothing
<1>10. CASE WaitSem
  BY <1>10, <1>1, <1>2 DEF TopInv, PCs, CancelPCs, WaitSem
<1>11. CASE PopTopAfterWait
  BY <1>11, <1>1, <1>2 DEF TopInv, PCs, CancelPCs, PopTopAfterWait
<1>12. CASE WaitTimeout
  BY <1>12, <1>1, <1>2 DEF TopInv, PCs, CancelPCs, WaitTimeout
<1>13. CASE TimerExpired
  BY <1>13, <1>1, <1>2 DEF TopInv, PCs, CancelPCs, TimerExpired
<1>14. CASE RunStopper
  BY <1>14, <1>1, <1>2 DEF TopInv, PCs, CancelPCs, RunStopper
<1>15. CASE CallRun
  BY <1>15, <1>1, <1>2 DEF TopInv, PCs, CancelPCs, CallRun
<1>16. CASE AfterRun
  BY <1>16, <1>1, <1>2 DEF TopInv, PCs, CancelPCs, AfterRun
<1>17. CASE SuspendClear
  BY <1>17, <1>1, <1>2 DEF TopInv, PCs, CancelPCs, SuspendClear
<1>18. CASE SuspendWait
  BY <1>18, <1>1, <1>2 DEF TopInv, PCs, CancelPCs, SuspendWait
<1>19. CASE SuspendEnd
  BY <1>19, <1>1, <1>2 DEF TopInv, PCs, CancelPCs, SuspendEnd
<1>20. CASE ExitLoop
  BY <1>20, <1>1, <1>2 DEF TopInv, PCs, CancelPCs, ExitLoop, EndScheduling,
     EnterCancel, Started
<1>21. CASE DoCancel
  BY <1>21, <1>1, <1>2 DEF TopInv, PCs, CancelPCs, DoCancel
<1>22. CASE CancelComplete
  BY <1>22, <1>1, <1>2 DEF TopInv, PCs, CancelPCs, CancelComplete, Complete,
     CancelLeave, AfterLeave
<1>23. CASE CancelIsIn
  BY <1>23, <1>1, <1>2 DEF TopInv, PCs, CancelPCs, CancelIsIn
<1>24. CASE CancelWait
  BY <1>24, <1>1, <1>2 DEF TopInv, PCs, CancelPCs, CancelWait
<1>25. CASE CancelCheck
  BY <1>25, <1>1, <1>2 DEF TopInv, PCs, CancelPCs, CancelCheck
<1>26. CASE CancelRestore
  BY <1>26, <1>1, <1>2 DEF TopInv, PCs, CancelPCs, CancelRestore
<1>27. CASE CancelIdle
  BY <1>27, <1>1, <1>2 DEF TopInv, PCs, CancelPCs, CancelIdle
<1>28. CASE CancelRemove
  BY <1>28, <1>1, <1>2 DEF TopInv, PCs, CancelPCs, CancelRemove, CancelReturn
<1>29. CASE CancelSem
  BY <1>29, <1>1, <1>2 DEF TopInv, PCs, CancelPCs, CancelSem, CancelReturn
<1>30. CASE CleanupTimer
  BY <1>30, <1>1, <1>2 DEF TopInv, PCs, CancelPCs, CleanupTimer, EnterCancel
<1>31. CASE CleanupReady
  BY <1>31, <1>1, <1>2 DEF TopInv, PCs, CancelPCs, CleanupReady, EnterCancel
<1>32. CASE CleanupDone
  BY <1>32, <1>1, <1>2 DEF TopInv, PCs, CancelPCs, CleanupDone
<1>33. CASE StartScheduler
  BY <1>33, <1>1, <1>2 DEF TopInv, PCs, CancelPCs, StartScheduler,
     BeginScheduling, Started
<1>34. CASE RunSchedulerNonBlocking
  BY <1>34, <1>1, <1>2 DEF TopInv, PCs, CancelPCs, RunSchedulerNonBlocking,
     BeginScheduling, Started
<1>35. CASE CountReached
  BY <1>35, <1>1, <1>2 DEF TopInv, PCs, CancelPCs, CountReached
<1>36. CASE RunReturn
  BY <1>36, <1>1, <1>2 DEF TopInv, PCs, CancelPCs, RunReturn
<1>37. CASE RunLeave
  BY <1>37, <1>1, <1>2 DEF TopInv, PCs, CancelPCs, RunLeave, AfterLeave
<1>38. CASE UninstallScheduler
  BY <1>38, <1>1, <1>2 DEF TopInv, PCs, CancelPCs, UninstallScheduler,
     EndScheduling, EnterCancel, Started
<1>39. CASE RegisterForCallback
  BY <1>39, <1>1, <1>2 DEF TopInv, PCs, CancelPCs, RegisterForCallback,
     UserCode
<1>40. ASSUME NEW a \in AO, PendForExec(a) PROVE TopInv'
  BY <1>40, <1>1, <1>2 DEF TopInv, PCs, CancelPCs, PendForExec, UserCode,
     Activate
<1>41. ASSUME NEW a \in AO \cup Timer, RunIfNotReady(a) PROVE TopInv'
  BY <1>41, <1>1, <1>2 DEF TopInv, PCs, CancelPCs, RunIfNotReady, UserCode,
     Activate, Complete
<1>42. ASSUME NEW a \in AO \cup Timer, Cancel(a) PROVE TopInv'
  BY <1>42, <1>1, <1>2 DEF TopInv, PCs, CancelPCs, Cancel, UserCode,
     EnterCancel
<1>43. ASSUME NEW a \in AO \cup Timer, RemoveFromScheduler(a) PROVE TopInv'
  BY <1>43, <1>1, <1>2 DEF TopInv, PCs, CancelPCs, RemoveFromScheduler,
     UserCode, EnterCancel
<1>44. ASSUME NEW a \in AO \cup Timer, AddToScheduler(a) PROVE TopInv'
  BY <1>44, <1>1, <1>2 DEF TopInv, PCs, CancelPCs, AddToScheduler, UserCode
<1>45. ASSUME NEW t \in Timer, NEW d \in Delays, After(t, d) PROVE TopInv'
  BY <1>45, <1>1, <1>2 DEF TopInv, PCs, CancelPCs, After, UserCode, Activate
<1>46. ASSUME NEW a \in AO, RemoteComplete(a) PROVE TopInv'
  BY <1>46, <1>1, <1>2 DEF TopInv, PCs, CancelPCs, RemoteComplete, Complete,
     CanComplete
<1>47. ASSUME NEW t \in Control, StopCheck(t) PROVE TopInv'
  BY <1>47, <1>1, <1>2 DEF TopInv, PCs, CancelPCs, StopCheck, Goto
<1>48. ASSUME NEW t \in Control, StopTestSuspend(t) PROVE TopInv'
  BY <1>48, <1>1, <1>2 DEF TopInv, PCs, CancelPCs, StopTestSuspend, Goto
<1>49. ASSUME NEW t \in Control, SuspendCheck(t) PROVE TopInv'
  BY <1>49, <1>1, <1>2 DEF TopInv, PCs, CancelPCs, SuspendCheck, Goto
<1>50. ASSUME NEW t \in Control, ResumeCheck(t) PROVE TopInv'
  BY <1>50, <1>1, <1>2 DEF TopInv, PCs, CancelPCs, ResumeCheck, Goto
<1>51. ASSUME NEW t \in Control, SignalResume(t) PROVE TopInv'
  BY <1>51, <1>1, <1>2 DEF TopInv, PCs, CancelPCs, SignalResume
<1>52. ASSUME NEW t \in Control, CompleteStopper(t) PROVE TopInv'
  BY <1>52, <1>1, <1>2 DEF TopInv, PCs, CancelPCs, CompleteStopper, Complete,
     CanComplete, Started
<1>53. CASE Tick
  BY <1>53, <1>1, <1>2 DEF TopInv, PCs, CancelPCs, Tick
<1>54. CASE UNCHANGED vars
  BY <1>54, <1>1, <1>2 DEF TopInv, PCs, CancelPCs
<1> QED
  BY <1>3, <1>4, <1>5, <1>6, <1>7, <1>8, <1>9, <1>10, <1>11, <1>12,
     <1>13, <1>14, <1>15, <1>16, <1>17, <1>18, <1>19, <1>20, <1>21,
     <1>22, <1>23, <1>24, <1>25, <1>26, <1>27, <1>28, <1>29, <1>30,
     <1>31, <1>32, <1>33, <1>34, <1>35, <1>36, <1>37, <1>38, <1>39,
     <1>40, <1>41, <1>42, <1>43, <1>44, <1>45, <1>46, <1>47, <1>48,
     <1>49, <1>50, <1>51, <1>52, <1>53, <1>54 DEF Next, LoopStep,
     CancelStep, UserStep, ControlStep

\* The inductive invariant holds initially and is kept by every step.
LEMMA InitIInv == Init => IInv
<1> SUFFICES ASSUME Init PROVE IInv
  OBVIOUS
<1>1. /\ AO \subseteq Obj /\ Timer \subseteq Obj /\ Stopper \in Obj
      /\ Wrap \in Nat /\ Wrap >= 2 /\ MaxResume \in Nat /\ None \notin Obj
      /\ 0 \in 0..(Wrap - 1)
  BY HalfTurn, BoundAssumption, ObjAssumption DEF Obj
<1>2. readyQ = <<>> /\ timerQ = <<>> /\ Len(<<>>) = 0 /\ <<>> \in Seq(Obj) /\ <<>> \in Seq(Timer)
  BY EmptySeq DEF Init
<1>3. TypeOK
  <2>1. ObjTypes
    BY <1>1 DEF Init, ObjTypes
  <2>2. QueueTypes /\ CountTypes /\ TimeTypes
    BY <1>1, <1>2 DEF Init, QueueTypes, CountTypes, TimeTypes
  <2>3. FlagTypes
    BY DEF Init, FlagTypes
  <2>4. ThreadTypes /\ OtherTypes
    BY DEF Init, PCs, ThreadTypes, OtherTypes
  <2> QED BY <2>1, <2>2, <2>3, <2>4, TypeParts
<1>4. CtlInv /\ ObjInv /\ TopInv /\ TimeInv
  BY <1>1 DEF Init, CtlInv, ObjInv, TopInv, TimeInv, CancelPCs
<1>5. \A b : ~IsQueued(<<>>, b)
  BY <1>2 DEF IsQueued
<1>6. QueuesConsistent
  BY <1>1, <1>2, <1>5 DEF Init, QueuesConsistent
<1>7. SemCountsReadyQ
  BY <1>2 DEF Init, SemCountsReadyQ
<1> QED BY <1>3, <1>4, <1>6, <1>7 DEF IInv

LEMMA StepIInv == IInv /\ [Next]_vars => IInv'
<1> SUFFICES ASSUME IInv, [Next]_vars PROVE IInv'
  OBVIOUS
<1>1. TypeOK' /\ CtlInv' /\ ObjInv'
  BY TypeStep, CtlStep, ObjStep
<1>2. QueuesConsistent'
  <2>1. QueueMove /\ Requested'
    BY EveryMove, RequestedStep
  <2>2. Linked'
    BY <2>1, MoveLinked, QueuesConsistentParts DEF IInv
  <2> QED BY <2>1, <2>2 DEF QueuesConsistent, Linked, Requested, Distinct
<1>3. SemCountsReadyQ' /\ TopInv' /\ TimeInv'
  BY SemStep, TopStep, TimeStep
<1> QED BY <1>1, <1>2, <1>3 DEF IInv

LEMMA AlwaysIInv == Spec => []IInv
BY InitIInv, StepIInv, PTL DEF Spec

-----------------------------------------------------------------------------
(***************************************************************************)
(* Type correctness of the scheduler.                                      *)
(***************************************************************************)
THEOREM SchedulerTypeCorrect == Spec => []TypeOK
<1>1. IInv => TypeOK
  BY DEF IInv
<1> QED BY <1>1, AlwaysIInv, PTL

(***************************************************************************)
(* iIsIn says which queue an object is in, no queue holds an object twice, *)
(* and only busy objects are queued, whatever other threads complete while *)
(* the scheduling thread is between two of its steps.                      *)
(***************************************************************************)
THEOREM QueuesCorrect == Spec => []QueuesConsistent
<1>1. IInv => QueuesConsistent
  BY DEF IInv
<1> QED BY <1>1, AlwaysIInv, PTL

(***************************************************************************)
(* iSem never drifts from the length of the ready queue.                   *)
(***************************************************************************)
THEOREM SemCorrect == Spec => []SemCountsReadyQ
<1>1. IInv => SemCountsReadyQ
  BY DEF IInv
<1> QED BY <1>1, AlwaysIInv, PTL

(***************************************************************************)
(* CallRunExec and UpdateTimers find the request of the object they hold   *)
(* as they left it, although they test it outside the mutex.               *)
(***************************************************************************)
THEOREM RunCorrect == Spec => []RunsCompletedRequest
<1>1. IInv => RunsCompletedRequest
  <2> SUFFICES ASSUME IInv PROVE RunsCompletedRequest
    OBVIOUS
  <2>1. None \notin Timer
    BY ObjAssumption DEF Obj
  <2> QED BY <2>1 DEF IInv, RunsCompletedRequest, CtlInv, ObjInv, TopInv
<1> QED BY <1>1, AlwaysIInv, PTL

-----------------------------------------------------------------------------
(***************************************************************************)
(* The callback that other threads make.                                   *)
(***************************************************************************)
\* Every step that fills the ready queue makes the callback.
LEMMA CallbackStep ==
    ASSUME IInv, CallbackNotLost, [Next]_vars
    PROVE  CallbackNotLost'
<1> USE DEF vars, aoVars, qVars, timeVars, flagVars, thrVars, cancVars, envVars
<1>1. /\ pc \in PCs /\ ret \in {"idle", "running", "cleanup"}
      /\ suspended \in BOOLEAN /\ doSuspend \in BOOLEAN
  BY DEF IInv, TypeOK
<1>3. ~IsQueued(<<>>, canc)
  BY DEF IsQueued
<1>4. CASE LoopTest
  BY <1>4, <1>1, <1>3 DEF CallbackNotLost, LoopTest
<1>5. CASE TimerDue
  BY <1>5, <1>1, <1>3 DEF CallbackNotLost, TimerDue,
     TopDue
<1>6. CASE TimerComplete
  BY <1>6, <1>1, <1>3 DEF CallbackNotLost,
     TimerComplete, Complete, CanComplete, AfterLeave
<1>7. CASE TimersDone
  BY <1>7, <1>1, <1>3 DEF CallbackNotLost, TimersDone,
     TopDue
<1>8. CASE PopTop
  BY <1>8, <1>1, <1>3 DEF CallbackNotLost, PopTop
<1>9. CASE PopSem
  BY <1>9, <1>1, <1>3 DEF CallbackNotLost, PopSem
<1>10. CASE PopNothing
  BY <1>10, <1>1, <1>3 DEF CallbackNotLost, PopNothing
<1>11. CASE WaitSem
  BY <1>11, <1>1, <1>3 DEF CallbackNotLost, WaitSem
<1>12. CASE PopTopAfterWait
  BY <1>12, <1>1, <1>3 DEF CallbackNotLost,
     PopTopAfterWait
<1>13. CASE WaitTimeout
  BY <1>13, <1>1, <1>3 DEF CallbackNotLost, WaitTimeout
<1>14. CASE TimerExpired
  BY <1>14, <1>1, <1>3 DEF CallbackNotLost, TimerExpired
<1>15. CASE RunStopper
  BY <1>15, <1>1, <1>3 DEF CallbackNotLost, RunStopper
<1>16. CASE CallRun
  BY <1>16, <1>1, <1>3 DEF CallbackNotLost, CallRun
<1>17. CASE AfterRun
  BY <1>17, <1>1, <1>3 DEF CallbackNotLost, AfterRun
<1>18. CASE SuspendClear
  BY <1>18, <1>1, <1>3 DEF CallbackNotLost, SuspendClear
<1>19. CASE SuspendWait
  BY <1>19, <1>1, <1>3 DEF CallbackNotLost, SuspendWait
<1>20. CASE SuspendEnd
  BY <1>20, <1>1, <1>3 DEF CallbackNotLost, SuspendEnd
<1>21. CASE ExitLoop
  BY <1>21, <1>1, <1>3 DEF CallbackNotLost, ExitLoop,
     EndScheduling, EnterCancel, Started
<1>22. CASE DoCancel
  BY <1>22, <1>1, <1>3 DEF CallbackNotLost, DoCancel
<1>23. CASE CancelComplete
  BY <1>23, <1>1, <1>3 DEF CallbackNotLost,
     CancelComplete, Complete, CancelLeave, AfterLeave
<1>24. CASE CancelIsIn
  BY <1>24, <1>1, <1>3 DEF CallbackNotLost, CancelIsIn
<1>25. CASE CancelWait
  BY <1>25, <1>1, <1>3 DEF CallbackNotLost, CancelWait
<1>26. CASE CancelCheck
  BY <1>26, <1>1, <1>3 DEF CallbackNotLost, CancelCheck
<1>27. CASE CancelRestore
  BY <1>27, <1>1, <1>3 DEF CallbackNotLost,
     CancelRestore
<1>28. CASE CancelIdle
  BY <1>28, <1>1, <1>3 DEF CallbackNotLost, CancelIdle
<1>29. CASE CancelRemove
  BY <1>29, <1>1, <1>3 DEF CallbackNotLost,
     CancelRemove, CancelReturn
<1>30. CASE CancelSem
  BY <1>30, <1>1, <1>3 DEF CallbackNotLost, CancelSem,
     CancelReturn
<1>31. CASE CleanupTimer
  BY <1>31, <1>1, <1>3 DEF CallbackNotLost,
     CleanupTimer, EnterCancel
<1>32. CASE CleanupReady
  BY <1>32, <1>1, <1>3 DEF CallbackNotLost,
     CleanupReady, EnterCancel
<1>33. CASE CleanupDone
  BY <1>33, <1>1, <1>3 DEF CallbackNotLost, CleanupDone
<1>34. CASE StartScheduler
  BY <1>34, <1>1, <1>3 DEF CallbackNotLost,
     StartScheduler, BeginScheduling, Started
<1>35. CASE RunSchedulerNonBlocking
  BY <1>35, <1>1, <1>3 DEF CallbackNotLost,
     RunSchedulerNonBlocking, BeginScheduling, Started
<1>36. CASE CountReached
  BY <1>36, <1>1, <1>3 DEF CallbackNotLost, CountReached
<1>37. CASE RunReturn
  BY <1>37, <1>1, <1>3 DEF CallbackNotLost, RunReturn
<1>38. CASE RunLeave
  BY <1>38, <1>1, <1>3 DEF CallbackNotLost, RunLeave,
     AfterLeave
<1>39. CASE UninstallScheduler
  BY <1>39, <1>1, <1>3 DEF CallbackNotLost,
     UninstallScheduler, EndScheduling, EnterCancel, Started
<1>40. CASE RegisterForCallback
  BY <1>40, <1>1, <1>3 DEF CallbackNotLost,
     RegisterForCallback, UserCode
<1>41. ASSUME NEW a \in AO, PendForExec(a) PROVE CallbackNotLost'
  BY <1>41, <1>1, <1>3 DEF CallbackNotLost, PendForExec,
     UserCode, Activate
<1>42. ASSUME NEW a \in AO \cup Timer, RunIfNotReady(a) PROVE CallbackNotLost'
  BY <1>42, <1>1, <1>3 DEF CallbackNotLost,
     RunIfNotReady, UserCode, Activate, Complete
<1>43. ASSUME NEW a \in AO \cup Timer, Cancel(a) PROVE CallbackNotLost'
  BY <1>43, <1>1, <1>3 DEF CallbackNotLost, Cancel,
     UserCode, EnterCancel
<1>44. ASSUME NEW a \in AO \cup Timer, RemoveFromScheduler(a) PROVE CallbackNotLost'
  BY <1>44, <1>1, <1>3 DEF CallbackNotLost,
     RemoveFromScheduler, UserCode, EnterCancel
<1>45. ASSUME NEW a \in AO \cup Timer, AddToScheduler(a) PROVE CallbackNotLost'
  BY <1>45, <1>1, <1>3 DEF CallbackNotLost,
     AddToScheduler, UserCode
<1>46. ASSUME NEW t \in Timer, NEW d \in Delays, After(t, d) PROVE CallbackNotLost'
  BY <1>46, <1>1, <1>3 DEF CallbackNotLost, After,
     UserCode, Activate
<1>47. ASSUME NEW a \in AO, RemoteComplete(a) PROVE CallbackNotLost'
  BY <1>47, <1>1, <1>3 DEF CallbackNotLost,
     RemoteComplete, Complete, CanComplete
<1>48. ASSUME NEW t \in Control, StopCheck(t) PROVE CallbackNotLost'
  BY <1>48, <1>1, <1>3 DEF CallbackNotLost, StopCheck,
     Goto
<1>49. ASSUME NEW t \in Control, StopTestSuspend(t) PROVE CallbackNotLost'
  BY <1>49, <1>1, <1>3 DEF CallbackNotLost,
     StopTestSuspend, Goto
<1>50. ASSUME NEW t \in Control, SuspendCheck(t) PROVE CallbackNotLost'
  BY <1>50, <1>1, <1>3 DEF CallbackNotLost,
     SuspendCheck, Goto
<1>51. ASSUME NEW t \in Control, ResumeCheck(t) PROVE CallbackNotLost'
  BY <1>51, <1>1, <1>3 DEF CallbackNotLost, ResumeCheck,
     Goto
<1>52. ASSUME NEW t \in Control, SignalResume(t) PROVE CallbackNotLost'
  BY <1>52, <1>1, <1>3 DEF CallbackNotLost, SignalResume
<1>53. ASSUME NEW t \in Control, CompleteStopper(t) PROVE CallbackNotLost'
  BY <1>53, <1>1, <1>3 DEF CallbackNotLost,
     CompleteStopper, Complete, CanComplete, Started
<1>54. CASE Tick
  BY <1>54, <1>1, <1>3 DEF CallbackNotLost, Tick
<1>55. CASE UNCHANGED vars
  BY <1>55, <1>1, <1>3 DEF CallbackNotLost
<1> QED
  BY <1>4, <1>5, <1>6, <1>7, <1>8, <1>9, <1>10, <1>11, <1>12, <1>13,
     <1>14, <1>15, <1>16, <1>17, <1>18, <1>19, <1>20, <1>21, <1>22,
     <1>23, <1>24, <1>25, <1>26, <1>27, <1>28, <1>29, <1>30, <1>31,
     <1>32, <1>33, <1>34, <1>35, <1>36, <1>37, <1>38, <1>39, <1>40,
     <1>41, <1>42, <1>43, <1>44, <1>45, <1>46, <1>47, <1>48, <1>49,
     <1>50, <1>51, <1>52, <1>53, <1>54, <1>55 DEF Next, LoopStep,
     CancelStep, UserStep, ControlStep

(***************************************************************************)
(* While a callback is registered the ready queue is empty: the observer   *)
(* has missed no wake-up.                                                  *)
(***************************************************************************)
THEOREM CallbackCorrect == Spec => []CallbackNotLost
<1>1. Init => CallbackNotLost
  BY DEF Init, CallbackNotLost
<1>2. IInv /\ CallbackNotLost /\ [Next]_vars => CallbackNotLost'
  BY CallbackStep
<1> QED BY <1>1, <1>2, AlwaysIInv, PTL DEF Spec

-----------------------------------------------------------------------------
(***************************************************************************)
(* Timers leave their queue in order.                                      *)
(***************************************************************************)
\* The timer t leaves the timer queue because it is due or cancelled.
TimerOut(t) ==
    \/ TimerDue /\ t = timerQ[TimerTop]
    \/ TimerExpired /\ t = cur
    \/ canc' = t

TimersOut ==
    \A t \in Timer : isIn[t] = "timer" /\ isIn'[t] # "timer" => TimerOut(t)

\* No other step takes a timer out of the timer queue.
LEMMA OutStep ==
    ASSUME IInv, [Next]_vars
    PROVE  TimersOut
<1> USE DEF vars, aoVars, qVars, timeVars, flagVars, thrVars, cancVars, envVars
<1>1. /\ AO \subseteq Obj /\ Timer \subseteq Obj /\ Stopper \in Obj
      /\ AO \cap Timer = {} /\ Stopper \notin Timer
      /\ isIn \in [Obj -> {"none", "ready", "timer"}]
      /\ canc \in Obj \cup {None}
  BY ObjAssumption DEF IInv, TypeOK, Obj
<1>2. readyQ # <<>> => isIn[readyQ[ReadyTop]] = "ready"
  BY Tops DEF IInv
<1>3. ObjInv
  BY DEF IInv
<1>4. CASE LoopTest
  BY <1>4, <1>1, <1>2, <1>3 DEF TimersOut, TimerOut, LoopTest
<1>5. CASE TimerDue
  BY <1>5, <1>1, <1>2, <1>3 DEF TimersOut, TimerOut, TimerDue, TopDue
<1>6. CASE TimerComplete
  BY <1>6, <1>1, <1>2, <1>3 DEF TimersOut, TimerOut, TimerComplete, Complete,
     CanComplete, AfterLeave
<1>7. CASE TimersDone
  BY <1>7, <1>1, <1>2, <1>3 DEF TimersOut, TimerOut, TimersDone, TopDue
<1>8. CASE PopTop
  BY <1>8, <1>1, <1>2, <1>3 DEF TimersOut, TimerOut, PopTop
<1>9. CASE PopSem
  BY <1>9, <1>1, <1>2, <1>3 DEF TimersOut, TimerOut, PopSem
<1>10. CASE PopNothing
  BY <1>10, <1>1, <1>2, <1>3 DEF TimersOut, TimerOut, PopNothing
<1>11. CASE WaitSem
  BY <1>11, <1>1, <1>2, <1>3 DEF TimersOut, TimerOut, WaitSem
<1>12. CASE PopTopAfterWait
  BY <1>12, <1>1, <1>2, <1>3 DEF TimersOut, TimerOut, PopTopAfterWait
<1>13. CASE WaitTimeout
  BY <1>13, <1>1, <1>2, <1>3 DEF TimersOut, TimerOut, WaitTimeout
<1>14. CASE TimerExpired
  BY <1>14, <1>1, <1>2, <1>3 DEF TimersOut, TimerOut, TimerExpired
<1>15. CASE RunStopper
  BY <1>15, <1>1, <1>2, <1>3 DEF TimersOut, TimerOut, RunStopper
<1>16. CASE CallRun
  BY <1>16, <1>1, <1>2, <1>3 DEF TimersOut, TimerOut, CallRun
<1>17. CASE AfterRun
  BY <1>17, <1>1, <1>2, <1>3 DEF TimersOut, TimerOut, AfterRun
<1>18. CASE SuspendClear
  BY <1>18, <1>1, <1>2, <1>3 DEF TimersOut, TimerOut, SuspendClear
<1>19. CASE SuspendWait
  BY <1>19, <1>1, <1>2, <1>3 DEF TimersOut, TimerOut, SuspendWait
<1>20. CASE SuspendEnd
  BY <1>20, <1>1, <1>2, <1>3 DEF TimersOut, TimerOut, SuspendEnd
<1>21. CASE ExitLoop
  BY <1>21, <1>1, <1>2, <1>3 DEF TimersOut, TimerOut, ExitLoop,
     EndScheduling, EnterCancel, Started
<1>22. CASE DoCancel
  BY <1>22, <1>1, <1>2, <1>3 DEF TimersOut, TimerOut, DoCancel
<1>23. CASE CancelComplete
  BY <1>23, <1>1, <1>2, <1>3 DEF TimersOut, TimerOut, CancelComplete,
     Complete, CancelLeave, AfterLeave
<1>24. CASE CancelIsIn
  BY <1>24, <1>1, <1>2, <1>3 DEF TimersOut, TimerOut, CancelIsIn
<1>25. CASE CancelWait
  BY <1>25, <1>1, <1>2, <1>3 DEF TimersOut, TimerOut, CancelWait
<1>26. CASE CancelCheck
  BY <1>26, <1>1, <1>2, <1>3 DEF TimersOut, TimerOut, CancelCheck
<1>27. CASE CancelRestore
  BY <1>27, <1>1, <1>2, <1>3 DEF TimersOut, TimerOut, CancelRestore
<1>28. CASE CancelIdle
  BY <1>28, <1>1, <1>2, <1>3 DEF TimersOut, TimerOut, CancelIdle
<1>29. CASE CancelRemove
  <2>1. isIn[canc] = "ready"
    BY <1>29, <1>3 DEF ObjInv, CancelRemove
  <2> QED
    BY <1>29, <1>1, <2>1 DEF TimersOut, CancelRemove
<1>30. CASE CancelSem
  BY <1>30, <1>1, <1>2, <1>3 DEF TimersOut, TimerOut, CancelSem, CancelReturn
<1>31. CASE CleanupTimer
  BY <1>31, <1>1, <1>2, <1>3 DEF TimersOut, TimerOut, CleanupTimer,
     EnterCancel
<1>32. CASE CleanupReady
  BY <1>32, <1>1, <1>2, <1>3 DEF TimersOut, TimerOut, CleanupReady,
     EnterCancel
<1>33. CASE CleanupDone
  BY <1>33, <1>1, <1>2, <1>3 DEF TimersOut, TimerOut, CleanupDone
<1>34. CASE StartScheduler
  BY <1>34, <1>1, <1>2, <1>3 DEF TimersOut, TimerOut, StartScheduler,
     BeginScheduling, Started
<1>35. CASE RunSchedulerNonBlocking
  BY <1>35, <1>1, <1>2, <1>3 DEF TimersOut, TimerOut,
     RunSchedulerNonBlocking, BeginScheduling, Started
<1>36. CASE CountReached
  BY <1>36, <1>1, <1>2, <1>3 DEF TimersOut, TimerOut, CountReached
<1>37. CASE RunReturn
  BY <1>37, <1>1, <1>2, <1>3 DEF TimersOut, TimerOut, RunReturn
<1>38. CASE RunLeave
  BY <1>38, <1>1, <1>2, <1>3 DEF TimersOut, TimerOut, RunLeave, AfterLeave
<1>39. CASE UninstallScheduler
  BY <1>39, <1>1, <1>2, <1>3 DEF TimersOut, TimerOut, UninstallScheduler,
     EndScheduling, EnterCancel, Started
<1>40. CASE RegisterForCallback
  BY <1>40, <1>1, <1>2, <1>3 DEF TimersOut, TimerOut, RegisterForCallback,
     UserCode
<1>41. ASSUME NEW a \in AO, PendForExec(a) PROVE TimersOut
  BY <1>41, <1>1, <1>2, <1>3 DEF TimersOut, TimerOut, PendForExec, UserCode,
     Activate
<1>42. ASSUME NEW a \in AO \cup Timer, RunIfNotReady(a) PROVE TimersOut
  BY <1>42, <1>1, <1>2, <1>3 DEF TimersOut, TimerOut, RunIfNotReady,
     UserCode, Activate, Complete
<1>43. ASSUME NEW a \in AO \cup Timer, Cancel(a) PROVE TimersOut
  BY <1>43, <1>1, <1>2, <1>3 DEF TimersOut, TimerOut, Cancel, UserCode,
     EnterCancel
<1>44. ASSUME NEW a \in AO \cup Timer, RemoveFromScheduler(a) PROVE TimersOut
  BY <1>44, <1>1, <1>2, <1>3 DEF TimersOut, TimerOut, RemoveFromScheduler,
     UserCode, EnterCancel
<1>45. ASSUME NEW a \in AO \cup Timer, AddToScheduler(a) PROVE TimersOut
  BY <1>45, <1>1, <1>2, <1>3 DEF TimersOut, TimerOut, AddToScheduler,
     UserCode
<1>46. ASSUME NEW t \in Timer, NEW d \in Delays, After(t, d) PROVE TimersOut
  BY <1>46, <1>1, <1>2, <1>3 DEF TimersOut, TimerOut, After, UserCode,
     Activate
<1>47. ASSUME NEW a \in AO, RemoteComplete(a) PROVE TimersOut
  BY <1>47, <1>1, <1>2, <1>3 DEF TimersOut, TimerOut, RemoteComplete,
     Complete, CanComplete
<1>48. ASSUME NEW t \in Control, StopCheck(t) PROVE TimersOut
  BY <1>48, <1>1, <1>2, <1>3 DEF TimersOut, TimerOut, StopCheck, Goto
<1>49. ASSUME NEW t \in Control, StopTestSuspend(t) PROVE TimersOut
  BY <1>49, <1>1, <1>2, <1>3 DEF TimersOut, TimerOut, StopTestSuspend, Goto
<1>50. ASSUME NEW t \in Control, SuspendCheck(t) PROVE TimersOut
  BY <1>50, <1>1, <1>2, <1>3 DEF TimersOut, TimerOut, SuspendCheck, Goto
<1>51. ASSUME NEW t \in Control, ResumeCheck(t) PROVE TimersOut
  BY <1>51, <1>1, <1>2, <1>3 DEF TimersOut, TimerOut, ResumeCheck, Goto
<1>52. ASSUME NEW t \in Control, SignalResume(t) PROVE TimersOut
  BY <1>52, <1>1, <1>2, <1>3 DEF TimersOut, TimerOut, SignalResume
<1>53. ASSUME NEW t \in Control, CompleteStopper(t) PROVE TimersOut
  BY <1>53, <1>1, <1>2, <1>3 DEF TimersOut, TimerOut, CompleteStopper,
     Complete, CanComplete, Started
<1>54. CASE Tick
  BY <1>54, <1>1, <1>2, <1>3 DEF TimersOut, TimerOut, Tick
<1>55. CASE UNCHANGED vars
  BY <1>55, <1>1, <1>2, <1>3 DEF TimersOut, TimerOut
<1> QED
  BY <1>4, <1>5, <1>6, <1>7, <1>8, <1>9, <1>10, <1>11, <1>12, <1>13,
     <1>14, <1>15, <1>16, <1>17, <1>18, <1>19, <1>20, <1>21, <1>22,
     <1>23, <1>24, <1>25, <1>26, <1>27, <1>28, <1>29, <1>30, <1>31,
     <1>32, <1>33, <1>34, <1>35, <1>36, <1>37, <1>38, <1>39, <1>40,
     <1>41, <1>42, <1>43, <1>44, <1>45, <1>46, <1>47, <1>48, <1>49,
     <1>50, <1>51, <1>52, <1>53, <1>54, <1>55 DEF Next, LoopStep,
     CancelStep, UserStep, ControlStep

(***************************************************************************)
(* UpdateTimers compares the timers with the tick count it read e ticks    *)
(* ago, and WaitForReadyAO runs a timer that was due when the wait ended:  *)
(* neither is so late that a timer has gone around half a turn.            *)
(***************************************************************************)
Read(e) ==
    /\ timenow = (now - e) % Wrap
    /\ \A t \in Timer : isIn[t] = "timer" =>
          \E k \in 0..Threshold : TimeLeft(t, k) /\ k + e <= Threshold

ReadInv == pc \in {"timers", "timer_complete"} => \E e \in 0..Threshold : Read(e)

ExpiredInv == pc = "timer_expired" => \E k \in 0..MaxLate : TimeLeft(cur, k)

FireInv == ReadInv /\ ExpiredInv

\* A timer with k ticks left looks due e ticks ago if and only if it was.
LEMMA DueLeft ==
    ASSUME now \in 0..(Wrap - 1), MaxLate < Threshold, NEW t,
           NEW k \in 0..Threshold, NEW e \in 0..Threshold,
           TimeLeft(t, k), k + e <= Threshold
    PROVE  (((now - e) % Wrap) - due[t]) % Wrap <= Threshold <=> k + e <= MaxLate
<1>1. /\ Wrap \in Nat /\ Threshold \in Nat /\ MaxLate \in Nat
      /\ Wrap = 2 * (Threshold + 1)
  BY HalfTurn
<1> DEFINE x == now - e  y == now + k - MaxLate
<1>2. /\ x \in Int /\ y \in Int /\ x - y = MaxLate - (k + e)
      /\ -Wrap <= x /\ x < 2 * Wrap /\ -Wrap <= y /\ y < 2 * Wrap
      /\ -Wrap <= x - y /\ x - y < Wrap
  BY <1>1
<1>3. due[t] = y % Wrap
  BY DEF TimeLeft
<1> DEFINE d == ((x % Wrap) - (y % Wrap)) % Wrap
<1>4. /\ 0 <= x - y => d = MaxLate - (k + e)
      /\ x - y < 0 => d = MaxLate - (k + e) + Wrap
  <2> HIDE DEF x, y
  <2> QED BY <1>2, ModDiff
<1>5. d <= Threshold <=> k + e <= MaxLate
  <2> HIDE DEF d
  <2> QED BY <1>1, <1>2, <1>4
<1> QED BY <1>3, <1>5

\* The tick count is its own residue.
LEMMA NowMod ==
    ASSUME now \in 0..(Wrap - 1)
    PROVE  (now - 0) % Wrap = now /\ now % Wrap = now
<1>1. now \in Int /\ 0 <= now /\ now < Wrap /\ now - 0 = now
  BY HalfTurn
<1> QED BY <1>1, ModCases

\* Reading the tick count starts with e = 0.
LEMMA ReadNow ==
    ASSUME IInv, timenow' = now, UNCHANGED <<isIn, due, now>>
    PROVE  ReadInv'
<1>1. now \in 0..(Wrap - 1) /\ TimeInv
  BY DEF IInv, TypeOK
<1>2. Read(0)'
  <2>1. timenow' = (now - 0) % Wrap
    BY <1>1, NowMod
  <2>2. \A t \in Timer : isIn[t] = "timer" =>
           \E k \in 0..Threshold : TimeLeft(t, k) /\ k + 0 <= Threshold
    BY <1>1, HalfTurn DEF TimeInv
  <2> QED BY <2>1, <2>2 DEF Read, TimeLeft
<1> QED BY <1>2, HalfTurn DEF ReadInv

\* Steps that add no timer and leave the time alone.
LEMMA ReadKept ==
    ASSUME ReadInv, pc \in {"timers", "timer_complete"},
           UNCHANGED <<due, now, timenow>>,
           \A t \in Timer : isIn'[t] = "timer" => isIn[t] = "timer"
    PROVE  ReadInv'
<1>1. PICK e \in 0..Threshold : Read(e)
  BY DEF ReadInv
<1>2. Read(e)'
  BY <1>1 DEF Read, TimeLeft
<1> QED BY <1>2 DEF ReadInv

\* A tick makes the reading one tick older and every timer one tick closer.
LEMMA ReadTick ==
    ASSUME IInv, ReadInv, Tick, pc \in {"timers", "timer_complete"}
    PROVE  ReadInv'
<1>1. /\ now \in 0..(Wrap - 1) /\ TimeInv /\ timerQ \in Seq(Timer)
      /\ Timer \subseteq Obj /\ QueuesConsistent
  BY DEF IInv, TypeOK, Obj
<1>2. PICK e \in 0..Threshold : Read(e)
  BY DEF ReadInv
<1>3. ASSUME NEW t \in Timer, isIn[t] = "timer"
      PROVE  \E k \in 0..Threshold :
                k # 0 /\ TimeLeft(t, k) /\ TimeLeft(t, k - 1)' /\ k + e <= Threshold
  <2>1. PICK k \in 0..Threshold : TimeLeft(t, k) /\ k + e <= Threshold
    BY <1>2, <1>3 DEF Read
  <2>2. k # 0 /\ TimeLeft(t, k - 1)'
    BY <1>1, <1>3, <2>1, TickLeft DEF TimeInv
  <2> QED BY <2>1, <2>2
<1>4. e + 1 \in 0..Threshold
  <2>1. timerQ # <<>> /\ 1 \in 1..Len(timerQ) /\ timerQ[1] \in Timer
    <3>1. timerQ # <<>>
      BY DEF Tick
    <3>2. Len(timerQ) \in Nat \ {0}
      BY <1>1, <3>1, EmptySeq
    <3> QED BY <1>1, <3>1, <3>2
  <2>2. isIn[timerQ[1]] = "timer"
    BY <1>1, <2>1 DEF QueuesConsistent, IsQueued
  <2>3. PICK k \in 0..Threshold : k # 0 /\ k + e <= Threshold
    BY <1>3, <2>1, <2>2
  <2> QED BY <2>3, HalfTurn
<1>5. timenow' = (now' - (e + 1)) % Wrap
  <2>1. -e \in Int /\ -Wrap <= -e /\ -e < Wrap
    BY HalfTurn
  <2>2. (now + (-e)) % Wrap = (((now + 1) % Wrap) + (-e - 1)) % Wrap
    BY <1>1, <2>1, ModTick
  <2>3. (now + 1) % Wrap \in Int
    BY <1>1, HalfTurn, ModCases
  <2>4. now + (-e) = now - e /\ ((now + 1) % Wrap) + (-e - 1) = ((now + 1) % Wrap) - (e + 1)
    BY <1>1, <2>3, HalfTurn
  <2>5. timenow' = timenow /\ now' = (now + 1) % Wrap
    BY DEF Tick
  <2> QED BY <1>2, <2>2, <2>4, <2>5 DEF Read
<1>6. ASSUME NEW t \in Timer, isIn'[t] = "timer"
      PROVE  \E k \in 0..Threshold : TimeLeft(t, k)' /\ k + (e + 1) <= Threshold
  <2>1. isIn[t] = "timer"
    BY <1>6 DEF Tick, aoVars
  <2>2. PICK k \in 0..Threshold : k # 0 /\ TimeLeft(t, k - 1)' /\ k + e <= Threshold
    BY <1>3, <2>1
  <2>3. k - 1 \in 0..Threshold /\ (k - 1) + (e + 1) <= Threshold
    BY <2>2, HalfTurn
  <2> QED BY <2>2, <2>3
<1>7. Read(e + 1)'
  BY <1>5, <1>6 DEF Read
<1> QED BY <1>4, <1>7 DEF ReadInv

\* Every step keeps the readings of the tick count fresh enough.
LEMMA FireStep ==
    ASSUME IInv, FireInv, [Next]_vars
    PROVE  FireInv'
<1> USE DEF vars, aoVars, qVars, timeVars, flagVars, thrVars, cancVars, envVars
<1>1. /\ pc \in PCs /\ ret \in {"idle", "running", "cleanup"}
      /\ AO \subseteq Obj /\ Timer \subseteq Obj /\ Stopper \in Obj
      /\ isIn \in [Obj -> {"none", "ready", "timer"}]
      /\ cur \in Obj \cup {None}
  BY DEF IInv, TypeOK, Obj
<1>2. FireInv /\ CtlInv
  BY DEF IInv
<1>3. CASE LoopTest
  <2>1. CASE pc' = "timers"
    <3>1. ReadInv'
      BY <1>3, <2>1, ReadNow DEF LoopTest
    <3> QED BY <2>1, <3>1 DEF FireInv, ExpiredInv
  <2>2. CASE pc' # "timers"
    BY <1>3, <2>2 DEF LoopTest, FireInv, ReadInv, ExpiredInv
  <2> QED BY <2>1, <2>2
<1>4. CASE TimerDue
  <2>1. \A t \in Timer : isIn'[t] = "timer" => isIn[t] = "timer"
    BY <1>4, <1>1, Tops DEF TimerDue, TopDue, CtlInv, IInv
  <2>2. ReadInv'
    BY <1>4, <1>2, <2>1, ReadKept DEF TimerDue, FireInv
  <2> QED BY <1>4, <2>2 DEF TimerDue, TopDue, FireInv, ExpiredInv
<1>5. CASE TimerComplete
  <2>1. \A t \in Timer : isIn'[t] = "timer" => isIn[t] = "timer"
    BY <1>5, <1>1, Tops DEF TimerComplete, Complete, AfterLeave, CtlInv, IInv
  <2>2. ReadInv'
    BY <1>5, <1>2, <2>1, ReadKept DEF TimerComplete, FireInv
  <2> QED BY <1>5, <2>2 DEF TimerComplete, Complete, AfterLeave, FireInv, ExpiredInv
<1>6. CASE TimersDone
  BY <1>6, <1>1 DEF FireInv, ReadInv, ExpiredInv, TimersDone, TopDue
<1>7. CASE PopTop
  BY <1>7, <1>1 DEF FireInv, ReadInv, ExpiredInv, PopTop
<1>8. CASE PopSem
  BY <1>8, <1>1 DEF FireInv, ReadInv, ExpiredInv, PopSem
<1>9. CASE PopNothing
  BY <1>9, <1>1 DEF FireInv, ReadInv, ExpiredInv, PopNothing
<1>10. CASE WaitSem
  BY <1>10, <1>1 DEF FireInv, ReadInv, ExpiredInv, WaitSem
<1>11. CASE PopTopAfterWait
  BY <1>11, <1>1 DEF FireInv, ReadInv, ExpiredInv, PopTopAfterWait
<1>12. CASE WaitTimeout
  <2>1. cur \in Timer /\ cur = timerQ[TimerTop] /\ isIn[cur] = "timer"
    BY <1>12, <1>1, <1>2, Tops, ObjAssumption DEF WaitTimeout, CtlInv, IInv, TopInv, Obj
  <2>2. now \in 0..(Wrap - 1) /\ MaxLate < Threshold
    BY <2>1 DEF IInv, TypeOK, TimeInv
  <2>3. PICK k \in 0..Threshold : TimeLeft(cur, k)
    BY <2>1 DEF IInv, TimeInv
  <2>4. k + 0 <= Threshold /\ 0 \in 0..Threshold /\ k + 0 = k
    BY HalfTurn
  <2>5. (((now - 0) % Wrap) - due[cur]) % Wrap <= Threshold
    BY <1>12, <2>2, NowMod DEF WaitTimeout
  <2>6. k <= MaxLate
    BY <2>2, <2>3, <2>4, <2>5, DueLeft
  <2>7. k \in 0..MaxLate
    BY <2>6, HalfTurn
  <2> QED
    BY <1>12, <2>3, <2>7 DEF WaitTimeout, FireInv, ReadInv, ExpiredInv, TimeLeft
<1>13. CASE TimerExpired
  BY <1>13, <1>1 DEF FireInv, ReadInv, ExpiredInv, TimerExpired
<1>14. CASE RunStopper
  BY <1>14, <1>1 DEF FireInv, ReadInv, ExpiredInv, RunStopper
<1>15. CASE CallRun
  BY <1>15, <1>1 DEF FireInv, ReadInv, ExpiredInv, CallRun
<1>16. CASE AfterRun
  <2>1. CASE pc' = "timers"
    <3>1. ReadInv'
      BY <1>16, <2>1, ReadNow DEF AfterRun
    <3> QED BY <2>1, <3>1 DEF FireInv, ExpiredInv
  <2>2. CASE pc' # "timers"
    BY <1>16, <2>2 DEF AfterRun, FireInv, ReadInv, ExpiredInv
  <2> QED BY <2>1, <2>2
<1>17. CASE SuspendClear
  BY <1>17, <1>1 DEF FireInv, ReadInv, ExpiredInv, SuspendClear
<1>18. CASE SuspendWait
  BY <1>18, <1>1 DEF FireInv, ReadInv, ExpiredInv, SuspendWait
<1>19. CASE SuspendEnd
  BY <1>19, <1>1 DEF FireInv, ReadInv, ExpiredInv, SuspendEnd
<1>20. CASE ExitLoop
  BY <1>20, <1>1 DEF FireInv, ReadInv, ExpiredInv, ExitLoop, EndScheduling,
     EnterCancel, Started
<1>21. CASE DoCancel
  BY <1>21, <1>1 DEF FireInv, ReadInv, ExpiredInv, DoCancel
<1>22. CASE CancelComplete
  BY <1>22, <1>1 DEF FireInv, ReadInv, ExpiredInv, CancelComplete, Complete,
     CancelLeave, AfterLeave
<1>23. CASE CancelIsIn
  BY <1>23, <1>1 DEF FireInv, ReadInv, ExpiredInv, CancelIsIn
<1>24. CASE CancelWait
  BY <1>24, <1>1 DEF FireInv, ReadInv, ExpiredInv, CancelWait
<1>25. CASE CancelCheck
  BY <1>25, <1>1 DEF FireInv, ReadInv, ExpiredInv, CancelCheck
<1>26. CASE CancelRestore
  BY <1>26, <1>1 DEF FireInv, ReadInv, ExpiredInv, CancelRestore
<1>27. CASE CancelIdle
  BY <1>27, <1>1 DEF FireInv, ReadInv, ExpiredInv, CancelIdle
<1>28. CASE CancelRemove
  BY <1>28, <1>1 DEF FireInv, ReadInv, ExpiredInv, CancelRemove, CancelReturn
<1>29. CASE CancelSem
  BY <1>29, <1>1 DEF FireInv, ReadInv, ExpiredInv, CancelSem, CancelReturn
<1>30. CASE CleanupTimer
  BY <1>30, <1>1 DEF FireInv, ReadInv, ExpiredInv, CleanupTimer, EnterCancel
<1>31. CASE CleanupReady
  BY <1>31, <1>1 DEF FireInv, ReadInv, ExpiredInv, CleanupReady, EnterCancel
<1>32. CASE CleanupDone
  BY <1>32, <1>1 DEF FireInv, ReadInv, ExpiredInv, CleanupDone
<1>33. CASE StartScheduler
  BY <1>33, <1>1 DEF FireInv, ReadInv, ExpiredInv, StartScheduler,
     BeginScheduling, Started
<1>34. CASE RunSchedulerNonBlocking
  <2>1. CASE pc' = "timers"
    <3>1. ReadInv'
      BY <1>34, <2>1, ReadNow DEF RunSchedulerNonBlocking
    <3> QED BY <2>1, <3>1 DEF FireInv, ExpiredInv
  <2>2. CASE pc' # "timers"
    BY <1>34, <2>2 DEF RunSchedulerNonBlocking, FireInv, ReadInv, ExpiredInv
  <2> QED BY <2>1, <2>2
<1>35. CASE CountReached
  BY <1>35, <1>1 DEF FireInv, ReadInv, ExpiredInv, CountReached
<1>36. CASE RunReturn
  BY <1>36, <1>1 DEF FireInv, ReadInv, ExpiredInv, RunReturn
<1>37. CASE RunLeave
  BY <1>37, <1>1 DEF FireInv, ReadInv, ExpiredInv, RunLeave, AfterLeave
<1>38. CASE UninstallScheduler
  BY <1>38, <1>1 DEF FireInv, ReadInv, ExpiredInv, UninstallScheduler,
     EndScheduling, EnterCancel, Started
<1>39. CASE RegisterForCallback
  BY <1>39, <1>1 DEF FireInv, ReadInv, ExpiredInv, RegisterForCallback,
     UserCode
<1>40. ASSUME NEW a \in AO, PendForExec(a) PROVE FireInv'
  BY <1>40, <1>1 DEF FireInv, ReadInv, ExpiredInv, PendForExec, UserCode,
     Activate
<1>41. ASSUME NEW a \in AO \cup Timer, RunIfNotReady(a) PROVE FireInv'
  BY <1>41, <1>1 DEF FireInv, ReadInv, ExpiredInv, RunIfNotReady, UserCode,
     Activate, Complete
<1>42. ASSUME NEW a \in AO \cup Timer, Cancel(a) PROVE FireInv'
  BY <1>42, <1>1 DEF FireInv, ReadInv, ExpiredInv, Cancel, UserCode,
     EnterCancel
<1>43. ASSUME NEW a \in AO \cup Timer, RemoveFromScheduler(a) PROVE FireInv'
  BY <1>43, <1>1 DEF FireInv, ReadInv, ExpiredInv, RemoveFromScheduler,
     UserCode, EnterCancel
<1>44. ASSUME NEW a \in AO \cup Timer, AddToScheduler(a) PROVE FireInv'
  BY <1>44, <1>1 DEF FireInv, ReadInv, ExpiredInv, AddToScheduler, UserCode
<1>45. ASSUME NEW t \in Timer, NEW d \in Delays, After(t, d) PROVE FireInv'
  BY <1>45, <1>1 DEF FireInv, ReadInv, ExpiredInv, After, UserCode, Activate
<1>46. ASSUME NEW a \in AO, RemoteComplete(a) PROVE FireInv'
  <2>1. \A u \in Timer : isIn'[u] = "timer" => isIn[u] = "timer"
    BY <1>46, <1>1 DEF RemoteComplete, Complete, CanComplete
  <2>2. UNCHANGED <<pc, cur, now, due, timenow>>
    BY <1>46 DEF RemoteComplete
  <2> QED BY <1>2, <2>1, <2>2 DEF FireInv, ReadInv, ExpiredInv, Read, TimeLeft
<1>47. ASSUME NEW t \in Control, StopCheck(t) PROVE FireInv'
  <2>1. UNCHANGED <<isIn, pc, cur, now, due, timenow>>
    BY <1>47 DEF StopCheck, Goto
  <2> QED BY <1>2, <2>1 DEF FireInv, ReadInv, ExpiredInv, Read, TimeLeft
<1>48. ASSUME NEW t \in Control, StopTestSuspend(t) PROVE FireInv'
  <2>1. UNCHANGED <<isIn, pc, cur, now, due, timenow>>
    BY <1>48 DEF StopTestSuspend, Goto
  <2> QED BY <1>2, <2>1 DEF FireInv, ReadInv, ExpiredInv, Read, TimeLeft
<1>49. ASSUME NEW t \in Control, SuspendCheck(t) PROVE FireInv'
  <2>1. UNCHANGED <<isIn, pc, cur, now, due, timenow>>
    BY <1>49 DEF SuspendCheck, Goto
  <2> QED BY <1>2, <2>1 DEF FireInv, ReadInv, ExpiredInv, Read, TimeLeft
<1>50. ASSUME NEW t \in Control, ResumeCheck(t) PROVE FireInv'
  <2>1. UNCHANGED <<isIn, pc, cur, now, due, timenow>>
    BY <1>50 DEF ResumeCheck, Goto
  <2> QED BY <1>2, <2>1 DEF FireInv, ReadInv, ExpiredInv, Read, TimeLeft
<1>51. ASSUME NEW t \in Control, SignalResume(t) PROVE FireInv'
  <2>1. UNCHANGED <<isIn, pc, cur, now, due, timenow>>
    BY <1>51 DEF SignalResume
  <2> QED BY <1>2, <2>1 DEF FireInv, ReadInv, ExpiredInv, Read, TimeLeft
<1>52. ASSUME NEW t \in Control, CompleteStopper(t) PROVE FireInv'
  <2>1. \A u \in Timer : isIn'[u] = "timer" => isIn[u] = "timer"
    BY <1>52, <1>1 DEF CompleteStopper, Complete, CanComplete
  <2>2. UNCHANGED <<pc, cur, now, due, timenow>>
    BY <1>52 DEF CompleteStopper
  <2> QED BY <1>2, <2>1, <2>2 DEF FireInv, ReadInv, ExpiredInv, Read, TimeLeft
<1>53. CASE Tick
  <2>1. ReadInv'
    BY <1>53, <1>2, ReadTick DEF Tick, FireInv, ReadInv
  <2>2. ExpiredInv'
    <3> SUFFICES ASSUME pc = "timer_expired" PROVE \E k \in 0..MaxLate : TimeLeft(cur, k)'
      BY <1>53 DEF Tick, ExpiredInv, TimeLeft
    <3>1. cur \in Timer /\ cur = timerQ[TimerTop] /\ isIn[cur] = "timer"
      BY <1>1, <1>2, Tops, ObjAssumption DEF CtlInv, IInv, TopInv, Obj
    <3>2. PICK k \in 0..MaxLate : TimeLeft(cur, k)
      BY <1>2 DEF FireInv, ExpiredInv
    <3>3. MaxLate < Threshold /\ now \in 0..(Wrap - 1)
      BY <3>1 DEF IInv, TypeOK, TimeInv
    <3>4. k \in 0..Threshold
      BY <3>3, HalfTurn
    <3>5. k # 0 /\ TimeLeft(cur, k - 1)'
      <4>1. PICK c \in Timer : c = cur
        BY <3>1
      <4>2. isIn[c] = "timer" /\ TimeLeft(c, k)
        BY <3>1, <3>2, <4>1
      <4>3. k # 0 /\ TimeLeft(c, k - 1)'
        BY <1>53, <3>3, <3>4, <4>2, TickLeft
      <4> QED BY <1>53, <4>1, <4>3 DEF Tick, TimeLeft
    <3>6. k - 1 \in 0..MaxLate
      BY <3>5, HalfTurn
    <3> QED BY <1>53, <3>5, <3>6 DEF Tick
  <2> QED BY <2>1, <2>2 DEF FireInv
<1>54. CASE UNCHANGED vars
  BY <1>54, <1>2 DEF FireInv, ReadInv, ExpiredInv, Read, TimeLeft
<1> QED
  BY <1>3, <1>4, <1>5, <1>6, <1>7, <1>8, <1>9, <1>10, <1>11, <1>12,
     <1>13, <1>14, <1>15, <1>16, <1>17, <1>18, <1>19, <1>20, <1>21,
     <1>22, <1>23, <1>24, <1>25, <1>26, <1>27, <1>28, <1>29, <1>30,
     <1>31, <1>32, <1>33, <1>34, <1>35, <1>36, <1>37, <1>38, <1>39,
     <1>40, <1>41, <1>42, <1>43, <1>44, <1>45, <1>46, <1>47, <1>48,
     <1>49, <1>50, <1>51, <1>52, <1>53, <1>54 DEF Next, LoopStep,
     CancelStep, UserStep, ControlStep

LEMMA AlwaysFireInv == Spec => []FireInv
<1>1. Init => FireInv
  BY DEF Init, FireInv, ReadInv, ExpiredInv
<1>2. IInv /\ FireInv /\ [Next]_vars => FireInv'
  BY FireStep
<1> QED BY <1>1, <1>2, AlwaysIInv, PTL DEF Spec

\* The front of the timer queue is not after any other queued timer.
LEMMA FrontFirst ==
    ASSUME IInv, timerQ # <<>>, NEW u \in Timer, isIn[u] = "timer"
    PROVE  (due[u] - due[timerQ[TimerTop]]) % Wrap <= Threshold
<1>1. PICK j \in 1..Len(timerQ) : timerQ[j] = u
  BY DEF IInv, QueuesConsistent, IsQueued, Obj
<1>2. /\ TimerTop \in 1..Len(timerQ) /\ timerQ[TimerTop] \in Timer
      /\ j # TimerTop => ~TimerLT(timerQ, TimerTop, j)
  BY Tops DEF IInv
<1>3. /\ due[u] \in 0..(Wrap - 1) /\ due[timerQ[TimerTop]] \in 0..(Wrap - 1)
  BY <1>2 DEF IInv, TypeOK
<1>4. CASE due[u] = due[timerQ[TimerTop]]
  <2>1. due[u] - due[timerQ[TimerTop]] = 0
    BY <1>3, <1>4, HalfTurn
  <2>2. 0 % Wrap = 0
    BY HalfTurn, ModCases
  <2> QED BY <2>1, <2>2, HalfTurn
<1>5. CASE due[u] # due[timerQ[TimerTop]]
  <2>1. ~((due[u] - due[timerQ[TimerTop]]) % Wrap > Threshold)
    BY <1>1, <1>2, <1>5 DEF TimerLT
  <2>2. due[u] - due[timerQ[TimerTop]] \in Int
    BY <1>3, HalfTurn
  <2>3. (due[u] - due[timerQ[TimerTop]]) % Wrap \in 0..(Wrap - 1)
    BY <2>2, ModCases
  <2> HIDE DEF IInv
  <2> QED BY <2>1, <2>3, HalfTurn
<1> QED BY <1>4, <1>5

\* A timer with at most MaxLate ticks left is due now.
LEMMA DueNow ==
    ASSUME now \in 0..(Wrap - 1), MaxLate < Threshold, NEW t,
           NEW k \in 0..MaxLate, TimeLeft(t, k)
    PROVE  (now - due[t]) % Wrap <= Threshold
<1>1. k \in 0..Threshold /\ 0 \in 0..Threshold /\ k + 0 = k /\ k <= Threshold
      /\ k <= MaxLate
  BY HalfTurn
<1>2. (((now - 0) % Wrap) - due[t]) % Wrap <= Threshold
  BY <1>1, DueLeft
<1> QED BY <1>2, NowMod

(***************************************************************************)
(* The timer queue of the model hands out its timers in order.  That of    *)
(* the code is an OsclPriorityQueue from which cancelled timers are        *)
(* removed: a heap that is in order as long as it holds at most five       *)
(* elements (theorem HeapCorrect of OsclPriorityQueueProofs, KeepsHeap).   *)
(***************************************************************************)
FewTimers == Cardinality(Timer) <= 5

(***************************************************************************)
(* Of at most five timers, one leaves the timer queue when it is cancelled *)
(* or due, and never with an earlier one left behind, across the rollover  *)
(* of the tick count and although the tick count moves on while            *)
(* UpdateTimers runs.                                                      *)
(***************************************************************************)
THEOREM TimersCorrect == FewTimers /\ Spec => TimersFireInOrder
<1> DEFINE Fires(t) ==
         /\ (now - due[t]) % Wrap <= Threshold
         /\ \A u \in Timer : isIn[u] = "timer" => (due[u] - due[t]) % Wrap <= Threshold
<1>1. ASSUME IInv, FireInv, TimerDue
      PROVE  Fires(timerQ[TimerTop])
  <2> DEFINE t == timerQ[TimerTop]
  <2>1. timerQ # <<>> /\ Due(t) /\ pc = "timers"
    BY <1>1 DEF TimerDue, TopDue
  <2>2. t \in Timer /\ isIn[t] = "timer"
    BY <1>1, <2>1, Tops DEF IInv
  <2>3. PICK e \in 0..Threshold : Read(e)
    BY <1>1, <2>1 DEF FireInv, ReadInv
  <2>4. PICK k \in 0..Threshold : TimeLeft(t, k) /\ k + e <= Threshold
    BY <2>2, <2>3 DEF Read
  <2>5. now \in 0..(Wrap - 1) /\ MaxLate < Threshold
    BY <1>1, <2>2 DEF IInv, TypeOK, TimeInv
  <2>6. (((now - e) % Wrap) - due[t]) % Wrap <= Threshold
    BY <2>1, <2>3 DEF Due, Read
  <2>7. k \in 0..MaxLate
    <3> HIDE DEF t
    <3>1. k + e <= MaxLate
      BY <2>4, <2>5, <2>6, DueLeft
    <3> QED BY <3>1, HalfTurn
  <2>8. (now - due[t]) % Wrap <= Threshold
    <3> HIDE DEF t
    <3> QED BY <2>4, <2>5, <2>7, DueNow
  <2> QED BY <1>1, <2>1, <2>8, FrontFirst
<1>2. ASSUME IInv, FireInv, TimerExpired
      PROVE  Fires(cur)
  <2>1. /\ pc = "timer_expired" /\ cur \in Timer
        /\ timerQ # <<>> /\ cur = timerQ[TimerTop] /\ isIn[cur] = "timer"
    BY <1>2, Tops, ObjAssumption DEF TimerExpired, CtlInv, IInv, TopInv, Obj
  <2>2. PICK k \in 0..MaxLate : TimeLeft(cur, k)
    BY <1>2, <2>1 DEF FireInv, ExpiredInv
  <2>3. now \in 0..(Wrap - 1) /\ MaxLate < Threshold
    BY <1>2, <2>1 DEF IInv, TypeOK, TimeInv
  <2>4. (now - due[cur]) % Wrap <= Threshold
    BY <2>2, <2>3, DueNow
  <2> QED BY <1>2, <2>1, <2>4, FrontFirst
<1> DEFINE InOrder ==
         \A t \in Timer : isIn[t] = "timer" /\ isIn'[t] # "timer" =>
            \/ canc' = t
            \/ /\ (now - due[t]) % Wrap <= Threshold
               /\ \A u \in Timer : isIn[u] = "timer" =>
                     (due[u] - due[t]) % Wrap <= Threshold
<1>3. IInv /\ FireInv /\ [Next]_vars => [InOrder]_vars
  <2> SUFFICES ASSUME IInv, FireInv, [Next]_vars,
                      NEW t \in Timer, isIn[t] = "timer", isIn'[t] # "timer"
               PROVE  canc' = t \/ Fires(t)
    BY Zenon
  <2>1. TimerOut(t)
    BY OutStep DEF TimersOut
  <2> HIDE DEF Fires
  <2> QED BY <1>1, <1>2, <2>1 DEF TimerOut
<1> QED BY <1>3, AlwaysIInv, AlwaysFireInv, PTL DEF Spec, TimersFireInOrder

-----------------------------------------------------------------------------
(***************************************************************************)
(* Cancel ends a request.  It waits for the thread that owes the request   *)
(* of an object whose DoCancel leaves the completion to that thread, so    *)
(* such a request stays pending until that thread completes it.            *)
(***************************************************************************)
\* Nobody but the thread that owes such a request completes it.
OwnInv ==
    /\ \A a \in owed \cap OwnDoCancel :
          busy[a] /\ status[a] = "pending" /\ isIn[a] = "none"
    /\ pc = "cancel_complete" => canc \notin OwnDoCancel

\* Every step leaves an owed request to the thread that owes it.
LEMMA OwnStep ==
    ASSUME IInv, OwnInv, [Next]_vars
    PROVE  OwnInv'
<1> USE DEF vars, aoVars, qVars, timeVars, flagVars, thrVars, cancVars, envVars
<1>1. /\ AO \subseteq Obj /\ Timer \subseteq Obj /\ Stopper \in Obj
      /\ None \notin Obj /\ AO \cap Timer = {} /\ Stopper \notin AO
      /\ owed \subseteq AO /\ OwnDoCancel \subseteq AO
  BY ObjAssumption DEF IInv, TypeOK, Obj
<1>2. OwnInv /\ ObjInv /\ CtlInv /\ Requested
  BY QueuesConsistentParts DEF IInv
<1>3. /\ readyQ # <<>> => isIn[readyQ[ReadyTop]] = "ready"
      /\ timerQ # <<>> => isIn[timerQ[TimerTop]] = "timer"
  BY Tops DEF IInv
<1>4. /\ canc \in Obj \cup {None} /\ cur \in Obj \cup {None}
      /\ busy \in [Obj -> BOOLEAN] /\ DOMAIN status = Obj
      /\ isIn \in [Obj -> {"none", "ready", "timer"}]
      /\ ret \in {"idle", "running", "cleanup"}
  BY DEF IInv, TypeOK
<1>5. CASE LoopTest
  BY <1>5, <1>1, <1>2, <1>3, <1>4 DEF OwnInv, ObjInv, CtlInv, Requested,
     CancelPCs, LoopTest
<1>6. CASE TimerDue
  BY <1>6, <1>1, <1>2, <1>3, <1>4 DEF OwnInv, ObjInv, CtlInv, Requested,
     CancelPCs, TimerDue, TopDue
<1>7. CASE TimerComplete
  BY <1>7, <1>1, <1>2, <1>3, <1>4 DEF OwnInv, ObjInv, CtlInv, Requested,
     CancelPCs, TimerComplete, Complete, CanComplete, AfterLeave
<1>8. CASE TimersDone
  BY <1>8, <1>1, <1>2, <1>3, <1>4 DEF OwnInv, ObjInv, CtlInv, Requested,
     CancelPCs, TimersDone, TopDue
<1>9. CASE PopTop
  BY <1>9, <1>1, <1>2, <1>3, <1>4 DEF OwnInv, ObjInv, CtlInv, Requested,
     CancelPCs, PopTop
<1>10. CASE PopSem
  BY <1>10, <1>1, <1>2, <1>3, <1>4 DEF OwnInv, ObjInv, CtlInv, Requested,
     CancelPCs, PopSem
<1>11. CASE PopNothing
  BY <1>11, <1>1, <1>2, <1>3, <1>4 DEF OwnInv, ObjInv, CtlInv, Requested,
     CancelPCs, PopNothing
<1>12. CASE WaitSem
  BY <1>12, <1>1, <1>2, <1>3, <1>4 DEF OwnInv, ObjInv, CtlInv, Requested,
     CancelPCs, WaitSem
<1>13. CASE PopTopAfterWait
  BY <1>13, <1>1, <1>2, <1>3, <1>4 DEF OwnInv, ObjInv, CtlInv, Requested,
     CancelPCs, PopTopAfterWait
<1>14. CASE WaitTimeout
  BY <1>14, <1>1, <1>2, <1>3, <1>4 DEF OwnInv, ObjInv, CtlInv, Requested,
     CancelPCs, WaitTimeout
<1>15. CASE TimerExpired
  BY <1>15, <1>1, <1>2, <1>3, <1>4 DEF OwnInv, ObjInv, CtlInv, Requested,
     CancelPCs, TimerExpired
<1>16. CASE RunStopper
  BY <1>16, <1>1, <1>2, <1>3, <1>4 DEF OwnInv, ObjInv, CtlInv, Requested,
     CancelPCs, RunStopper
<1>17. CASE CallRun
  BY <1>17, <1>1, <1>2, <1>3, <1>4 DEF OwnInv, ObjInv, CtlInv, Requested,
     CancelPCs, CallRun
<1>18. CASE AfterRun
  BY <1>18, <1>1, <1>2, <1>3, <1>4 DEF OwnInv, ObjInv, CtlInv, Requested,
     CancelPCs, AfterRun
<1>19. CASE SuspendClear
  BY <1>19, <1>1, <1>2, <1>3, <1>4 DEF OwnInv, ObjInv, CtlInv, Requested,
     CancelPCs, SuspendClear
<1>20. CASE SuspendWait
  BY <1>20, <1>1, <1>2, <1>3, <1>4 DEF OwnInv, ObjInv, CtlInv, Requested,
     CancelPCs, SuspendWait
<1>21. CASE SuspendEnd
  BY <1>21, <1>1, <1>2, <1>3, <1>4 DEF OwnInv, ObjInv, CtlInv, Requested,
     CancelPCs, SuspendEnd
<1>22. CASE ExitLoop
  BY <1>22, <1>1, <1>2, <1>3, <1>4 DEF OwnInv, ObjInv, CtlInv, Requested,
     CancelPCs, ExitLoop, EndScheduling, EnterCancel, Started
<1>23. CASE DoCancel
  BY <1>23, <1>1, <1>2, <1>3, <1>4 DEF OwnInv, ObjInv, CtlInv, Requested,
     CancelPCs, DoCancel
<1>24. CASE CancelComplete
  BY <1>24, <1>1, <1>2, <1>3, <1>4 DEF OwnInv, ObjInv, CtlInv, Requested,
     CancelPCs, CancelComplete, Complete, CancelLeave, AfterLeave
<1>25. CASE CancelIsIn
  BY <1>25, <1>1, <1>2, <1>3, <1>4 DEF OwnInv, ObjInv, CtlInv, Requested,
     CancelPCs, CancelIsIn
<1>26. CASE CancelWait
  BY <1>26, <1>1, <1>2, <1>3, <1>4 DEF OwnInv, ObjInv, CtlInv, Requested,
     CancelPCs, CancelWait
<1>27. CASE CancelCheck
  BY <1>27, <1>1, <1>2, <1>3, <1>4 DEF OwnInv, ObjInv, CtlInv, Requested,
     CancelPCs, CancelCheck
<1>28. CASE CancelRestore
  BY <1>28, <1>1, <1>2, <1>3, <1>4 DEF OwnInv, ObjInv, CtlInv, Requested,
     CancelPCs, CancelRestore
<1>29. CASE CancelIdle
  BY <1>29, <1>1, <1>2, <1>3, <1>4 DEF OwnInv, ObjInv, CtlInv, Requested,
     CancelPCs, CancelIdle
<1>30. CASE CancelRemove
  BY <1>30, <1>1, <1>2, <1>3, <1>4 DEF OwnInv, ObjInv, CtlInv, Requested,
     CancelPCs, CancelRemove, CancelReturn
<1>31. CASE CancelSem
  BY <1>31, <1>1, <1>2, <1>3, <1>4 DEF OwnInv, ObjInv, CtlInv, Requested,
     CancelPCs, CancelSem, CancelReturn
<1>32. CASE CleanupTimer
  BY <1>32, <1>1, <1>2, <1>3, <1>4 DEF OwnInv, ObjInv, CtlInv, Requested,
     CancelPCs, CleanupTimer, EnterCancel
<1>33. CASE CleanupReady
  BY <1>33, <1>1, <1>2, <1>3, <1>4 DEF OwnInv, ObjInv, CtlInv, Requested,
     CancelPCs, CleanupReady, EnterCancel
<1>34. CASE CleanupDone
  BY <1>34, <1>1, <1>2, <1>3, <1>4 DEF OwnInv, ObjInv, CtlInv, Requested,
     CancelPCs, CleanupDone
<1>35. CASE StartScheduler
  BY <1>35, <1>1, <1>2, <1>3, <1>4 DEF OwnInv, ObjInv, CtlInv, Requested,
     CancelPCs, StartScheduler, BeginScheduling, Started
<1>36. CASE RunSchedulerNonBlocking
  BY <1>36, <1>1, <1>2, <1>3, <1>4 DEF OwnInv, ObjInv, CtlInv, Requested,
     CancelPCs, RunSchedulerNonBlocking, BeginScheduling, Started
<1>37. CASE CountReached
  BY <1>37, <1>1, <1>2, <1>3, <1>4 DEF OwnInv, ObjInv, CtlInv, Requested,
     CancelPCs, CountReached
<1>38. CASE RunReturn
  BY <1>38, <1>1, <1>2, <1>3, <1>4 DEF OwnInv, ObjInv, CtlInv, Requested,
     CancelPCs, RunReturn
<1>39. CASE RunLeave
  BY <1>39, <1>1, <1>2, <1>3, <1>4 DEF OwnInv, ObjInv, CtlInv, Requested,
     CancelPCs, RunLeave, AfterLeave
<1>40. CASE UninstallScheduler
  BY <1>40, <1>1, <1>2, <1>3, <1>4 DEF OwnInv, ObjInv, CtlInv, Requested,
     CancelPCs, UninstallScheduler, EndScheduling, EnterCancel, Started
<1>41. CASE RegisterForCallback
  BY <1>41, <1>1, <1>2, <1>3, <1>4 DEF OwnInv, ObjInv, CtlInv, Requested,
     CancelPCs, RegisterForCallback, UserCode
<1>42. ASSUME NEW a \in AO, PendForExec(a) PROVE OwnInv'
  BY <1>42, <1>1, <1>2, <1>3, <1>4 DEF OwnInv, ObjInv, CtlInv, Requested,
     CancelPCs, PendForExec, UserCode, Activate
<1>43. ASSUME NEW a \in AO \cup Timer, RunIfNotReady(a) PROVE OwnInv'
  BY <1>43, <1>1, <1>2, <1>3, <1>4 DEF OwnInv, ObjInv, CtlInv, Requested,
     CancelPCs, RunIfNotReady, UserCode, Activate, Complete
<1>44. ASSUME NEW a \in AO \cup Timer, Cancel(a) PROVE OwnInv'
  BY <1>44, <1>1, <1>2, <1>3, <1>4 DEF OwnInv, ObjInv, CtlInv, Requested,
     CancelPCs, Cancel, UserCode, EnterCancel
<1>45. ASSUME NEW a \in AO \cup Timer, RemoveFromScheduler(a) PROVE OwnInv'
  BY <1>45, <1>1, <1>2, <1>3, <1>4 DEF OwnInv, ObjInv, CtlInv, Requested,
     CancelPCs, RemoveFromScheduler, UserCode, EnterCancel
<1>46. ASSUME NEW a \in AO \cup Timer, AddToScheduler(a) PROVE OwnInv'
  BY <1>46, <1>1, <1>2, <1>3, <1>4 DEF OwnInv, ObjInv, CtlInv, Requested,
     CancelPCs, AddToScheduler, UserCode
<1>47. ASSUME NEW t \in Timer, NEW d \in Delays, After(t, d) PROVE OwnInv'
  BY <1>47, <1>1, <1>2, <1>3, <1>4 DEF OwnInv, ObjInv, CtlInv, Requested,
     CancelPCs, After, UserCode, Activate
<1>48. ASSUME NEW a \in AO, RemoteComplete(a) PROVE OwnInv'
  BY <1>48, <1>1, <1>2, <1>3, <1>4 DEF OwnInv, ObjInv, CtlInv, Requested,
     CancelPCs, RemoteComplete, Complete, CanComplete
<1>49. ASSUME NEW t \in Control, StopCheck(t) PROVE OwnInv'
  BY <1>49, <1>1, <1>2, <1>3, <1>4 DEF OwnInv, ObjInv, CtlInv, Requested,
     CancelPCs, StopCheck, Goto
<1>50. ASSUME NEW t \in Control, StopTestSuspend(t) PROVE OwnInv'
  BY <1>50, <1>1, <1>2, <1>3, <1>4 DEF OwnInv, ObjInv, CtlInv, Requested,
     CancelPCs, StopTestSuspend, Goto
<1>51. ASSUME NEW t \in Control, SuspendCheck(t) PROVE OwnInv'
  BY <1>51, <1>1, <1>2, <1>3, <1>4 DEF OwnInv, ObjInv, CtlInv, Requested,
     CancelPCs, SuspendCheck, Goto
<1>52. ASSUME NEW t \in Control, ResumeCheck(t) PROVE OwnInv'
  BY <1>52, <1>1, <1>2, <1>3, <1>4 DEF OwnInv, ObjInv, CtlInv, Requested,
     CancelPCs, ResumeCheck, Goto
<1>53. ASSUME NEW t \in Control, SignalResume(t) PROVE OwnInv'
  BY <1>53, <1>1, <1>2, <1>3, <1>4 DEF OwnInv, ObjInv, CtlInv, Requested,
     CancelPCs, SignalResume
<1>54. ASSUME NEW t \in Control, CompleteStopper(t) PROVE OwnInv'
  BY <1>54, <1>1, <1>2, <1>3, <1>4 DEF OwnInv, ObjInv, CtlInv, Requested,
     CancelPCs, CompleteStopper, Complete, CanComplete
<1>55. CASE Tick
  BY <1>55, <1>1, <1>2, <1>3, <1>4 DEF OwnInv, ObjInv, CtlInv, Requested,
     CancelPCs, Tick
<1>56. CASE UNCHANGED vars
  BY <1>56, <1>1, <1>2, <1>3, <1>4 DEF OwnInv, ObjInv, CtlInv, Requested,
     CancelPCs
<1> QED
  BY <1>5, <1>6, <1>7, <1>8, <1>9, <1>10, <1>11, <1>12, <1>13, <1>14,
     <1>15, <1>16, <1>17, <1>18, <1>19, <1>20, <1>21, <1>22, <1>23,
     <1>24, <1>25, <1>26, <1>27, <1>28, <1>29, <1>30, <1>31, <1>32,
     <1>33, <1>34, <1>35, <1>36, <1>37, <1>38, <1>39, <1>40, <1>41,
     <1>42, <1>43, <1>44, <1>45, <1>46, <1>47, <1>48, <1>49, <1>50,
     <1>51, <1>52, <1>53, <1>54, <1>55, <1>56 DEF Next, LoopStep,
     CancelStep, UserStep, ControlStep

LEMMA AlwaysOwnInv == Spec => []OwnInv
<1>1. Init => OwnInv
  BY DEF Init, OwnInv
<1>2. IInv /\ OwnInv /\ [Next]_vars => OwnInv'
  BY OwnStep
<1> QED BY <1>1, <1>2, AlwaysIInv, PTL DEF Spec

CancelOver ==
    CancelReturns =>
       /\ ~busy'[canc] /\ isIn'[canc] = "none"
       /\ canc \in OwnDoCancel => canc \notin owed'

\* The steps that end Cancel leave the request idle.
LEMMA OverStep ==
    ASSUME IInv, OwnInv, [Next]_vars
    PROVE  CancelOver
<1> USE DEF vars, aoVars, qVars, timeVars, flagVars, thrVars, cancVars, envVars
<1>1. /\ AO \subseteq Obj /\ Timer \subseteq Obj /\ Stopper \in Obj
      /\ None \notin Obj /\ owed \subseteq AO /\ OwnDoCancel \subseteq AO
      /\ Stopper \notin AO
  BY ObjAssumption DEF IInv, TypeOK, Obj
<1>2. OwnInv /\ ObjInv /\ CtlInv /\ Linked
  BY QueuesConsistentParts DEF IInv
<1>3. pc \in PCs /\ canc \in Obj \cup {None} /\ DOMAIN isIn = Obj
  BY DEF IInv, TypeOK
<1>4. CASE LoopTest
  BY <1>4, <1>1, <1>2, <1>3 DEF CancelOver, CancelReturns, OwnInv, ObjInv, CtlInv,
     CancelPCs, LoopTest
<1>5. CASE TimerDue
  BY <1>5, <1>1, <1>2, <1>3 DEF CancelOver, CancelReturns, OwnInv, ObjInv, CtlInv,
     CancelPCs, TimerDue, TopDue
<1>6. CASE TimerComplete
  BY <1>6, <1>1, <1>2, <1>3 DEF CancelOver, CancelReturns, OwnInv, ObjInv, CtlInv,
     CancelPCs, TimerComplete, Complete, CanComplete, AfterLeave
<1>7. CASE TimersDone
  BY <1>7, <1>1, <1>2, <1>3 DEF CancelOver, CancelReturns, OwnInv, ObjInv, CtlInv,
     CancelPCs, TimersDone, TopDue
<1>8. CASE PopTop
  BY <1>8, <1>1, <1>2, <1>3 DEF CancelOver, CancelReturns, OwnInv, ObjInv, CtlInv,
     CancelPCs, PopTop
<1>9. CASE PopSem
  BY <1>9, <1>1, <1>2, <1>3 DEF CancelOver, CancelReturns, OwnInv, ObjInv, CtlInv,
     CancelPCs, PopSem
<1>10. CASE PopNothing
  BY <1>10, <1>1, <1>2, <1>3 DEF CancelOver, CancelReturns, OwnInv, ObjInv, CtlInv,
     CancelPCs, PopNothing
<1>11. CASE WaitSem
  BY <1>11, <1>1, <1>2, <1>3 DEF CancelOver, CancelReturns, OwnInv, ObjInv, CtlInv,
     CancelPCs, WaitSem
<1>12. CASE PopTopAfterWait
  BY <1>12, <1>1, <1>2, <1>3 DEF CancelOver, CancelReturns, OwnInv, ObjInv, CtlInv,
     CancelPCs, PopTopAfterWait
<1>13. CASE WaitTimeout
  BY <1>13, <1>1, <1>2, <1>3 DEF CancelOver, CancelReturns, OwnInv, ObjInv, CtlInv,
     CancelPCs, WaitTimeout
<1>14. CASE TimerExpired
  BY <1>14, <1>1, <1>2, <1>3 DEF CancelOver, CancelReturns, OwnInv, ObjInv, CtlInv,
     CancelPCs, TimerExpired
<1>15. CASE RunStopper
  BY <1>15, <1>1, <1>2, <1>3 DEF CancelOver, CancelReturns, OwnInv, ObjInv, CtlInv,
     CancelPCs, RunStopper
<1>16. CASE CallRun
  BY <1>16, <1>1, <1>2, <1>3 DEF CancelOver, CancelReturns, OwnInv, ObjInv, CtlInv,
     CancelPCs, CallRun
<1>17. CASE AfterRun
  BY <1>17, <1>1, <1>2, <1>3 DEF CancelOver, CancelReturns, OwnInv, ObjInv, CtlInv,
     CancelPCs, AfterRun
<1>18. CASE SuspendClear
  BY <1>18, <1>1, <1>2, <1>3 DEF CancelOver, CancelReturns, OwnInv, ObjInv, CtlInv,
     CancelPCs, SuspendClear
<1>19. CASE SuspendWait
  BY <1>19, <1>1, <1>2, <1>3 DEF CancelOver, CancelReturns, OwnInv, ObjInv, CtlInv,
     CancelPCs, SuspendWait
<1>20. CASE SuspendEnd
  BY <1>20, <1>1, <1>2, <1>3 DEF CancelOver, CancelReturns, OwnInv, ObjInv, CtlInv,
     CancelPCs, SuspendEnd
<1>21. CASE ExitLoop
  BY <1>21, <1>1, <1>2, <1>3 DEF CancelOver, CancelReturns, OwnInv, ObjInv, CtlInv,
     CancelPCs, ExitLoop, EndScheduling, EnterCancel, Started
<1>22. CASE DoCancel
  BY <1>22, <1>1, <1>2, <1>3 DEF CancelOver, CancelReturns, OwnInv, ObjInv, CtlInv,
     CancelPCs, DoCancel
<1>23. CASE CancelComplete
  BY <1>23, <1>1, <1>2, <1>3 DEF CancelOver, CancelReturns, OwnInv, ObjInv, CtlInv,
     CancelPCs, CancelComplete, Complete, CancelLeave, AfterLeave
<1>24. CASE CancelIsIn
  BY <1>24, <1>1, <1>2, <1>3 DEF CancelOver, CancelReturns, OwnInv, ObjInv, CtlInv,
     CancelPCs, CancelIsIn
<1>25. CASE CancelWait
  BY <1>25, <1>1, <1>2, <1>3 DEF CancelOver, CancelReturns, OwnInv, ObjInv, CtlInv,
     CancelPCs, CancelWait
<1>26. CASE CancelCheck
  BY <1>26, <1>1, <1>2, <1>3 DEF CancelOver, CancelReturns, OwnInv, ObjInv, CtlInv,
     CancelPCs, CancelCheck
<1>27. CASE CancelRestore
  BY <1>27, <1>1, <1>2, <1>3 DEF CancelOver, CancelReturns, OwnInv, ObjInv, CtlInv,
     CancelPCs, CancelRestore
<1>28. CASE CancelIdle
  BY <1>28, <1>1, <1>2, <1>3 DEF CancelOver, CancelReturns, OwnInv, ObjInv, CtlInv,
     CancelPCs, CancelIdle
<1>29. CASE CancelRemove
  BY <1>29, <1>1, <1>2, <1>3 DEF CancelOver, CancelReturns, OwnInv, ObjInv, CtlInv,
     CancelPCs, CancelRemove, CancelReturn
<1>30. CASE CancelSem
  BY <1>30, <1>1, <1>2, <1>3 DEF CancelOver, CancelReturns, OwnInv, ObjInv, CtlInv,
     CancelPCs, CancelSem, CancelReturn
<1>31. CASE CleanupTimer
  BY <1>31, <1>1, <1>2, <1>3 DEF CancelOver, CancelReturns, OwnInv, ObjInv, CtlInv,
     CancelPCs, CleanupTimer, EnterCancel
<1>32. CASE CleanupReady
  BY <1>32, <1>1, <1>2, <1>3 DEF CancelOver, CancelReturns, OwnInv, ObjInv, CtlInv,
     CancelPCs, CleanupReady, EnterCancel
<1>33. CASE CleanupDone
  BY <1>33, <1>1, <1>2, <1>3 DEF CancelOver, CancelReturns, OwnInv, ObjInv, CtlInv,
     CancelPCs, CleanupDone
<1>34. CASE StartScheduler
  BY <1>34, <1>1, <1>2, <1>3 DEF CancelOver, CancelReturns, OwnInv, ObjInv, CtlInv,
     CancelPCs, StartScheduler, BeginScheduling, Started
<1>35. CASE RunSchedulerNonBlocking
  BY <1>35, <1>1, <1>2, <1>3 DEF CancelOver, CancelReturns, OwnInv, ObjInv, CtlInv,
     CancelPCs, RunSchedulerNonBlocking, BeginScheduling, Started
<1>36. CASE CountReached
  BY <1>36, <1>1, <1>2, <1>3 DEF CancelOver, CancelReturns, OwnInv, ObjInv, CtlInv,
     CancelPCs, CountReached
<1>37. CASE RunReturn
  BY <1>37, <1>1, <1>2, <1>3 DEF CancelOver, CancelReturns, OwnInv, ObjInv, CtlInv,
     CancelPCs, RunReturn
<1>38. CASE RunLeave
  BY <1>38, <1>1, <1>2, <1>3 DEF CancelOver, CancelReturns, OwnInv, ObjInv, CtlInv,
     CancelPCs, RunLeave, AfterLeave
<1>39. CASE UninstallScheduler
  BY <1>39, <1>1, <1>2, <1>3 DEF CancelOver, CancelReturns, OwnInv, ObjInv, CtlInv,
     CancelPCs, UninstallScheduler, EndScheduling, EnterCancel, Started
<1>40. CASE RegisterForCallback
  BY <1>40, <1>1, <1>2, <1>3 DEF CancelOver, CancelReturns, OwnInv, ObjInv, CtlInv,
     CancelPCs, RegisterForCallback, UserCode
<1>41. ASSUME NEW a \in AO, PendForExec(a) PROVE CancelOver
  BY <1>41, <1>1, <1>2, <1>3 DEF CancelOver, CancelReturns, OwnInv, ObjInv, CtlInv,
     CancelPCs, PendForExec, UserCode, Activate
<1>42. ASSUME NEW a \in AO \cup Timer, RunIfNotReady(a) PROVE CancelOver
  BY <1>42, <1>1, <1>2, <1>3 DEF CancelOver, CancelReturns, OwnInv, ObjInv, CtlInv,
     CancelPCs, RunIfNotReady, UserCode, Activate, Complete
<1>43. ASSUME NEW a \in AO \cup Timer, Cancel(a) PROVE CancelOver
  BY <1>43, <1>1, <1>2, <1>3 DEF CancelOver, CancelReturns, OwnInv, ObjInv, CtlInv,
     CancelPCs, Cancel, UserCode, EnterCancel
<1>44. ASSUME NEW a \in AO \cup Timer, RemoveFromScheduler(a) PROVE CancelOver
  BY <1>44, <1>1, <1>2, <1>3 DEF CancelOver, CancelReturns, OwnInv, ObjInv, CtlInv,
     CancelPCs, RemoveFromScheduler, UserCode, EnterCancel
<1>45. ASSUME NEW a \in AO \cup Timer, AddToScheduler(a) PROVE CancelOver
  BY <1>45, <1>1, <1>2, <1>3 DEF CancelOver, CancelReturns, OwnInv, ObjInv, CtlInv,
     CancelPCs, AddToScheduler, UserCode
<1>46. ASSUME NEW t \in Timer, NEW d \in Delays, After(t, d) PROVE CancelOver
  BY <1>46, <1>1, <1>2, <1>3 DEF CancelOver, CancelReturns, OwnInv, ObjInv, CtlInv,
     CancelPCs, After, UserCode, Activate
<1>47. ASSUME NEW a \in AO, RemoteComplete(a) PROVE CancelOver
  BY <1>47, <1>1, <1>2, <1>3 DEF CancelOver, CancelReturns, OwnInv, ObjInv, CtlInv,
     CancelPCs, RemoteComplete, Complete, CanComplete
<1>48. ASSUME NEW t \in Control, StopCheck(t) PROVE CancelOver
  BY <1>48, <1>1, <1>2, <1>3 DEF CancelOver, CancelReturns, OwnInv, ObjInv, CtlInv,
     CancelPCs, StopCheck, Goto
<1>49. ASSUME NEW t \in Control, StopTestSuspend(t) PROVE CancelOver
  BY <1>49, <1>1, <1>2, <1>3 DEF CancelOver, CancelReturns, OwnInv, ObjInv, CtlInv,
     CancelPCs, StopTestSuspend, Goto
<1>50. ASSUME NEW t \in Control, SuspendCheck(t) PROVE CancelOver
  BY <1>50, <1>1, <1>2, <1>3 DEF CancelOver, CancelReturns, OwnInv, ObjInv, CtlInv,
     CancelPCs, SuspendCheck, Goto
<1>51. ASSUME NEW t \in Control, ResumeCheck(t) PROVE CancelOver
  BY <1>51, <1>1, <1>2, <1>3 DEF CancelOver, CancelReturns, OwnInv, ObjInv, CtlInv,
     CancelPCs, ResumeCheck, Goto
<1>52. ASSUME NEW t \in Control, SignalResume(t) PROVE CancelOver
  BY <1>52, <1>1, <1>2, <1>3 DEF CancelOver, CancelReturns, OwnInv, ObjInv, CtlInv,
     CancelPCs, SignalResume
<1>53. ASSUME NEW t \in Control, CompleteStopper(t) PROVE CancelOver
  BY <1>53, <1>1, <1>2, <1>3 DEF CancelOver, CancelReturns, OwnInv, ObjInv, CtlInv,
     CancelPCs, CompleteStopper, Complete, CanComplete
<1>54. CASE Tick
  BY <1>54, <1>1, <1>2, <1>3 DEF CancelOver, CancelReturns, OwnInv, ObjInv, CtlInv,
     CancelPCs, Tick
<1>55. CASE UNCHANGED vars
  BY <1>55, <1>1, <1>2, <1>3 DEF CancelOver, CancelReturns, OwnInv, ObjInv, CtlInv,
     CancelPCs
<1> QED
  BY <1>4, <1>5, <1>6, <1>7, <1>8, <1>9, <1>10, <1>11, <1>12, <1>13,
     <1>14, <1>15, <1>16, <1>17, <1>18, <1>19, <1>20, <1>21, <1>22,
     <1>23, <1>24, <1>25, <1>26, <1>27, <1>28, <1>29, <1>30, <1>31,
     <1>32, <1>33, <1>34, <1>35, <1>36, <1>37, <1>38, <1>39, <1>40,
     <1>41, <1>42, <1>43, <1>44, <1>45, <1>46, <1>47, <1>48, <1>49,
     <1>50, <1>51, <1>52, <1>53, <1>54, <1>55 DEF Next, LoopStep,
     CancelStep, UserStep, ControlStep

(***************************************************************************)
(* Cancel: "wait for the request to cancel, then set the request idle. The *)
(* AO will not run."  Whenever a Cancel returns, with the default DoCancel *)
(* or with the object's own, the request is idle and the object is in no   *)
(* queue, whatever other threads completed, stopped or suspended while     *)
(* Cancel ran; and the thread that the object's DoCancel waits for has     *)
(* completed the request.                                                  *)
(***************************************************************************)
THEOREM CancelCorrect == Spec => CancelEndsRequest
<1>1. IInv /\ OwnInv /\ [Next]_vars => [CancelOver]_vars
  BY OverStep
<1> QED
  BY <1>1, AlwaysIInv, AlwaysOwnInv, PTL
  DEF Spec, CancelEndsRequest, CancelOver

=============================================================================
