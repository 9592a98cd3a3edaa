---------------------------- MODULE ReconnectProofs ----------------------------
(***************************************************************************)
(* That the counters and the limits of the server are right, for any       *)
(* clients, windows and limits: the count of open connections is exact,    *)
(* and no window ever holds more connections or frames than it may.        *)
(***************************************************************************)
EXTENDS Reconnect, FiniteSetTheorems, SequenceTheorems, TLAPS

\* The j-th newest age in a window.
Newest(w, j) == w[Len(w) + 1 - j]

\* A window is in the order of time.
Window(w, length) ==
  /\ w \in Seq(0..length)
  /\ \A i, j \in 1..Len(w) : i < j => w[i] >= w[j]

\* What was let through (w) is among what was counted (v): the j-th newest of it is
\* not newer than the j-th newest there, or v has forgotten that one.
Behind(w, v, length) ==
  \A j \in 1..Len(w) :
    IF j <= Len(v) THEN Newest(w, j) >= Newest(v, j) ELSE Newest(w, j) >= length

Capped(w, length, max) == \A j \in 1..Len(w) : j > max => Newest(w, j) >= length

Limited(w, v, length, max) ==
  Window(w, length) /\ Window(v, length) /\ Behind(w, v, length) /\ Capped(w, length, max)

LimitsInv ==
  /\ Limited(admitted, hist, ConnWindow, ConnMax)
  /\ times \in [Clients -> Seq(0..MsgWindow)] /\ relayed \in [Clients -> Seq(0..MsgWindow)]
  /\ \A c \in Clients : Limited(relayed[c], times[c], MsgWindow, MsgMax)

\* What a client has of its own is well typed.
ClientTyped ==
  /\ at \in [Clients -> {"idle", "waiting", "hello", "joined", "ended"}]
  /\ wait \in [Clients -> 0..MaxBackoff] /\ backoff \in [Clients -> 1..MaxBackoff]
  /\ start \in [Clients -> {"none", "pending", "returned", "raised", "hung"}]

\* Ghosts come from faults, and admission keeps the count of open connections.
CountInv ==
  /\ conc \in 0..ConcMax /\ ghosts \in 0..faults /\ faults \in 0..MaxFaults
  /\ ConcExact

ReconnectInv == ClientTyped /\ CountInv /\ LimitsInv

-----------------------------------------------------------------------------
(* Windows. *)

LEMMA Numbers ==
  ASSUME NEW n \in Nat PROVE IsFiniteSet(1..n) /\ Cardinality(1..n) = n
BY FS_Interval

\* The ages of a window, counted from the newest.
LEMMA WindowAges ==
  ASSUME NEW length \in Nat, NEW w, Window(w, length)
  PROVE  /\ Len(w) \in Nat
         /\ \A j \in 1..Len(w) : Newest(w, j) \in Nat /\ Newest(w, j) <= length
         /\ \A i, j \in 1..Len(w) : i <= j => Newest(w, i) <= Newest(w, j)
<1>1. Len(w) \in Nat /\ \A k \in 1..Len(w) : w[k] \in Nat /\ w[k] <= length
  BY DEF Window
<1>2. \A j \in 1..Len(w) : Len(w) + 1 - j \in 1..Len(w)
  BY <1>1
<1>3. ASSUME NEW i \in 1..Len(w), NEW j \in 1..Len(w), i <= j
      PROVE  Newest(w, i) <= Newest(w, j)
  <2>1. CASE i = j
    BY <1>1, <1>2, <2>1 DEF Newest
  <2>2. CASE i < j
    <3>1. Len(w) + 1 - j < Len(w) + 1 - i
      BY <1>1, <2>2
    <3> QED
      BY <1>1, <1>2, <3>1 DEF Newest, Window
  <2> QED
    BY <1>1, <1>3, <2>1, <2>2
<1> QED
  BY <1>1, <1>2, <1>3 DEF Newest

\* The stale ages of a window are at its front.
LEMMA StaleFirst ==
  ASSUME NEW length \in Nat, NEW w, Window(w, length)
  PROVE  \E m \in 0..Len(w) :
           /\ \A k \in 1..Len(w) : k <= m <=> w[k] >= length
           /\ Within(w, length) = SubSeq(w, m + 1, Len(w))
<1> DEFINE S == {k \in DOMAIN w : w[k] >= length}
           m == Cardinality(S)
<1>1. /\ Len(w) \in Nat /\ DOMAIN w = 1..Len(w)
      /\ \A k \in 1..Len(w) : w[k] \in 0..length
  BY DEF Window
<1>2. IsFiniteSet(1..Len(w)) /\ Cardinality(1..Len(w)) = Len(w)
  BY <1>1, Numbers
<1>3. S \in SUBSET (1..Len(w))
  BY <1>1
<1>4. IsFiniteSet(S) /\ m \in Nat /\ m <= Len(w)
  BY <1>2, <1>3, FS_Subset, FS_CardinalityType
<1>5. ASSUME NEW k \in S PROVE k <= m
  <2>1. 1..k \in SUBSET S
    BY <1>1, <1>3, <1>5 DEF Window
  <2>2. k \in Nat /\ Cardinality(1..k) = k
    BY <1>1, <1>3, <1>5, Numbers
  <2> HIDE DEF S
  <2>3. Cardinality(1..k) <= Cardinality(S)
    BY <1>4, <2>1, FS_Subset
  <2> QED
    BY <2>2, <2>3
<1>6. S = 1..m
  <2>1. S \in SUBSET (1..m)
    BY <1>1, <1>3, <1>4, <1>5
  <2>2. IsFiniteSet(1..m) /\ Cardinality(1..m) = m
    BY <1>4, Numbers
  <2> HIDE DEF S
  <2> QED
    BY <2>1, <2>2, FS_Subset
<1>7. Within(w, length) = SubSeq(w, m + 1, Len(w))
  BY DEF Within
<1>8. \A k \in 1..Len(w) : k <= m <=> w[k] >= length
  BY <1>1, <1>4, <1>6
<1> HIDE DEF m
<1> QED
  BY <1>4, <1>7, <1>8

\* Counting keeps the fresh ages, in order, and adds a new one.
LEMMA Counted ==
  ASSUME NEW length \in Nat \ {0}, NEW w, Window(w, length)
  PROVE  LET v == Count(w, length)
         IN /\ Window(v, length) /\ Len(v) \in Nat /\ Len(v) >= 1 /\ Newest(v, 1) = 0
            /\ \A j \in Nat \ {0} :
                 /\ j + 1 <= Len(v) <=> j <= Len(w) /\ Newest(w, j) < length
                 /\ j + 1 <= Len(v) => Newest(v, j + 1) = Newest(w, j)
<1> DEFINE u == Within(w, length)
           v == Count(w, length)
<1>1. PICK m \in 0..Len(w) :
        /\ \A k \in 1..Len(w) : k <= m <=> w[k] >= length
        /\ u = SubSeq(w, m + 1, Len(w))
  BY StaleFirst
<1>2. Len(w) \in Nat /\ w \in Seq(0..length) /\ \A k \in 1..Len(w) : w[k] \in 0..length
  BY DEF Window
<1>3. /\ u \in Seq(0..length) /\ Len(u) = Len(w) - m
      /\ \A i \in 1..Len(u) : u[i] = w[m + i]
  <2>1. \A i \in (m + 1)..Len(w) : w[i] \in 0..length
    BY <1>1, <1>2
  <2>2. /\ u \in Seq(0..length)
        /\ Len(u) = IF m + 1 <= Len(w) THEN Len(w) - (m + 1) + 1 ELSE 0
        /\ \A i \in 1..Len(w) - (m + 1) + 1 : u[i] = w[m + 1 + i - 1]
    BY <1>1, <1>2, <2>1, SubSeqProperties
  <2> QED
    BY <1>1, <1>2, <2>2
<1> HIDE DEF u
<1>4. /\ v \in Seq(0..length) /\ Len(v) = Len(u) + 1
      /\ \A i \in 1..Len(u) : v[i] = u[i]
      /\ v[Len(u) + 1] = 0
  <2>1. v = Append(u, 0)
    BY DEF u, Count
  <2>2. u \in Seq(0..length) /\ 0 \in 0..length
    BY <1>3
  <2> HIDE DEF v
  <2>3. /\ Append(u, 0) \in Seq(0..length) /\ Len(Append(u, 0)) = Len(u) + 1
        /\ \A i \in 1..Len(u) : Append(u, 0)[i] = u[i]
        /\ Append(u, 0)[Len(u) + 1] = 0
    BY <2>2, AppendProperties
  <2> QED
    BY <2>1, <2>3
<1> HIDE DEF v
<1>5. Window(v, length)
  <2> SUFFICES ASSUME NEW i \in 1..Len(v), NEW j \in 1..Len(v), i < j PROVE v[i] >= v[j]
    BY <1>4 DEF Window
  <2>1. \A k \in 1..Len(u) : v[k] = w[m + k] /\ m + k \in 1..Len(w) /\ w[m + k] \in Nat
    <3>1. \A k \in 1..Len(u) : m + k \in 1..Len(w)
      BY <1>1, <1>2, <1>3
    <3>2. \A k \in 1..Len(w) : w[k] \in Nat
      BY <1>2
    <3> QED
      BY <1>3, <1>4, <3>1, <3>2
  <2>2. Len(u) \in Nat /\ i \in 1..Len(u) /\ j \in 1..(Len(u) + 1)
    BY <1>3, <1>4
  <2>3. CASE j = Len(u) + 1
    BY <1>4, <2>1, <2>2, <2>3
  <2>4. CASE j # Len(u) + 1
    <3>1. j \in 1..Len(u)
      BY <2>2, <2>4
    <3>2. m + i < m + j
      BY <1>1, <1>2, <2>2
    <3> QED
      BY <2>1, <2>2, <3>1, <3>2 DEF Window
  <2> QED
    BY <2>3, <2>4
<1>6. ASSUME NEW j \in Nat \ {0}
      PROVE  /\ j + 1 <= Len(v) <=> j <= Len(w) /\ Newest(w, j) < length
             /\ j + 1 <= Len(v) => Newest(v, j + 1) = Newest(w, j)
  <2>1. CASE j <= Len(w)
    <3>1. Len(w) + 1 - j \in 1..Len(w) /\ w[Len(w) + 1 - j] \in 0..length
      BY <1>2, <2>1
    <3>2. Newest(w, j) < length <=> Len(w) + 1 - j > m
      BY <1>1, <1>2, <3>1 DEF Newest
    <3>3. Newest(w, j) < length <=> j + 1 <= Len(v)
      BY <1>1, <1>2, <1>3, <1>4, <3>2
    <3>4. ASSUME j + 1 <= Len(v) PROVE Newest(v, j + 1) = Newest(w, j)
      <4>1. Len(v) + 1 - (j + 1) \in 1..Len(u)
        BY <1>1, <1>2, <1>3, <1>4, <3>4
      <4>2. v[Len(v) + 1 - (j + 1)] = w[m + (Len(v) + 1 - (j + 1))]
        BY <1>3, <1>4, <4>1
      <4>3. m + (Len(v) + 1 - (j + 1)) = Len(w) + 1 - j
        BY <1>1, <1>2, <1>3, <1>4
      <4> QED
        BY <4>2, <4>3 DEF Newest
    <3> QED
      BY <2>1, <3>3, <3>4
  <2>2. CASE j > Len(w)
    BY <1>1, <1>2, <1>3, <1>4, <2>2
  <2> QED
    BY <1>2, <2>1, <2>2
<1>7. Len(v) \in Nat /\ Len(v) >= 1 /\ Newest(v, 1) = 0
  BY <1>1, <1>2, <1>3, <1>4 DEF Newest
<1> QED
  BY <1>5, <1>6, <1>7 DEF v

\* Time keeps a window in order.
LEMMA Aged ==
  ASSUME NEW length \in Nat, NEW w, Window(w, length)
  PROVE  LET v == Older(w, length)
         IN /\ Window(v, length) /\ Len(v) = Len(w)
            /\ \A j \in 1..Len(w) :
                 Newest(v, j) = IF Newest(w, j) < length THEN Newest(w, j) + 1 ELSE length
<1> DEFINE v == Older(w, length)
<1>1. /\ Len(w) \in Nat /\ DOMAIN w = 1..Len(w)
      /\ \A k \in 1..Len(w) : w[k] \in 0..length
  BY DEF Window
<1>2. v = [k \in 1..Len(w) |-> IF w[k] < length THEN w[k] + 1 ELSE length]
  BY <1>1 DEF Older
<1>3. \A k \in 1..Len(w) : (IF w[k] < length THEN w[k] + 1 ELSE length) \in 0..length
  BY <1>1
<1>4. v \in Seq(0..length)
  BY <1>1, <1>2, <1>3, IsASeq
<1>5. Len(v) = Len(w)
  BY <1>1, <1>2, <1>4, LenProperties
<1> HIDE DEF v
<1>6. Window(v, length)
  BY <1>1, <1>2, <1>4, <1>5 DEF Window
<1>7. \A j \in 1..Len(w) : Len(w) + 1 - j \in 1..Len(w)
  BY <1>1
<1> QED
  BY <1>2, <1>5, <1>6, <1>7 DEF v, Newest

-----------------------------------------------------------------------------
(* Limits. *)

\* Something is counted, but not let through.
LEMMA DroppedLimited ==
  ASSUME NEW length \in Nat \ {0}, NEW max \in Nat, NEW w, NEW v, Limited(w, v, length, max)
  PROVE  Limited(w, Count(v, length), length, max)
<1> DEFINE n == Count(v, length)
<1>1. /\ Window(n, length) /\ Len(n) \in Nat /\ Len(n) >= 1 /\ Newest(n, 1) = 0
      /\ \A j \in Nat \ {0} :
           /\ j + 1 <= Len(n) <=> j <= Len(v) /\ Newest(v, j) < length
           /\ j + 1 <= Len(n) => Newest(n, j + 1) = Newest(v, j)
  BY Counted DEF Limited
<1> HIDE DEF n
<1>2. /\ Len(w) \in Nat /\ \A j \in 1..Len(w) : Newest(w, j) \in Nat /\ Newest(w, j) <= length
      /\ Len(v) \in Nat /\ \A j \in 1..Len(v) : Newest(v, j) \in Nat /\ Newest(v, j) <= length
  BY WindowAges DEF Limited
<1>3. ASSUME NEW j \in 1..Len(w)
      PROVE  IF j <= Len(n) THEN Newest(w, j) >= Newest(n, j) ELSE Newest(w, j) >= length
  <2>1. CASE j = 1
    BY <1>1, <1>2, <2>1
  <2>2. CASE j # 1
    <3>1. PICK i \in Nat \ {0} : i \in 1..Len(w) /\ j = i + 1
      BY <1>2, <2>2
    <3>2. Newest(w, i) <= Newest(w, j)
      BY <3>1, WindowAges DEF Limited
    <3>3. IF i <= Len(v) THEN Newest(w, i) >= Newest(v, i) ELSE Newest(w, i) >= length
      BY <3>1 DEF Limited, Behind
    <3>4. CASE i + 1 <= Len(n)
      <4>1. i \in 1..Len(v) /\ Newest(n, j) = Newest(v, i)
        BY <1>1, <1>2, <3>1, <3>4
      <4> QED
        BY <1>2, <3>1, <3>2, <3>3, <3>4, <4>1
    <3>5. CASE ~(i + 1 <= Len(n))
      <4>1. CASE i <= Len(v)
        <5>1. i \in 1..Len(v) /\ Newest(v, i) \in Nat /\ ~(Newest(v, i) < length)
          BY <1>1, <1>2, <3>1, <3>5, <4>1
        <5> QED
          BY <1>2, <3>1, <3>2, <3>3, <3>5, <4>1, <5>1
      <4>2. CASE ~(i <= Len(v))
        BY <1>2, <3>1, <3>2, <3>3, <3>5, <4>2
      <4> QED
        BY <4>1, <4>2
    <3> QED
      BY <3>4, <3>5
  <2> QED
    BY <2>1, <2>2
<1> QED
  BY <1>1, <1>3 DEF n, Limited, Behind

\* Something is counted and let through: the limit allows it.
LEMMA PassedLimited ==
  ASSUME NEW length \in Nat \ {0}, NEW max \in Nat, NEW w, NEW v, Limited(w, v, length, max),
         Len(Count(v, length)) <= max
  PROVE  Limited(Count(w, length), Count(v, length), length, max)
<1> DEFINE n == Count(v, length)
           o == Count(w, length)
<1>1. /\ Window(n, length) /\ Len(n) \in Nat /\ Len(n) >= 1 /\ Newest(n, 1) = 0
      /\ \A j \in Nat \ {0} :
           /\ j + 1 <= Len(n) <=> j <= Len(v) /\ Newest(v, j) < length
           /\ j + 1 <= Len(n) => Newest(n, j + 1) = Newest(v, j)
  BY Counted DEF Limited
<1>2. /\ Window(o, length) /\ Len(o) \in Nat /\ Len(o) >= 1 /\ Newest(o, 1) = 0
      /\ \A j \in Nat \ {0} :
           /\ j + 1 <= Len(o) <=> j <= Len(w) /\ Newest(w, j) < length
           /\ j + 1 <= Len(o) => Newest(o, j + 1) = Newest(w, j)
  BY Counted DEF Limited
<1> HIDE DEF n, o
<1>3. /\ Len(w) \in Nat /\ \A j \in 1..Len(w) : Newest(w, j) \in Nat /\ Newest(w, j) <= length
      /\ Len(v) \in Nat /\ \A j \in 1..Len(v) : Newest(v, j) \in Nat /\ Newest(v, j) <= length
  BY WindowAges DEF Limited
<1>4. ASSUME NEW j \in 1..Len(o)
      PROVE  j <= Len(n) /\ Newest(o, j) >= Newest(n, j)
  <2>1. CASE j = 1
    BY <1>1, <1>2, <2>1
  <2>2. CASE j # 1
    <3>1. PICK i \in Nat \ {0} : j = i + 1
      BY <1>2, <2>2
    <3>2. i + 1 <= Len(o)
      BY <1>2, <3>1
    <3>3. i <= Len(w) /\ Newest(w, i) < length /\ Newest(o, i + 1) = Newest(w, i)
      BY <1>2, <3>2
    <3>4. i \in 1..Len(w) /\ Newest(w, i) < length /\ Newest(o, j) = Newest(w, i)
      BY <1>3, <3>1, <3>3
    <3>5. IF i <= Len(v) THEN Newest(w, i) >= Newest(v, i) ELSE Newest(w, i) >= length
      BY <3>4 DEF Limited, Behind
    <3>6. i \in 1..Len(v) /\ Newest(v, i) <= Newest(w, i)
      BY <1>3, <3>4, <3>5
    <3>7. Newest(v, i) < length
      BY <1>3, <3>4, <3>6
    <3>8. i + 1 <= Len(n) /\ Newest(n, i + 1) = Newest(v, i)
      BY <1>1, <3>6, <3>7
    <3> QED
      BY <1>3, <3>1, <3>4, <3>6, <3>8, <3>4, <3>5
  <2> QED
    BY <2>1, <2>2
<1>5. Len(n) <= max
  BY DEF n
<1>6. Behind(o, n, length)
  BY <1>4 DEF Behind
<1>7. Capped(o, length, max)
  BY <1>1, <1>2, <1>4, <1>5 DEF Capped
<1> QED
  BY <1>1, <1>2, <1>6, <1>7 DEF n, o, Limited

\* Time passes for both.
LEMMA AgedLimited ==
  ASSUME NEW length \in Nat, NEW max \in Nat, NEW w, NEW v, Limited(w, v, length, max)
  PROVE  Limited(Older(w, length), Older(v, length), length, max)
<1> DEFINE n == Older(v, length)
           o == Older(w, length)
<1>1. /\ Window(n, length) /\ Len(n) = Len(v)
      /\ \A j \in 1..Len(v) :
           Newest(n, j) = IF Newest(v, j) < length THEN Newest(v, j) + 1 ELSE length
  BY Aged DEF Limited
<1>2. /\ Window(o, length) /\ Len(o) = Len(w)
      /\ \A j \in 1..Len(w) :
           Newest(o, j) = IF Newest(w, j) < length THEN Newest(w, j) + 1 ELSE length
  BY Aged DEF Limited
<1> HIDE DEF n, o
<1>3. /\ Len(w) \in Nat /\ \A j \in 1..Len(w) : Newest(w, j) \in Nat /\ Newest(w, j) <= length
      /\ Len(v) \in Nat /\ \A j \in 1..Len(v) : Newest(v, j) \in Nat /\ Newest(v, j) <= length
  BY WindowAges DEF Limited
<1>4. Behind(o, n, length)
  BY <1>1, <1>2, <1>3 DEF Limited, Behind
<1>5. Capped(o, length, max)
  BY <1>2, <1>3 DEF Limited, Capped
<1> QED
  BY <1>1, <1>2, <1>4, <1>5 DEF n, o, Limited

\* A window that is capped holds no more than its limit.
LEMMA CappedWithin ==
  ASSUME NEW length \in Nat, NEW max \in Nat, NEW w, Window(w, length), Capped(w, length, max)
  PROVE  Len(Within(w, length)) <= max
<1>1. PICK m \in 0..Len(w) :
        /\ \A k \in 1..Len(w) : k <= m <=> w[k] >= length
        /\ Within(w, length) = SubSeq(w, m + 1, Len(w))
  BY StaleFirst
<1>2. Len(w) \in Nat /\ \A k \in 1..Len(w) : w[k] \in 0..length
  BY DEF Window
<1>3. Len(w) - m <= max
  <2> SUFFICES ASSUME Len(w) - m > max PROVE FALSE
    BY <1>1, <1>2
  <2>1. Len(w) - m \in 1..Len(w) /\ Len(w) + 1 - (Len(w) - m) = m + 1 /\ m + 1 \in 1..Len(w)
    BY <1>1, <1>2
  <2>2. w[m + 1] >= length
    BY <2>1 DEF Capped, Newest
  <2> QED
    BY <1>1, <2>1, <2>2
<1>4. Len(SubSeq(w, m + 1, Len(w))) = IF m + 1 <= Len(w) THEN Len(w) - (m + 1) + 1 ELSE 0
  BY <1>1, <1>2, SubSeqProperties
<1> QED
  BY <1>1, <1>2, <1>3, <1>4

-----------------------------------------------------------------------------
(* The steps. *)

LEMMA Constants ==
  /\ IsFiniteSet(Clients) /\ Talkers \subseteq Clients
  /\ ConnMax \in Nat /\ ConcMax \in Nat /\ MsgMax \in Nat /\ MaxFaults \in Nat
  /\ ConnWindow \in Nat \ {0} /\ MsgWindow \in Nat \ {0} /\ MaxBackoff \in Nat \ {0}
BY ReconnectAssumption

LEMMA ClientsInit == Init => ClientTyped
BY Constants DEF Init, ClientTyped

\* A client that loses its socket.
LEMMA LoseTyped ==
  ASSUME ClientTyped, NEW S \in SUBSET Clients, Lose(S)
  PROVE  /\ at' \in [Clients -> {"idle", "waiting", "hello", "joined", "ended"}]
         /\ wait' \in [Clients -> 0..MaxBackoff] /\ backoff' \in [Clients -> 1..MaxBackoff]
         /\ Served' = Served \ S
<1>1. \A c \in Clients : backoff[c] \in 0..MaxBackoff /\ Double(backoff[c]) \in 1..MaxBackoff
  BY Constants DEF ClientTyped, Double
<1>2. wait' \in [Clients -> 0..MaxBackoff] /\ backoff' \in [Clients -> 1..MaxBackoff]
  BY <1>1 DEF Lose, ClientTyped
<1>3. at' \in [Clients -> {"idle", "waiting", "hello", "joined", "ended"}] /\ Served' = Served \ S
  BY DEF Lose, ClientTyped, Served
<1> QED
  BY <1>2, <1>3

LEMMA StartsEndTyped ==
  ASSUME ClientTyped, NEW S, NEW error, StartsEnd(S, error)
  PROVE  start' \in [Clients -> {"none", "pending", "returned", "raised", "hung"}]
BY DEF ClientTyped, StartsEnd

LEMMA ClientsKeep == ClientTyped /\ [Next]_vars => ClientTyped'
<1> SUFFICES ASSUME ClientTyped, [Next]_vars PROVE ClientTyped'
  OBVIOUS
<1>1. ASSUME NEW c \in Clients, Start(c) PROVE ClientTyped'
  BY <1>1 DEF Start, ClientTyped
<1>2. ASSUME NEW c \in Clients, Admit(c) PROVE ClientTyped'
  BY <1>2 DEF Admit, ClientTyped
<1>3. ASSUME NEW c \in Clients, Refuse(c) \/ Unreachable(c) \/ Drop(c) PROVE ClientTyped'
  <2>1. Lose({c}) /\ \E error \in BOOLEAN : StartsEnd({c}, error)
    BY <1>3 DEF Refuse, Unreachable, Drop
  <2> QED
    BY <2>1, LoseTyped, StartsEndTyped DEF ClientTyped
<1>4. ASSUME NEW c \in Clients, SendsEarly(c) PROVE ClientTyped'
  BY <1>4, LoseTyped DEF SendsEarly, ClientTyped
<1>5. ASSUME NEW c \in Clients, Join(c) PROVE ClientTyped'
  <2>1. \A d \in Clients : backoff[d] \in 0..MaxBackoff /\ Double(backoff[d]) \in 1..MaxBackoff
                           /\ 1 \in 1..MaxBackoff
    BY Constants DEF ClientTyped, Double
  <2>2. wait' \in [Clients -> 0..MaxBackoff] /\ backoff' \in [Clients -> 1..MaxBackoff]
    BY <1>5, <2>1 DEF Join, ClientTyped
  <2>3. at' \in [Clients -> {"idle", "waiting", "hello", "joined", "ended"}]
    BY <1>5 DEF Join, ClientTyped
  <2>4. start' \in [Clients -> {"none", "pending", "returned", "raised", "hung"}]
    BY <1>5 DEF Join, ClientTyped
  <2> QED
    BY <2>2, <2>3, <2>4 DEF ClientTyped
<1>6. CASE Tick
  <2>1. \A c \in Clients : (IF wait[c] = 0 THEN 0 ELSE wait[c] - 1) \in 0..MaxBackoff
    BY Constants DEF ClientTyped
  <2> QED
    BY <1>6, <2>1 DEF Tick, ClientTyped
<1>7. CASE GhostEnds \/ (\E c \in Clients : Send(c)) \/ UNCHANGED vars
  BY <1>7 DEF GhostEnds, Send, client, vars, ClientTyped
<1> QED
  BY <1>1, <1>2, <1>3, <1>4, <1>5, <1>6, <1>7 DEF Next, Dials

-----------------------------------------------------------------------------
(* The count of open connections. *)

LEMMA ServedFinite == IsFiniteSet(Served) /\ Cardinality(Served) \in Nat
BY Constants, FS_Subset, FS_CardinalityType DEF Served

LEMMA CountInit == Init => CountInv
<1> SUFFICES ASSUME Init PROVE CountInv
  OBVIOUS
<1>1. Served = {}
  BY DEF Init, Served
<1> QED
  BY <1>1, Constants, FS_EmptySet DEF Init, CountInv, ConcExact

LEMMA CountKeeps == ClientTyped /\ CountInv /\ [Next]_vars => CountInv'
<1> SUFFICES ASSUME ClientTyped, CountInv, [Next]_vars PROVE CountInv'
  OBVIOUS
<1> USE ServedFinite, Constants
<1>1. ASSUME Served' = Served, UNCHANGED <<conc, ghosts>>, faults' = faults \/ Fault
      PROVE  CountInv'
  BY <1>1 DEF CountInv, ConcExact, Fault
<1>2. ASSUME NEW c \in Served, Served' = Served \ {c} 
      PROVE  Cardinality(Served') = Cardinality(Served) - 1 /\ Cardinality(Served) - 1 \in Nat
  <2>1. IsFiniteSet(Served \ {c}) /\ Cardinality(Served \ {c}) = Cardinality(Served) - 1
    BY FS_RemoveElement
  <2>2. Cardinality(Served \ {c}) \in Nat
    BY <2>1, FS_CardinalityType
  <2> QED
    BY <1>2, <2>1, <2>2
<1>3. ASSUME NEW c \in Clients, Start(c) \/ Send(c) PROVE CountInv'
  <2>1. Served' = Served
    BY <1>3 DEF Start, Send, client, Served, ClientTyped
  <2> QED
    BY <1>1, <1>3, <2>1 DEF Start, Send
<1>4. ASSUME NEW c \in Clients, Refuse(c) \/ Unreachable(c) PROVE CountInv'
  <2>1. Served' = Served \ {c} /\ c \notin Served
    BY <1>4, LoseTyped DEF Refuse, Unreachable, Due, Served
  <2> QED
    BY <1>1, <1>4, <2>1 DEF Refuse, Unreachable
<1>5. ASSUME NEW c \in Clients, SendsEarly(c) PROVE CountInv'
  <2>1. Served' = Served \ {c} /\ c \in Served
    BY <1>5, LoseTyped DEF SendsEarly, Served
  <2>2. Cardinality(Served') = Cardinality(Served) - 1 /\ Cardinality(Served) - 1 \in Nat
    BY <1>2, <2>1
  <2> QED
    BY <1>5, <2>2 DEF SendsEarly, Fault, CountInv, ConcExact
<1>6. ASSUME NEW c \in Clients, Drop(c) PROVE CountInv'
  <2>1. Served' = Served \ {c} /\ c \in Served
    BY <1>6, LoseTyped DEF Drop
  <2>2. Cardinality(Served') = Cardinality(Served) - 1
    BY <1>2, <2>1
  <2> QED
    BY <1>6, <2>2 DEF Drop, Fault, CountInv, ConcExact
<1>7. ASSUME NEW c \in Clients, Admit(c) PROVE CountInv'
  <2>1. Served' = Served \cup {c} /\ c \notin Served
    BY <1>7 DEF Admit, Due, Served, ClientTyped
  <2>2. Cardinality(Served') = Cardinality(Served) + 1
    BY <2>1, FS_AddElement
  <2> QED
    BY <1>7, <2>2 DEF Admit, Allowed, CountInv, ConcExact
<1>8. ASSUME NEW c \in Clients, Join(c) PROVE CountInv'
  <2> DEFINE others == {d \in Clients \ {c} : at[d] = "joined" /\ IdOf[d] = IdOf[c]}
  <2>1. Served' = Served \ others /\ others \in SUBSET Served
    BY <1>8 DEF Join, Served, ClientTyped
  <2>2. conc' = conc - Cardinality(others) /\ UNCHANGED <<ghosts, faults>>
    BY <1>8 DEF Join
  <2> HIDE DEF others
  <2>3. /\ Cardinality(others) \in Nat /\ Cardinality(others) <= Cardinality(Served)
        /\ Cardinality(Served') = Cardinality(Served) - Cardinality(others)
    <3>1. IsFiniteSet(others) /\ Cardinality(others) <= Cardinality(Served)
      BY <2>1, FS_Subset
    <3>2. Served \cap others = others
      BY <2>1
    <3> QED
      BY <2>1, <3>1, <3>2, FS_CardinalityType, FS_Difference
  <2> QED
    BY <2>2, <2>3 DEF CountInv, ConcExact
<1>9. CASE GhostEnds
  <2>1. Served' = Served
    BY <1>9 DEF GhostEnds, client, Served
  <2> QED
    BY <1>9, <2>1 DEF GhostEnds, CountInv, ConcExact
<1>10. CASE Tick \/ UNCHANGED vars
  <2>1. Served' = Served
    BY <1>10 DEF Tick, vars, Served
  <2> QED
    BY <1>1, <1>10, <2>1 DEF Tick, vars
<1> QED
  BY <1>3, <1>4, <1>5, <1>6, <1>7, <1>8, <1>9, <1>10 DEF Next, Dials

-----------------------------------------------------------------------------
(* The limits. *)

LEMMA EmptyLimited ==
  ASSUME NEW length \in Nat, NEW max \in Nat
  PROVE  Limited(<<>>, <<>>, length, max)
BY DEF Limited, Window, Behind, Capped

LEMMA LimitsInit == Init => LimitsInv
BY EmptyLimited, Constants DEF Init, LimitsInv

LEMMA LimitsKeep == LimitsInv /\ [Next]_vars => LimitsInv'
<1> SUFFICES ASSUME LimitsInv, [Next]_vars PROVE LimitsInv'
  OBVIOUS
<1> USE Constants
<1>1. ASSUME NEW c \in Clients, Admit(c) PROVE LimitsInv'
  <2>1. Len(Count(hist, ConnWindow)) <= ConnMax
    BY <1>1 DEF Admit, Allowed
  <2> QED
    BY <1>1, <2>1, PassedLimited DEF Admit, frames, LimitsInv
<1>2. ASSUME NEW c \in Clients, Refuse(c) PROVE LimitsInv'
  BY <1>2, DroppedLimited DEF Refuse, frames, LimitsInv
<1>3. ASSUME NEW c \in Clients, Send(c) PROVE LimitsInv'
  <2> DEFINE counted == Count(times[c], MsgWindow)
             passed == Count(relayed[c], MsgWindow)
  <2>1. /\ times' = [times EXCEPT ![c] = counted] /\ UNCHANGED <<hist, admitted>>
        /\ relayed' = IF Len(counted) <= MsgMax THEN [relayed EXCEPT ![c] = passed] ELSE relayed
    BY <1>3 DEF Send, Passes
  <2>2. Limited(relayed[c], times[c], MsgWindow, MsgMax)
    BY DEF LimitsInv
  <2>3. Limited(relayed[c], counted, MsgWindow, MsgMax)
    BY <2>2, DroppedLimited
  <2>4. Len(counted) <= MsgMax => Limited(passed, counted, MsgWindow, MsgMax)
    BY <2>2, PassedLimited
  <2> HIDE DEF counted, passed
  <2>5. counted \in Seq(0..MsgWindow) /\ (Len(counted) <= MsgMax => passed \in Seq(0..MsgWindow))
    BY <2>3, <2>4 DEF Limited, Window
  <2> QED
    BY <2>1, <2>3, <2>4, <2>5 DEF LimitsInv
<1>4. ASSUME NEW c \in Clients, Join(c) PROVE LimitsInv'
  <2>1. Limited(<<>>, <<>>, MsgWindow, MsgMax) /\ <<>> \in Seq(0..MsgWindow)
    BY EmptyLimited
  <2>2. /\ times' = [times EXCEPT ![c] = <<>>] /\ relayed' = [relayed EXCEPT ![c] = <<>>]
        /\ UNCHANGED <<hist, admitted>>
    BY <1>4 DEF Join
  <2> QED
    BY <2>1, <2>2 DEF LimitsInv
<1>5. CASE Tick
  <2>1. Limited(admitted', hist', ConnWindow, ConnMax)
    BY <1>5, AgedLimited DEF Tick, LimitsInv
  <2>2. \A c \in Clients :
          Limited(Older(relayed[c], MsgWindow), Older(times[c], MsgWindow), MsgWindow, MsgMax)
    BY AgedLimited DEF LimitsInv
  <2>3. \A c \in Clients :
          Older(relayed[c], MsgWindow) \in Seq(0..MsgWindow) /\ Older(times[c], MsgWindow) \in Seq(0..MsgWindow)
    BY <2>2 DEF Limited, Window
  <2>4. /\ times' = [c \in Clients |-> Older(times[c], MsgWindow)]
        /\ relayed' = [c \in Clients |-> Older(relayed[c], MsgWindow)]
    BY <1>5 DEF Tick
  <2> QED
    BY <2>1, <2>2, <2>3, <2>4 DEF LimitsInv
<1>6. ASSUME UNCHANGED <<hist, frames, admitted>> PROVE LimitsInv'
  BY <1>6 DEF frames, LimitsInv
<1>7. CASE GhostEnds \/ UNCHANGED vars
  BY <1>6, <1>7 DEF GhostEnds, vars, frames
<1>8. ASSUME NEW c \in Clients, Start(c) \/ Unreachable(c) \/ SendsEarly(c) \/ Drop(c)
      PROVE  LimitsInv'
  BY <1>6, <1>8 DEF Start, Unreachable, SendsEarly, Drop
<1> QED
  BY <1>1, <1>2, <1>3, <1>4, <1>5, <1>7, <1>8 DEF Next, Dials

-----------------------------------------------------------------------------
(* The theorems. *)

\* The inductive invariant: counts are exact, and what is let through is always
\* among what is counted, from the newest on.
THEOREM ReconnectInvariant == Spec => []ReconnectInv
<1>1. Init => ReconnectInv
  BY ClientsInit, CountInit, LimitsInit DEF ReconnectInv
<1>2. ReconnectInv /\ [Next]_vars => ReconnectInv'
  BY ClientsKeep, CountKeeps, LimitsKeep DEF ReconnectInv
<1> QED
  BY <1>1, <1>2, PTL DEF Spec

\* The counter of open connections is exact, whichever way handlers end, so no
\* address is shut out by connections it no longer has.
THEOREM CountExact == Spec => []ConcExact
<1>1. ReconnectInv => ConcExact
  BY DEF ReconnectInv, CountInv
<1> QED
  BY <1>1, ReconnectInvariant, PTL

\* The two limits of the server hold over every window, however attempts and
\* frames are spread over time.
THEOREM LimitsAlwaysHold == Spec => []LimitsHold
<1>1. ReconnectInv => TypeOK
  <2> SUFFICES ASSUME ReconnectInv PROVE TypeOK
    OBVIOUS
  <2>1. hist \in Seq(0..ConnWindow) /\ admitted \in Seq(0..ConnWindow)
    BY DEF ReconnectInv, LimitsInv, Limited, Window
  <2>2. ghosts \in 0..MaxFaults
    BY Constants DEF ReconnectInv, CountInv
  <2> QED
    BY <2>1, <2>2 DEF TypeOK, ReconnectInv, ClientTyped, CountInv, LimitsInv
<1>2. ReconnectInv => ConnCapped /\ RelayCapped
  BY Constants, CappedWithin DEF ReconnectInv, LimitsInv, Limited, ConnCapped, RelayCapped
<1> QED
  BY <1>1, <1>2, ReconnectInvariant, PTL DEF LimitsHold
=============================================================================
