-------------------------- MODULE DashboardProofs ---------------------------
(***************************************************************************)
(* Theorems about what is shown and told, and about the suite that puts it *)
(* together: ChatLimiter, DisclosureViews, LivePrices, PushBody and        *)
(* MCDashboard, for any limits, holdings, prices and texts.                *)
(***************************************************************************)
EXTENDS DataLemmas, SequenceTheorems, RefreshProofs, ReportProofs, MCDashboard

-----------------------------------------------------------------------------
(***************************************************************************)
(* The chat's limit.                                                       *)
(***************************************************************************)

USE ChatAssumption

\* How many of the requests let through are no longer in a queue.
Dropped(q) == Len(allowed) - Len(q)

\* The latest the wall clock can show, and could at each request let through.
High == moment + leapt
HighAt == [i \in DOMAIN allowed |-> allowed[i].at + allowed[i].leapt]

CallTypes == allowed \in Seq([at : Nat, leapt : Nat])

LimitTypes(q) ==
    /\ moment \in Nat /\ leapt \in Nat /\ wall \in Int
    /\ q \in Seq(Int) /\ CallTypes /\ Len(q) <= Len(allowed)

InTime ==
    \A i \in DOMAIN allowed :
        /\ HighAt[i] <= High
        /\ \A j \in DOMAIN allowed : i <= j => HighAt[i] <= HighAt[j]

\* The queue has the latest requests, and its stamps make one look older than it is
\* by no more than the clock has been set forward since.
Queued(q) ==
    \A i \in 1 .. Len(q) : wall - q[i] <= High - HighAt[Dropped(q) + i]

\* A request that is out of the queue is out of the window.
OutOfWindow(q) == \A i \in 1 .. Dropped(q) : High - HighAt[i] > RateWindow

\* RateMax requests on, the window is over.
Spaced ==
    \A i \in DOMAIN allowed :
        i + RateMax <= Len(allowed) => HighAt[i + RateMax] > HighAt[i] + RateWindow

\* The inductive invariant of the limit holds of the queue, pruned or not.
Limits(q) == LimitTypes(q) /\ InTime /\ Queued(q) /\ OutOfWindow(q) /\ Spaced
LimitIInv == Limits(recentCalls)

LEMMA HighTypes ==
    ASSUME NEW q, LimitTypes(q)
    PROVE  /\ High \in Nat /\ HighAt \in [DOMAIN allowed -> Nat]
           /\ DOMAIN allowed = 1 .. Len(allowed) /\ Len(allowed) \in Nat
           /\ \A i \in DOMAIN allowed : allowed[i].at \in Nat /\ allowed[i].leapt \in Nat
<1> DEFINE Calls == [at : Nat, leapt : Nat]
<1>0. allowed \in Seq(Calls)
  BY DEF LimitTypes, CallTypes
<1>1. \A i \in DOMAIN allowed : allowed[i].at \in Nat /\ allowed[i].leapt \in Nat
  <2>1. ASSUME NEW i \in DOMAIN allowed PROVE allowed[i] \in Calls
    <3> HIDE DEF Calls
    <3> QED
      BY <1>0
  <2> QED
    BY <2>1
<1>3. DOMAIN allowed = 1 .. Len(allowed) /\ Len(allowed) \in Nat
  <2> HIDE DEF Calls
  <2> QED
    BY <1>0
<1>2. HighAt \in [DOMAIN allowed -> Nat]
  BY <1>1 DEF HighAt
<1> QED
  BY <1>1, <1>2, <1>3 DEF LimitTypes, High

\* The pruned queue is the old one without some stale stamps at its front.
LEMMA KeptIsSuffix ==
    ASSUME LimitTypes(recentCalls)
    PROVE  \E d \in 0 .. Len(recentCalls) :
              /\ Kept \in Seq(Int) /\ Len(Kept) = Len(recentCalls) - d
              /\ \A i \in 1 .. Len(Kept) : Kept[i] = recentCalls[d + i]
              /\ \A i \in 1 .. d : Stale(recentCalls[i])
<1> DEFINE current == {i \in DOMAIN recentCalls : ~Stale(recentCalls[i])}
<1> USE DEF LimitTypes
<1>1. CASE current = {}
  <2>1. Kept = <<>>
    BY <1>1 DEF Kept
  <2>2. \A i \in 1 .. Len(recentCalls) : Stale(recentCalls[i])
    BY <1>1
  <2>3. QED
    BY <2>1, <2>2
<1>2. CASE current # {}
  <2>1. current \in SUBSET Nat
    OBVIOUS
  <2>2. Least(current) \in current /\ \A j \in current : Least(current) <= j
    BY <1>2, <2>1, LeastNatural
  <2>3. Kept = SubSeq(recentCalls, Least(current), Len(recentCalls))
    BY <1>2 DEF Kept, Least
  <2> DEFINE d == Least(current) - 1
  <2>4. d \in 0 .. Len(recentCalls) /\ Least(current) = d + 1
    BY <2>2
  <2>5. ASSUME NEW i \in 1 .. d PROVE Stale(recentCalls[i])
    <3>1. i \in DOMAIN recentCalls /\ ~(Least(current) <= i)
      BY <2>4
    <3>2. i \notin current
      BY <2>2, <3>1
    <3>3. QED
      BY <3>1, <3>2
  <2> HIDE DEF d
  <2>6. Kept = SubSeq(recentCalls, d + 1, Len(recentCalls))
    BY <2>3, <2>4
  <2>7. /\ Kept \in Seq(Int) /\ Len(Kept) = Len(recentCalls) - d
        /\ \A i \in 1 .. Len(Kept) : Kept[i] = recentCalls[d + i]
    BY <2>4, <2>6
  <2>8. QED
    BY <2>4, <2>5, <2>7
<1>3. QED
  BY <1>1, <1>2

\* Pruning keeps the invariant.
LEMMA PrunedLimits == LimitIInv => Limits(Kept)
<1> SUFFICES ASSUME LimitIInv PROVE Limits(Kept)
  OBVIOUS
<1> DEFINE k == Dropped(recentCalls)
<1> USE DEF LimitIInv, Limits, LimitTypes
<1>1. PICK d \in 0 .. Len(recentCalls) :
          /\ Kept \in Seq(Int) /\ Len(Kept) = Len(recentCalls) - d
          /\ \A i \in 1 .. Len(Kept) : Kept[i] = recentCalls[d + i]
          /\ \A i \in 1 .. d : Stale(recentCalls[i])
  BY KeptIsSuffix
<1>0. /\ High \in Nat /\ HighAt \in [DOMAIN allowed -> Nat]
      /\ DOMAIN allowed = 1 .. Len(allowed) /\ Len(allowed) \in Nat
  BY HighTypes
<1>2. k \in Nat /\ k + Len(recentCalls) = Len(allowed) /\ Dropped(Kept) = k + d
  BY <1>0, <1>1 DEF Dropped
<1>3. LimitTypes(Kept)
  BY <1>1
<1>4. /\ \A i \in 1 .. Len(recentCalls) : wall - recentCalls[i] <= High - HighAt[k + i]
      /\ \A i \in 1 .. k : High - HighAt[i] > RateWindow
  BY DEF Queued, OutOfWindow
<1> HIDE DEF k
<1>5. Queued(Kept)
  <2>1. ASSUME NEW i \in 1 .. Len(Kept)
        PROVE  wall - Kept[i] <= High - HighAt[k + d + i]
    <3>1. d + i \in 1 .. Len(recentCalls) /\ Kept[i] = recentCalls[d + i]
      BY <1>1, SMTT(30)
    <3>2. wall - recentCalls[d + i] <= High - HighAt[k + (d + i)]
      BY <1>4, <3>1
    <3>3. k + (d + i) = k + d + i
      BY <1>2
    <3>4. QED
      BY <3>1, <3>2, <3>3
  <2>2. QED
    BY <1>2, <2>1 DEF Queued
<1>6. OutOfWindow(Kept)
  <2>1. ASSUME NEW i \in 1 .. k + d PROVE High - HighAt[i] > RateWindow
    <3>1. CASE i <= k
      BY <1>4, <1>2, <3>1
    <3>2. CASE i > k
      <4>1. i - k \in 1 .. d
        BY <1>2, <3>2
      <4>2. wall - recentCalls[i - k] > RateWindow
        BY <1>1, <4>1 DEF Stale
      <4>3. wall - recentCalls[i - k] <= High - HighAt[k + (i - k)]
        <5> DEFINE n == i - k
        <5>1. n \in 1 .. Len(recentCalls)
          BY <1>1, <4>1
        <5>2. wall - recentCalls[n] <= High - HighAt[k + n]
          BY <1>4, <5>1
        <5>3. QED
          BY <5>2
      <4>4. k + (i - k) = i /\ i \in DOMAIN allowed
        BY <1>0, <1>2, <3>2
      <4>5. recentCalls[i - k] \in Int /\ HighAt[i] \in Nat /\ High \in Nat
        BY <1>0, <4>1, <4>4
      <4>6. QED
        BY <4>2, <4>3, <4>4, <4>5
    <3>3. QED
      BY <1>2, <3>1, <3>2
  <2>2. QED
    BY <1>2, <2>1 DEF OutOfWindow
<1>7. QED
  BY <1>3, <1>5, <1>6

\* A request is let through only when the RateMax before it are not all in the
\* pruned queue, and the one that is not is out of the window.
LEMMA AllowStep ==
    ASSUME NEW q, Limits(q), Len(q) < RateMax, recentCalls' = Append(q, wall),
           allowed' = Append(allowed, [at |-> moment, leapt |-> leapt]),
           UNCHANGED <<moment, wall, leapt>>
    PROVE  LimitIInv'
<1> DEFINE k == Dropped(q)
<1> USE DEF LimitIInv, Limits, LimitTypes
<1> DEFINE last == Len(allowed) + 1
<1>0. High \in Nat /\ \A i \in DOMAIN allowed : HighAt[i] \in Nat
  BY HighTypes
<1>a. DOMAIN allowed = 1 .. Len(allowed) /\ Len(allowed) \in Nat
  BY HighTypes
<1>1. /\ CallTypes' /\ Len(allowed') = last
      /\ High' = High /\ HighAt'[last] = High
      /\ \A i \in DOMAIN allowed : HighAt'[i] = HighAt[i]
      /\ DOMAIN allowed' = DOMAIN allowed \cup {last} /\ last \in Nat
  <2> DEFINE call == [at |-> moment, leapt |-> leapt]
             Calls == [at : Nat, leapt : Nat]
  <2>1. call \in Calls /\ call.at = moment /\ call.leapt = leapt
    OBVIOUS
  <2>7. allowed \in Seq(Calls)
    BY DEF CallTypes
  <2> HIDE DEF call, Calls
  <2>2. /\ allowed' \in Seq(Calls) /\ Len(allowed') = last
        /\ allowed'[last] = call /\ \A i \in DOMAIN allowed : allowed'[i] = allowed[i]
        /\ DOMAIN allowed' = DOMAIN allowed \cup {last} /\ last \in Nat
    <3>1. allowed' = Append(allowed, call)
      BY DEF call
    <3> QED
      BY <1>a, <2>1, <2>7, <3>1
  <2>3. High' = High
    BY DEF High
  <2>4. HighAt' = [i \in DOMAIN allowed' |-> allowed'[i].at + allowed'[i].leapt]
    BY DEF HighAt
  <2>5. HighAt'[last] = High
    BY <2>1, <2>2, <2>4 DEF High
  <2>6. \A i \in DOMAIN allowed : HighAt'[i] = HighAt[i]
    BY <2>2, <2>4 DEF HighAt
  <2> QED
    BY <2>2, <2>3, <2>5, <2>6 DEF Calls, CallTypes
<1>2. /\ recentCalls' \in Seq(Int) /\ Len(recentCalls') = Len(q) + 1
      /\ recentCalls'[Len(q) + 1] = wall
      /\ \A i \in 1 .. Len(q) : recentCalls'[i] = q[i]
  OBVIOUS
<1>3. /\ Dropped(recentCalls)' = k /\ k \in Nat
      /\ k + Len(q) = Len(allowed) /\ last = Len(allowed) + 1
  BY <1>1, <1>2, <1>a DEF Dropped
<1>4. /\ \A i \in 1 .. Len(q) : wall - q[i] <= High - HighAt[k + i]
      /\ \A i \in 1 .. k : High - HighAt[i] > RateWindow
  BY DEF Queued, OutOfWindow
<1>5. \A i \in 1 .. k : i \in DOMAIN allowed
  BY <1>3, <1>a
<1>6. LimitTypes(recentCalls)'
  BY <1>1, <1>2
<1> HIDE DEF last, k
<1>7. InTime'
  <2>1. \A i \in DOMAIN allowed : i <= last /\ ~(last <= i)
    BY <1>1, <1>3, <1>a
  <2>2. \A i \in DOMAIN allowed :
            HighAt[i] <= High /\ \A j \in DOMAIN allowed : i <= j => HighAt[i] <= HighAt[j]
    BY DEF InTime
  <2>3. High <= High
    BY <1>0
  <2>4. \A i, j \in DOMAIN allowed' :
            HighAt'[i] <= High' /\ (i <= j => HighAt'[i] <= HighAt'[j])
    <3> HIDE DEF LimitIInv, Limits, LimitTypes
    <3> QED
      BY <1>1, <2>1, <2>2, <2>3
  <2>5. QED
    BY <1>1, <2>4 DEF InTime
<1>8. Queued(recentCalls)'
  <2>1. ASSUME NEW i \in 1 .. Len(q)
        PROVE  wall - recentCalls'[i] <= High - HighAt'[k + i]
    <3>1. wall - q[i] <= High - HighAt[k + i]
      BY <1>4
    <3>2. k + i \in DOMAIN allowed
      BY <1>3
    <3>3. QED
      BY <1>1, <1>2, <3>1, <3>2
  <2>2. wall - recentCalls'[Len(q) + 1]
            <= High - HighAt'[k + (Len(q) + 1)]
    <3>1. k + (Len(q) + 1) = last /\ wall \in Int
      BY <1>3, <1>a
    <3> QED
      BY <1>0, <1>1, <1>2, <3>1
  <2>3. \A i \in 1 .. Len(recentCalls') : i \in 1 .. Len(q) \/ i = Len(q) + 1
    BY <1>2
  <2>4. QED
    BY <1>1, <1>3, <2>1, <2>2, <2>3 DEF Queued
<1>9. OutOfWindow(recentCalls)'
  BY <1>1, <1>3, <1>5, <1>4 DEF OutOfWindow
<1>10. Spaced'
  <2>1. ASSUME NEW i \in DOMAIN allowed', i + RateMax <= last
        PROVE  HighAt'[i + RateMax] > HighAt'[i] + RateWindow
    <3>1. i \in DOMAIN allowed
      BY <1>1, <1>3, <2>1
    <3>2. CASE i + RateMax = last
      <4>1. i \in 1 .. k
        BY <1>3, <3>1, <3>2
      <4>2. High - HighAt[i] > RateWindow
        BY <4>1, <1>4
      <4>3. QED
        BY <1>0, <1>1, <3>1, <3>2, <4>2
    <3>3. CASE i + RateMax # last
      <4>1. i + RateMax \in DOMAIN allowed
        BY <1>3, <2>1, <3>1, <3>3
      <4>2. i + RateMax <= Len(allowed)
        BY <1>a, <4>1
      <4>3. HighAt[i + RateMax] > HighAt[i] + RateWindow
        BY <3>1, <4>2 DEF Spaced
      <4>4. QED
        BY <1>1, <3>1, <4>1, <4>3
    <3>4. QED
      BY <3>2, <3>3
  <2>2. QED
    BY <1>1, <2>1 DEF Spaced
<1>11. QED
  BY <1>6, <1>7, <1>8, <1>9, <1>10

LEMMA LimitInitIInv == ChatInit => LimitIInv
<1> SUFFICES ASSUME ChatInit PROVE LimitIInv
  OBVIOUS
<1>1. /\ allowed = <<>> /\ recentCalls = <<>> /\ moment = 0 /\ leapt = 0 /\ wall = 0
      /\ CallTypes /\ Len(allowed) = 0 /\ DOMAIN allowed = {}
      /\ Len(recentCalls) = 0 /\ recentCalls \in Seq(Int)
  BY DEF ChatInit, CallTypes
<1> QED
  BY <1>1 DEF LimitIInv, Limits, LimitTypes, InTime, Queued, OutOfWindow, Spaced, Dropped

\* What nothing but the clock changes.
LEMMA LimitsKept ==
    ASSUME LimitIInv, UNCHANGED <<moment, wall, leapt, recentCalls, allowed>> PROVE LimitIInv'
<1>1. High' = High /\ HighAt' = HighAt /\ (CallTypes => CallTypes')
  BY DEF High, HighAt, CallTypes
<1> QED
  BY <1>1 DEF LimitIInv, Limits, LimitTypes, InTime, Queued, OutOfWindow, Spaced, Dropped

\* The wall clock never advances by more than the latest it can show; set back, it
\* makes the stamps of requests look younger.
LEMMA ClockStep ==
    ASSUME LimitIInv, ClockTicks \/ ClockSetBack \/ ClockSetForward PROVE LimitIInv'
<1> DEFINE k == Dropped(recentCalls)
<1> USE DEF LimitIInv, Limits
<1>1. /\ UNCHANGED <<recentCalls, allowed>>
      /\ moment' \in Nat /\ leapt' \in Nat /\ wall' \in Int
      /\ High' >= High /\ wall' - wall <= High' - High
  BY DEF ClockTicks, ClockSetBack, ClockSetForward, High, LimitTypes
<1>2. /\ k' = k /\ k \in Nat /\ k + Len(recentCalls) = Len(allowed)
      /\ Len(recentCalls) \in Nat /\ wall \in Int
      /\ \A i \in 1 .. Len(recentCalls) : recentCalls[i] \in Int
  BY <1>1 DEF Dropped, LimitTypes
<1>3. /\ \A i \in 1 .. Len(recentCalls) : wall - recentCalls[i] <= High - HighAt[k + i]
      /\ \A i \in 1 .. k : High - HighAt[i] > RateWindow
  BY DEF Queued, OutOfWindow
<1>4. LimitTypes(recentCalls)'
  BY <1>1 DEF LimitTypes, CallTypes
<1>5. /\ High \in Int /\ HighAt \in [1 .. Len(allowed) -> Nat] /\ Len(allowed) \in Nat
      /\ HighAt' = HighAt /\ High' \in Int
  <2>1. HighAt' = HighAt
    BY <1>1 DEF HighAt
  <2>2. High' \in Int
    BY <1>1 DEF High
  <2> QED
    BY <2>1, <2>2, HighTypes
<1>6. InTime'
  <2>1. \A i \in DOMAIN allowed : HighAt[i] \in Nat
    BY HighTypes
  <2>2. QED
    BY <1>1, <1>5, <2>1 DEF InTime
<1>7. Spaced'
  BY <1>1, <1>5 DEF Spaced
<1> HIDE DEF k, LimitIInv, Limits
<1>8. Queued(recentCalls)'
  <2>1. ASSUME NEW i \in 1 .. Len(recentCalls)
        PROVE  wall' - recentCalls[i] <= High' - HighAt[k + i]
    <3>1. recentCalls[i] \in Int /\ HighAt[k + i] \in Int
      BY <1>2, <1>5
    <3>2. wall - recentCalls[i] <= High - HighAt[k + i]
      BY <1>3
    <3>3. \A m1, m2, w1, w2, x, y \in Int :
              w2 - w1 <= m2 - m1 /\ w1 - x <= m1 - y => w2 - x <= m2 - y
      OBVIOUS
    <3> QED
      BY <1>1, <1>2, <1>5, <3>1, <3>2, <3>3
  <2> QED
    BY <1>1, <1>2, <1>5, <2>1 DEF Queued, k
<1>9. OutOfWindow(recentCalls)'
  <2>1. ASSUME NEW i \in 1 .. k PROVE High' - HighAt[i] > RateWindow
    <3>1. HighAt[i] \in Nat /\ High - HighAt[i] > RateWindow
      BY <1>2, <1>3, <1>5
    <3> QED
      BY <1>1, <1>5, <3>1
  <2> QED
    BY <1>1, <1>2, <1>5, <2>1 DEF OutOfWindow, k
<1> QED
  BY <1>4, <1>6, <1>7, <1>8, <1>9 DEF LimitIInv, Limits

LEMMA LimitNextIInv == LimitIInv /\ [ChatNext]_chatVars => LimitIInv'
<1> SUFFICES ASSUME LimitIInv, [ChatNext]_chatVars PROVE LimitIInv'
  OBVIOUS
<1>1. CASE ClockTicks \/ ClockSetBack \/ ClockSetForward
  BY <1>1, ClockStep
<1>2. ASSUME NEW c \in Chats, Post(c) PROVE LimitIInv'
  <2>1. Limits(Kept)
    BY PrunedLimits
  <2>2. CASE Len(Kept) >= RateMax
    <3>1. recentCalls' = Kept /\ UNCHANGED <<moment, wall, leapt, allowed>>
      BY <1>2, <2>2 DEF Post, Limit
    <3>2. High' = High /\ HighAt' = HighAt /\ (CallTypes => CallTypes')
      BY <3>1 DEF High, HighAt, CallTypes
    <3>3. QED
      BY <2>1, <3>1, <3>2
      DEF LimitIInv, Limits, LimitTypes, InTime, Queued, OutOfWindow, Spaced, Dropped
  <2>3. CASE ~(Len(Kept) >= RateMax)
    <3>1. Len(Kept) < RateMax
      BY <2>1, <2>3 DEF Limits, LimitTypes
    <3>2. /\ recentCalls' = Append(Kept, wall)
          /\ allowed' = Append(allowed, [at |-> moment, leapt |-> leapt])
      BY <1>2, <2>3 DEF Post, Limit
    <3>3. QED
      BY <1>2, <2>1, <3>1, <3>2, AllowStep DEF Post
  <2>4. QED
    BY <2>2, <2>3
<1>3. ASSUME NEW c \in Chats, Assemble(c) \/ EndStream(c) PROVE LimitIInv'
  BY <1>3, LimitsKept DEF Assemble, EndStream
<1>4. CASE UNCHANGED chatVars
  BY <1>4, LimitsKept DEF chatVars
<1>5. QED
  BY <1>1, <1>2, <1>3, <1>4 DEF ChatNext

\* From a request on, the one RateMax later is out of the window, and so is every
\* later one.
LEMMA WindowHolds == LimitIInv => SpendCapped
<1> SUFFICES ASSUME LimitIInv, NEW i \in DOMAIN allowed
             PROVE  Cardinality({j \in DOMAIN allowed :
                        j >= i /\ Advance(i, j) <= RateWindow}) <= RateMax
  BY DEF SpendCapped
<1> DEFINE window == {j \in DOMAIN allowed : j >= i /\ Advance(i, j) <= RateWindow}
<1>1. /\ DOMAIN allowed = 1 .. Len(allowed) /\ Len(allowed) \in Nat
      /\ HighAt \in [1 .. Len(allowed) -> Nat] /\ InTime /\ Spaced
  BY HighTypes DEF LimitIInv, Limits
<1>2. \A j \in DOMAIN allowed : Advance(i, j) = HighAt[j] - HighAt[i]
  <2>1. \A j \in DOMAIN allowed : allowed[j].at \in Nat /\ allowed[j].leapt \in Nat
    BY HighTypes DEF LimitIInv, Limits
  <2>2. \A a1, l1, a2, l2 \in Nat : (a2 - a1) + (l2 - l1) = (a2 + l2) - (a1 + l1)
    OBVIOUS
  <2> QED
    BY <2>1, <2>2 DEF Advance, HighAt
<1>3. ASSUME NEW j \in window, j >= i + RateMax PROVE FALSE
  <2>1. /\ i \in 1 .. Len(allowed) /\ j \in 1 .. Len(allowed)
        /\ i + RateMax \in 1 .. Len(allowed)
    BY <1>1, <1>3
  <2>2. HighAt[i + RateMax] > HighAt[i] + RateWindow
    BY <1>1, <2>1 DEF Spaced
  <2>3. HighAt[i + RateMax] <= HighAt[j]
    BY <1>1, <1>3, <2>1 DEF InTime
  <2>4. HighAt[j] - HighAt[i] <= RateWindow
    BY <1>2, <1>3
  <2>5. HighAt[i] \in Nat /\ HighAt[j] \in Nat /\ HighAt[i + RateMax] \in Nat
    BY <1>1, <2>1
  <2> HIDE DEF window
  <2> QED
    BY <2>2, <2>3, <2>4, <2>5
<1>4. i \in Nat /\ window \subseteq Nat /\ \A j \in window : j >= i
  BY <1>1
<1> HIDE DEF window
<1>5. window \subseteq i .. i + RateMax - 1
  BY <1>3, <1>4
<1>6. IsFiniteSet(i .. i + RateMax - 1) /\ Cardinality(i .. i + RateMax - 1) = RateMax
  BY <1>4, FS_Interval
<1>7. Cardinality(window) <= RateMax
  BY <1>5, <1>6, FS_Subset
<1> QED
  BY <1>7 DEF window

\* From any request of the chat on, at most RateMax reach OpenRouter, itself included,
\* until the time that has passed and what the clock was set forward meanwhile exceed
\* the window together: _rate_limit prunes its queue and appends to it without an
\* await in between, a stamp ages no faster than that, and it ages more slowly when
\* the clock is set back.  For every limit, window and setting of the clock.
THEOREM ChatSpendIsCapped == ChatSpec => []SpendCapped
  BY WindowHolds, LimitInitIInv, LimitNextIInv, PTL DEF ChatSpec

\* The queue stays within the limit, and the clock within what it can show.
ChatIInv == ChatTypeOK /\ LimitIInv /\ wall <= moment + leapt

LEMMA ChatStepIInv == ChatIInv /\ [ChatNext]_chatVars => ChatIInv'
<1> SUFFICES ASSUME ChatIInv, [ChatNext]_chatVars PROVE ChatIInv'
  OBVIOUS
<1>1. LimitIInv'
  BY LimitNextIInv DEF ChatIInv
<1> DEFINE Calls == [at : 0 .. LastMoment, leapt : 0 .. MaxLeaps]
<1>2. /\ LastMoment \in Nat /\ MaxLeaps \in Nat /\ RateMax \in Nat /\ RateMax > 0
      /\ moment \in 0 .. LastMoment /\ leapt \in 0 .. MaxLeaps
      /\ wall \in Int /\ wall >= -LastMoment /\ wall <= moment + leapt
      /\ recentCalls \in Seq(Int) /\ Len(recentCalls) <= RateMax
      /\ chat \in [Chats -> ChatSteps]
      /\ allowed \in Seq(Calls)
  BY DEF ChatIInv, ChatTypeOK
<1>3. PICK d \in 0 .. Len(recentCalls) : Kept \in Seq(Int) /\ Len(Kept) = Len(recentCalls) - d
  BY KeptIsSuffix DEF ChatIInv, LimitIInv, Limits
<1>4. Len(Kept) \in Nat /\ Len(Kept) <= RateMax
  BY <1>2, <1>3
<1>5. \A c \in Chats, step \in ChatSteps : [chat EXCEPT ![c] = step] \in [Chats -> ChatSteps]
  BY <1>2
<1>6. ASSUME /\ moment' \in 0 .. LastMoment /\ leapt' \in 0 .. MaxLeaps
             /\ wall' \in -LastMoment .. LastMoment + MaxLeaps /\ wall' <= moment' + leapt'
             /\ UNCHANGED <<recentCalls, chat, allowed>>
      PROVE  ChatIInv'
  BY <1>1, <1>2, <1>6 DEF ChatIInv, ChatTypeOK
<1> HIDE DEF ChatSteps, Calls
<1>7. CASE ClockTicks \/ ClockSetBack \/ ClockSetForward
  <2>1. /\ moment' \in 0 .. LastMoment /\ leapt' \in 0 .. MaxLeaps
        /\ wall' \in -LastMoment .. LastMoment + MaxLeaps /\ wall' <= moment' + leapt'
    BY <1>2, <1>7 DEF ClockTicks, ClockSetBack, ClockSetForward
  <2>2. UNCHANGED <<recentCalls, chat, allowed>>
    BY <1>7 DEF ClockTicks, ClockSetBack, ClockSetForward
  <2> QED
    BY <1>6, <2>1, <2>2
<1>9. wall \in -LastMoment .. LastMoment + MaxLeaps
  BY <1>2
<1>10. ASSUME NEW c \in Chats, Post(c) PROVE ChatIInv'
  <2>1. CASE Len(Kept) >= RateMax
    BY <1>1, <1>2, <1>3, <1>4, <1>9, <1>10, <2>1 DEF Post, Limit, ChatIInv, ChatTypeOK, Calls
  <2>2. CASE ~(Len(Kept) >= RateMax)
    <3>1. PICK step \in {"idle", "assembling"} : chat' = [chat EXCEPT ![c] = step]
      BY <1>10, <2>2 DEF Post, Limit
    <3>2. chat' \in [Chats -> ChatSteps]
      BY <1>5, <3>1 DEF ChatSteps
    <3>3. /\ recentCalls' = Append(Kept, wall)
          /\ allowed' = Append(allowed, [at |-> moment, leapt |-> leapt])
      BY <1>10, <2>2 DEF Post, Limit
    <3>4. recentCalls' \in Seq(Int) /\ Len(recentCalls') <= RateMax
      <4>1. Len(Append(Kept, wall)) = Len(Kept) + 1 /\ Append(Kept, wall) \in Seq(Int)
        BY <1>2, <1>3, AppendProperties, Zenon
      <4>2. Len(Kept) + 1 <= RateMax
        BY <1>2, <1>4, <2>2
      <4> QED
        BY <3>3, <4>1, <4>2
    <3>5. allowed' \in Seq(Calls)
      <4>1. [at |-> moment, leapt |-> leapt] \in Calls
        BY <1>2 DEF Calls
      <4> QED
        BY <1>2, <3>3, <4>1, AppendProperties
    <3> QED
      BY <1>1, <1>2, <1>9, <1>10, <3>2, <3>4, <3>5 DEF Post, ChatIInv, ChatTypeOK, Calls
  <2> QED
    BY <2>1, <2>2
<1>11. ASSUME NEW c \in Chats, Assemble(c) \/ EndStream(c) PROVE ChatIInv'
  <2>1. chat' \in [Chats -> ChatSteps]
    <3>1. \E step \in ChatSteps : chat' = [chat EXCEPT ![c] = step]
      BY <1>11 DEF Assemble, EndStream, ChatSteps
    <3> QED
      BY <1>5, <3>1
  <2> QED
    BY <1>1, <1>2, <1>9, <1>11, <2>1 DEF Assemble, EndStream, ChatIInv, ChatTypeOK, Calls
<1>12. CASE UNCHANGED chatVars
  BY <1>1, <1>12 DEF chatVars, ChatIInv, ChatTypeOK, Calls
<1> QED
  BY <1>7, <1>10, <1>11, <1>12 DEF ChatNext

\* The chat's state has its types; the queue is never longer than the limit.
THEOREM ChatTypeCorrect == ChatSpec => []ChatTypeOK
<1>1. ChatInit => ChatIInv
  BY LimitInitIInv DEF ChatInit, ChatIInv, ChatTypeOK, ChatSteps
<1>2. ChatIInv => ChatTypeOK
  BY DEF ChatIInv
<1> QED
  BY <1>1, <1>2, ChatStepIInv, PTL DEF ChatSpec

-----------------------------------------------------------------------------
(***************************************************************************)
(* The congressional views.                                                *)
(***************************************************************************)

USE ViewAssumption

Whole(H) == TickersOf(H) \subseteq everHeld

\* Before it is read a source is empty, and what was read was held at some time.
ReadSoFar ==
    /\ view = "idle" => book = {}
    /\ view \in {"idle", "accounts"} => table = {}
    /\ view \in {"idle", "accounts", "table", "query", "empty"} => shown = {}
    /\ view # "idle" => Whole(holdings) /\ Whole(rows) /\ Whole(book) /\ Whole(table)

\* The holdings that stay in the table are in the rows that were read.
SteadyIsRead ==
    /\ view # "idle" => steady \subseteq rows
    /\ view \in {"query", "done", "empty"} => steady \subseteq table
    /\ view = "empty" => table = {}

\* Of a disclosure that is left out as many are shown that come first as the limit allows.
LeftOut(i) == Cardinality({j \in shown : ByTicker(j, i)}) = OverlapLimit
OverlapAnswered ==
    (asked = 0 /\ view = "done") =>
        /\ \A i \in shown : listed[i].ticker \in everHeld
        /\ \A i \in 1 .. before :
            listed[i].ticker \in TickersOf(steady) /\ i \notin shown => LeftOut(i)

\* The inductive invariant.
ViewIInv ==
    /\ ViewTypeOK /\ before <= Len(listed)
    /\ ReadSoFar /\ SteadyIsRead /\ OverlapAnswered

\* The query's order is strict and total, for no two disclosures have one number.
LEMMA TickerOrder ==
    ASSUME ViewTypeOK, NEW D \in SUBSET DOMAIN listed
    PROVE  TotallyOrders({p \in D \X D : ByTicker(p[1], p[2])}, D)
<1>1. listed \in Seq(Listing)
  BY DEF ViewTypeOK
<1>2. \A i \in D : listed[i] \in Listing /\ i \in Nat
  BY <1>1
<1>3. \A i \in D : i \in Nat /\ listed[i].ticker \in Nat /\ listed[i].day \in Nat
  <2> SUFFICES ASSUME NEW i \in D
               PROVE  i \in Nat /\ listed[i].ticker \in Nat /\ listed[i].day \in Nat
    OBVIOUS
  <2>1. i \in Nat /\ listed[i].ticker \in Traded /\ listed[i].day \in 0 .. 1
    BY <1>2 DEF Listing
  <2>2. Traded \subseteq Nat /\ 0 .. 1 \subseteq Nat
    BY ViewAssumption
  <2> QED
    BY <2>1, <2>2, Zenon
<1> QED
  BY <1>3 DEF TotallyOrders, ByTicker, Newer

\* The limit goes to the first in that order.
LEMMA LimitGoesToTheFirst ==
    ASSUME ViewTypeOK, NEW i \in Touching, i \notin Overlap
    PROVE  Cardinality({j \in Overlap : ByTicker(j, i)}) = OverlapLimit
<1> DEFINE R == {p \in Touching \X Touching : ByTicker(p[1], p[2])}
<1>1. Touching \in SUBSET DOMAIN listed /\ DOMAIN listed = 1 .. Len(listed) /\ Len(listed) \in Nat
  BY DEF ViewTypeOK, Touching
<1>2. IsFiniteSet(Touching)
  <2>1. IsFiniteSet(1 .. Len(listed))
    BY <1>1, FS_Interval
  <2> QED
    BY <1>1, <2>1, FS_Subset
<1>3. TotallyOrders(R, Touching)
  BY <1>1, TickerOrder
<1>4. \A k \in Touching : {j \in Touching : ByTicker(j, k)} = Ahead(Touching, R, k)
  BY DEF Ahead
<1>5. Overlap = FirstFew(Touching, R, OverlapLimit)
  BY <1>4 DEF Overlap, Leading, FirstFew
<1>6. /\ \A j \in Overlap : <<j, i>> \in R
      /\ Cardinality(Overlap) = OverlapLimit
  <2> HIDE DEF R
  <2> QED
    BY <1>2, <1>3, <1>5, FirstFewCount
<1>7. {j \in Overlap : ByTicker(j, i)} = Overlap
  BY <1>6
<1> QED
  BY <1>6, <1>7

\* The world and the request take their steps within their types.
LEMMA ViewInitIInv == ViewInit => ViewIInv
<1> SUFFICES ASSUME ViewInit PROVE ViewIInv
  OBVIOUS
<1>1. ViewTypeOK /\ before <= Len(listed)
  BY DEF ViewInit, ViewTypeOK, ViewSteps
<1> QED
  BY <1>1 DEF ViewInit, ViewIInv, ReadSoFar, SteadyIsRead, OverlapAnswered

\* Once it is answered, what was shown and left out stays so in a longer list.
LEMMA AnswerStays ==
    ASSUME ViewIInv, UNCHANGED <<asked, view, shown, before>>,
           Len(listed) <= Len(listed'), listed' \in Seq(Listing),
           \A i \in DOMAIN listed : listed'[i] = listed[i],
           steady' \subseteq steady, everHeld \subseteq everHeld'
    PROVE  OverlapAnswered'
<1>1. ASSUME NEW i \in DOMAIN listed, NEW j \in DOMAIN listed
      PROVE  ByTicker(j, i)' <=> ByTicker(j, i)
  BY <1>1 DEF ByTicker, Newer
<1>2. shown \subseteq DOMAIN listed /\ 1 .. before \subseteq DOMAIN listed
  BY DEF ViewIInv, ViewTypeOK
<1>3. ASSUME NEW i \in DOMAIN listed PROVE LeftOut(i)' <=> LeftOut(i)
  <2>1. {j \in shown : ByTicker(j, i)}' = {j \in shown : ByTicker(j, i)}
    BY <1>1, <1>2, <1>3
  <2> QED
    BY <2>1 DEF LeftOut
<1>4. TickersOf(steady') \subseteq TickersOf(steady)
  BY DEF TickersOf
<1> QED
  BY <1>2, <1>3, <1>4 DEF OverlapAnswered, ViewIInv

LEMMA ViewStepIInv == ViewIInv /\ [ViewNext]_viewVars => ViewIInv'
<1> SUFFICES ASSUME ViewIInv, [ViewNext]_viewVars PROVE ViewIInv'
  OBVIOUS
<1> USE DEF ViewIInv
<1> DEFINE rest == ReadSoFar' /\ SteadyIsRead'
<1>1. CASE Order
  <2>1. holdings' \subseteq Holding /\ everHeld' \subseteq Traded
    BY <1>1 DEF Order, ViewTypeOK, Holding, TickersOf
  <2>4. orders' \in 0 .. MaxOrders
    BY <1>1 DEF Order, ViewTypeOK
  <2>5. ViewTypeOK' /\ (before <= Len(listed))'
    BY <1>1, <2>1, <2>4 DEF Order, ViewTypeOK, requestVars
  <2>2. rest
    BY <1>1 DEF Order, ReadSoFar, SteadyIsRead, Whole, TickersOf, requestVars
  <2>3. OverlapAnswered'
    BY <1>1, AnswerStays DEF Order, requestVars, ViewTypeOK
  <2> QED
    BY <2>2, <2>3, <2>5
<1>2. ASSUME NEW a \in Accounts, RefreshRows(a) PROVE ViewIInv'
  <2>1. ViewTypeOK' /\ (before <= Len(listed))'
    BY <1>2 DEF RefreshRows, ViewTypeOK, requestVars
  <2>2. rest
    BY <1>2 DEF RefreshRows, ReadSoFar, SteadyIsRead, Whole, TickersOf, requestVars
  <2>3. OverlapAnswered'
    BY <1>2, AnswerStays DEF RefreshRows, requestVars, ViewTypeOK
  <2> QED
    BY <2>1, <2>2, <2>3
<1>3. ASSUME NEW a \in Accounts, ReadBook(a) PROVE ViewIInv'
  <2>1. ViewTypeOK' /\ (before <= Len(listed))'
    BY <1>3 DEF ReadBook, ViewTypeOK, worldVars, viewHistory, ViewSteps
  <2>2. rest
    BY <1>3 DEF ReadBook, ReadSoFar, SteadyIsRead, Whole, TickersOf,
                worldVars, viewHistory
  <2>3. OverlapAnswered'
    BY <1>3 DEF ReadBook, OverlapAnswered
  <2> QED
    BY <2>1, <2>2, <2>3
<1>4. CASE List
  <2>1. PICK d \in Listing : listed' = Append(listed, d)
    BY <1>4 DEF List
  <2>2. /\ listed' \in Seq(Listing) /\ Len(listed') = Len(listed) + 1 /\ Len(listed') <= MaxListed
        /\ \A i \in DOMAIN listed : listed'[i] = listed[i]
        /\ DOMAIN listed \subseteq DOMAIN listed'
    BY <1>4, <2>1 DEF List, ViewTypeOK
  <2>3. ViewTypeOK' /\ (before <= Len(listed))'
    BY <1>4, <2>2 DEF List, ViewTypeOK, requestVars, viewHistory
  <2>4. rest
    BY <1>4 DEF List, ReadSoFar, SteadyIsRead, Whole, requestVars, viewHistory
  <2>5. OverlapAnswered'
    BY <1>4, <2>2, AnswerStays DEF List, requestVars, viewHistory, ViewTypeOK
  <2> QED
    BY <2>3, <2>4, <2>5
<1>5. ASSUME NEW n \in 0 .. Len(listed), Request(n) PROVE ViewIInv'
  <2>1. ViewTypeOK' /\ (before <= Len(listed))'
    BY <1>5 DEF Request, ViewTypeOK, Holding, TickersOf, worldVars, ViewSteps
  <2>2. rest
    BY <1>5 DEF Request, ReadSoFar, SteadyIsRead, Whole, TickersOf, worldVars
  <2>3. OverlapAnswered'
    BY <1>5 DEF Request, OverlapAnswered
  <2> QED
    BY <2>1, <2>2, <2>3
<1>6. CASE BrokerRaises
  <2>1. ViewTypeOK' /\ (before <= Len(listed))'
    BY <1>6 DEF BrokerRaises, ViewTypeOK, worldVars, viewHistory, ViewSteps
  <2>2. rest
    BY <1>6 DEF BrokerRaises, ReadSoFar, SteadyIsRead, Whole, TickersOf,
                worldVars, viewHistory
  <2>3. OverlapAnswered'
    BY <1>6 DEF BrokerRaises, OverlapAnswered
  <2> QED
    BY <2>1, <2>2, <2>3
<1>7. CASE ReadTable
  <2>1. ViewTypeOK' /\ (before <= Len(listed))'
    BY <1>7 DEF ReadTable, ViewTypeOK, worldVars, viewHistory, ViewSteps
  <2>2. rest
    BY <1>7 DEF ReadTable, ReadSoFar, SteadyIsRead, Whole, TickersOf,
                worldVars, viewHistory
  <2>3. OverlapAnswered'
    BY <1>7 DEF ReadTable, OverlapAnswered
  <2> QED
    BY <2>1, <2>2, <2>3
<1>8. CASE PriceRaises
  <2>1. ViewTypeOK' /\ (before <= Len(listed))'
    BY <1>8 DEF PriceRaises, ViewTypeOK, worldVars, viewHistory, ViewSteps
  <2>2. rest
    BY <1>8 DEF PriceRaises, ReadSoFar, SteadyIsRead, Whole,
                worldVars, viewHistory
  <2>3. OverlapAnswered'
    BY <1>8 DEF PriceRaises, OverlapAnswered
  <2> QED
    BY <2>1, <2>2, <2>3
<1>9. CASE Query
  <2>1. shown' \subseteq DOMAIN listed
    BY <1>9 DEF Query, Overlap, Recent, Leading, Touching
  <2>2. ViewTypeOK' /\ (before <= Len(listed))'
    BY <1>9, <2>1 DEF Query, ViewTypeOK, worldVars, viewHistory, ViewSteps
  <2>3. rest
    BY <1>9 DEF Query, ReadSoFar, SteadyIsRead, Whole, worldVars, viewHistory
  <2>4. ASSUME asked = 0 PROVE OverlapAnswered'
    <3>1. shown' = Overlap /\ listed' = listed /\ steady' = steady
          /\ everHeld' = everHeld /\ before' = before
      BY <1>9, <2>4 DEF Query, worldVars, viewHistory
    <3>2. ASSUME NEW i \in Overlap PROVE listed[i].ticker \in everHeld
      BY <1>9, <3>2 DEF Query, Overlap, Leading, Touching, Portfolio, ReadSoFar, Whole, TickersOf
    <3>3. ASSUME NEW i \in 1 .. before, listed[i].ticker \in TickersOf(steady), i \notin Overlap
          PROVE  Cardinality({j \in Overlap : ByTicker(j, i)}) = OverlapLimit
      <4>1. i \in Touching
        BY <1>9, <3>3 DEF Query, Touching, Portfolio, SteadyIsRead, TickersOf, ViewTypeOK
      <4> QED
        BY <3>3, <4>1, LimitGoesToTheFirst
    <3>4. ASSUME NEW i, NEW j PROVE ByTicker(i, j)' = ByTicker(i, j)
      BY <3>1 DEF ByTicker, Newer
    <3>5. ASSUME NEW i, Cardinality({j \in Overlap : ByTicker(j, i)}) = OverlapLimit
          PROVE  LeftOut(i)'
      <4>1. {j \in shown : ByTicker(j, i)}' = {j \in Overlap : ByTicker(j, i)}
        BY <3>1, <3>4
      <4> QED
        BY <3>5, <4>1 DEF LeftOut
    <3> QED
      BY <3>1, <3>2, <3>3, <3>5 DEF OverlapAnswered
  <2>5. ASSUME asked # 0 PROVE OverlapAnswered'
    <3>1. asked' # 0
      BY <1>9, <2>5 DEF Query
    <3> QED
      BY <3>1 DEF OverlapAnswered
  <2> QED
    BY <2>2, <2>3, <2>4, <2>5
<1>10. CASE UNCHANGED viewVars
  BY <1>10 DEF viewVars, worldVars, requestVars, viewHistory, ViewTypeOK, ReadSoFar, SteadyIsRead,
               OverlapAnswered, Whole, LeftOut, ByTicker, Newer
<1> QED
  BY <1>1, <1>2, <1>3, <1>4, <1>5, <1>6, <1>7, <1>8, <1>9, <1>10 DEF ViewNext

LEMMA ViewSpecIInv == ViewSpec => []ViewIInv
BY ViewInitIInv, ViewStepIInv, PTL DEF ViewSpec

\* The variables of the views stay in their types.
THEOREM ViewTypeCorrect == ViewSpec => []ViewTypeOK
<1>1. ViewIInv => ViewTypeOK
  BY DEF ViewIInv
<1> QED
  BY <1>1, ViewSpecIInv, PTL

\* For any accounts, tickers, trades, refreshes and limit, the overlap shows tickers
\* that were held at some time of the request, and of one that stayed in the table
\* every earlier disclosure that the limit did not give away: get_portfolio_overlap
\* reads the table after the broker, whatever the broker did.
THEOREM HeldTickersAreShown == ViewSpec => []OverlapMissesNothing
<1>1. ViewIInv => OverlapMissesNothing
  <2> SUFFICES ASSUME ViewIInv, asked = 0, view \in {"empty", "done"}
               PROVE  OverlapMissesNothing
    BY DEF OverlapMissesNothing
  <2> USE DEF ViewIInv
  <2>1. CASE view = "done"
    BY <2>1 DEF OverlapAnswered, OverlapMissesNothing, LeftOut
  <2>2. CASE view = "empty"
    <3>1. shown = {} /\ TickersOf(steady) = {}
      BY <2>2 DEF ReadSoFar, SteadyIsRead, TickersOf
    <3> QED
      BY <3>1 DEF OverlapMissesNothing
  <2> QED
    BY <2>1, <2>2
<1> QED
  BY <1>1, ViewSpecIInv, PTL

-----------------------------------------------------------------------------
(***************************************************************************)
(* Live prices.                                                            *)
(***************************************************************************)

USE PriceAssumption

\* Whole division keeps the order of the naturals.
LEMMA DivisionGrows ==
    ASSUME NEW d \in Nat \ {0}, NEW a \in Nat, NEW b \in Nat, a <= b
    PROVE  a \div d \in Nat /\ b \div d \in Nat /\ a \div d <= b \div d
<1>1. PICK k \in Int, r \in 0 .. d - 1 : k = a \div d /\ a = d * k + r
  OBVIOUS
<1>2. PICK m \in Int, t \in 0 .. d - 1 : m = b \div d /\ b = d * m + t
  OBVIOUS
<1>3. ASSUME NEW n \in Int, n < 0 PROVE d * n <= 0 - d
  BY <1>3
<1>4. k \in Nat /\ m \in Nat
  BY <1>1, <1>2, <1>3
<1>5. k <= m
  <2> SUFFICES ASSUME m < k PROVE FALSE
    BY <1>4
  <2>1. d * (m - k) <= 0 - d /\ d * (m - k) = d * m - d * k
    BY <1>3
  <2> QED
    BY <1>1, <1>2, <2>1
<1> QED
  BY <1>1, <1>2, <1>4, <1>5

\* So does multiplication by a natural.
LEMMA ProductGrows ==
    ASSUME NEW a \in Int, NEW b \in Int, NEW n \in Nat, a <= b
    PROVE  a * n \in Int /\ b * n \in Int /\ a * n <= b * n
<1>1. (b - a) * n >= 0 /\ (b - a) * n = b * n - a * n
  OBVIOUS
<1> QED
  BY <1>1

\* Half a unit is less than one.
LEMMA DivisionOfHalf == (2 * 0 + Unit) \div (2 * Unit) = 0
<1>1. PICK k \in Int, r \in 0 .. 2 * Unit - 1 :
          k = Unit \div (2 * Unit) /\ Unit = 2 * Unit * k + r
  OBVIOUS
<1>2. k = 0
  BY <1>1
<1> QED
  BY <1>1, <1>2

\* A rounded price is a multiple of the unit, and rounding keeps the order.
LEMMA RoundedFacts ==
    ASSUME NEW p \in Nat, NEW top \in Nat, p <= top
    PROVE  /\ Rounded(p) \in Nat /\ Rounded(top) \in Nat
           /\ Rounded(p) <= Rounded(top)
           /\ Rounded(p) > 0 => Rounded(p) >= Unit
<1> DEFINE a == 2 * p + Unit
           b == 2 * top + Unit
           d == 2 * Unit
<1>1. d \in Nat \ {0} /\ a \in Nat /\ b \in Nat /\ a <= b
  OBVIOUS
<1> HIDE DEF a, b, d
<1>2. a \div d \in Nat /\ b \div d \in Nat /\ a \div d <= b \div d
  BY <1>1, DivisionGrows
<1> DEFINE k == a \div d
           m == b \div d
<1>3. Rounded(p) = k * Unit /\ Rounded(top) = m * Unit
  BY DEF Rounded, a, b, d
<1>4. k \in Nat /\ m \in Nat /\ k <= m
  BY <1>2
<1> HIDE DEF k, m
<1>5. k * Unit \in Nat /\ m * Unit \in Nat
  BY <1>4
<1>6. k * Unit <= m * Unit
  <2>1. (m - k) \in Nat /\ (m - k) * Unit >= 0 /\ (m - k) * Unit = m * Unit - k * Unit
    BY <1>4
  <2> QED
    BY <1>5, <2>1
<1>7. k * Unit > 0 => k * Unit >= Unit
  BY <1>4
<1> QED
  BY <1>3, <1>5, <1>6, <1>7

\* The three sums of the property as functions that solve the fold's recursion.
LEMMA LiveSum ==
    ASSUME IsFiniteSet(Held), NEW q, NEW f \in [Held -> Int], \A s \in Held : f[s] = LiveValue(q, s)
    PROVE  \E F : Sums(F, f, Held) /\ LiveTotal(q) = F[Held]
<1> DEFINE R(g) == g = [s \in SUBSET Held |->
                IF s = {} THEN 0
                ELSE LiveValue(q, CHOOSE x \in s : TRUE) + g[s \ {CHOOSE x \in s : TRUE}]]
           it == CHOOSE g : R(g)
<1>1. LiveTotal(q) = it[Held]
  BY DEF LiveTotal, MapThenSumSet, MapThenFoldSet
<1>2. PICK F : Sums(F, f, Held)
  BY SumExists
<1>3. \A g : Sums(g, f, Held) <=> R(g)
  <2>1. \A s \in SUBSET Held : s # {} => f[CHOOSE x \in s : TRUE] = LiveValue(q, CHOOSE x \in s : TRUE)
    OBVIOUS
  <2> SUFFICES ASSUME NEW g PROVE Sums(g, f, Held) <=> R(g)
    OBVIOUS
  <2>2. [s \in SUBSET Held |->
            IF s = {} THEN 0 ELSE f[CHOOSE x \in s : TRUE] + g[s \ {CHOOSE x \in s : TRUE}]]
        = [s \in SUBSET Held |->
            IF s = {} THEN 0
            ELSE LiveValue(q, CHOOSE x \in s : TRUE) + g[s \ {CHOOSE x \in s : TRUE}]]
    BY <2>1
  <2> QED
    BY <2>2 DEF Sums, AnyOf
<1> HIDE DEF R
<1>4. R(it)
  BY <1>2, <1>3, Zenon
<1> QED
  BY <1>1, <1>3, <1>4

LEMMA LowestSum ==
    ASSUME IsFiniteSet(Held), NEW f \in [Held -> Int], \A s \in Held : f[s] = Lowest(s)
    PROVE  \E F : Sums(F, f, Held) /\ MapThenSumSet(Lowest, Held) = F[Held]
<1> DEFINE R(g) == g = [s \in SUBSET Held |->
                IF s = {} THEN 0
                ELSE Lowest(CHOOSE x \in s : TRUE) + g[s \ {CHOOSE x \in s : TRUE}]]
           it == CHOOSE g : R(g)
<1>1. MapThenSumSet(Lowest, Held) = it[Held]
  BY DEF MapThenSumSet, MapThenFoldSet
<1>2. PICK F : Sums(F, f, Held)
  BY SumExists
<1>3. \A g : Sums(g, f, Held) <=> R(g)
  <2>1. \A s \in SUBSET Held : s # {} => f[CHOOSE x \in s : TRUE] = Lowest(CHOOSE x \in s : TRUE)
    OBVIOUS
  <2> SUFFICES ASSUME NEW g PROVE Sums(g, f, Held) <=> R(g)
    OBVIOUS
  <2>2. [s \in SUBSET Held |->
            IF s = {} THEN 0 ELSE f[CHOOSE x \in s : TRUE] + g[s \ {CHOOSE x \in s : TRUE}]]
        = [s \in SUBSET Held |->
            IF s = {} THEN 0
            ELSE Lowest(CHOOSE x \in s : TRUE) + g[s \ {CHOOSE x \in s : TRUE}]]
    BY <2>1
  <2> QED
    BY <2>2 DEF Sums, AnyOf
<1> HIDE DEF R
<1>4. R(it)
  BY <1>2, <1>3, Zenon
<1> QED
  BY <1>1, <1>3, <1>4

LEMMA HighestSum ==
    ASSUME IsFiniteSet(Held), NEW f \in [Held -> Int], \A s \in Held : f[s] = Highest(s)
    PROVE  \E F : Sums(F, f, Held) /\ MapThenSumSet(Highest, Held) = F[Held]
<1> DEFINE R(g) == g = [s \in SUBSET Held |->
                IF s = {} THEN 0
                ELSE Highest(CHOOSE x \in s : TRUE) + g[s \ {CHOOSE x \in s : TRUE}]]
           it == CHOOSE g : R(g)
<1>1. MapThenSumSet(Highest, Held) = it[Held]
  BY DEF MapThenSumSet, MapThenFoldSet
<1>2. PICK F : Sums(F, f, Held)
  BY SumExists
<1>3. \A g : Sums(g, f, Held) <=> R(g)
  <2>1. \A s \in SUBSET Held : s # {} => f[CHOOSE x \in s : TRUE] = Highest(CHOOSE x \in s : TRUE)
    OBVIOUS
  <2> SUFFICES ASSUME NEW g PROVE Sums(g, f, Held) <=> R(g)
    OBVIOUS
  <2>2. [s \in SUBSET Held |->
            IF s = {} THEN 0 ELSE f[CHOOSE x \in s : TRUE] + g[s \ {CHOOSE x \in s : TRUE}]]
        = [s \in SUBSET Held |->
            IF s = {} THEN 0
            ELSE Highest(CHOOSE x \in s : TRUE) + g[s \ {CHOOSE x \in s : TRUE}]]
    BY <2>1
  <2> QED
    BY <2>2 DEF Sums, AnyOf
<1> HIDE DEF R
<1>4. R(it)
  BY <1>2, <1>3, Zenon
<1> QED
  BY <1>1, <1>3, <1>4

\* Of two numbers.
LEMMA OfTwo ==
    ASSUME NEW a \in Int, NEW b \in Int
    PROVE  /\ Min({a, b}) \in Int /\ Min({a, b}) <= a /\ Min({a, b}) <= b
           /\ Max({a, b}) \in Int /\ Max({a, b}) >= a /\ Max({a, b}) >= b
<1>1. \E x \in {a, b} : \A y \in {a, b} : x <= y
  OBVIOUS
<1>2. \E x \in {a, b} : \A y \in {a, b} : x >= y
  OBVIOUS
<1> QED
  BY <1>1, <1>2 DEF Min, Max

\* While no trade falls between them the two readings are of the same shares.
SameShares ==
    ~traded => /\ request = "account" => reading.shares = shares
               /\ request = "positions" => reading.shares = positions

LiveIsDone == answer.kind = "live" => request = "done"

\* The inductive invariant.
PriceIInv == PriceTypeOK /\ SameShares /\ LiveIsDone /\ LiveTotalReconciles

\* What a position counts for in a live answer is within its bounds.
LEMMA TermWithin ==
    ASSUME PriceTypeOK, positions = reading.shares,
           NEW q \in [Instruments -> PriceLevels \cup {0}], Fetched(q) # {}, NEW s \in Held
    PROVE  /\ LiveValue(q, s) \in Int /\ Lowest(s) \in Int /\ Highest(s) \in Int
           /\ Lowest(s) <= LiveValue(q, s) /\ LiveValue(q, s) <= Highest(s)
<1> DEFINE top == Max(PriceLevels)
           n == reading.shares[s]
           v == reading.value[s]
           p == Rounded(q[s])
           P == Rounded(top)
<1>1. PriceLevels # {}
  <2>1. PICK r \in Instruments : Rounded(q[r]) > 0
    BY DEF Fetched
  <2>2. q[r] # 0 \/ PriceLevels # {}
    <3>1. ASSUME q[r] = 0 PROVE Rounded(q[r]) = 0
      <4>1. (2 * 0 + Unit) \div (2 * Unit) = 0
        BY DivisionOfHalf
      <4> QED
        BY <3>1, <4>1 DEF Rounded
    <3> QED
      BY <2>1, <3>1
  <2> QED
    BY <2>2
<1>2. top \in PriceLevels /\ \A x \in PriceLevels : x <= top
  <2>1. \E m \in PriceLevels : \A x \in PriceLevels : x <= m
    BY <1>1, GreatestOfFinite
  <2>2. PriceLevels \subseteq Nat
    OBVIOUS
  <2> QED
    BY <2>1, <2>2 DEF Max
<1>3. top \in Nat /\ q[s] \in Nat /\ q[s] <= top
  <2>1. PriceLevels \subseteq Nat /\ q[s] \in PriceLevels \cup {0}
    BY DEF Held
  <2> HIDE DEF top
  <2>2. top \in Nat
    BY <1>2, <2>1
  <2>3. CASE q[s] \in PriceLevels
    BY <1>2, <2>1, <2>2, <2>3
  <2>4. CASE q[s] = 0
    BY <2>2, <2>4
  <2> QED
    BY <2>1, <2>2, <2>3, <2>4
<1> HIDE DEF top
<1>4. p \in Nat /\ P \in Nat /\ p <= P /\ (p > 0 => p >= Unit)
  BY <1>3, RoundedFacts
<1>5. n \in Nat /\ n > 0 /\ v \in Nat /\ positions[s] = n
  BY DEF PriceTypeOK, Held
<1>6. LiveValue(q, s) = IF p > 0 THEN p * n ELSE v
  BY <1>5 DEF LiveValue
<1>7. Lowest(s) = Min({v, Unit * n}) /\ Highest(s) = Max({v, P * n})
  BY DEF Lowest, Highest, top
<1> HIDE DEF n, v, p, P
<1>8. p * n \in Int /\ P * n \in Int /\ Unit * n \in Int /\ p * n <= P * n
  BY <1>4, <1>5, ProductGrows
<1>9. p > 0 => Unit * n <= p * n
  BY <1>4, <1>5, ProductGrows
<1>10. /\ Lowest(s) \in Int /\ Lowest(s) <= v /\ Lowest(s) <= Unit * n
       /\ Highest(s) \in Int /\ v <= Highest(s) /\ P * n <= Highest(s)
  <2>1. v \in Int
    BY <1>5
  <2> QED
    BY <1>7, <1>8, <2>1, OfTwo
<1> DEFINE pn == p * n
           Pn == P * n
           un == Unit * n
<1> HIDE DEF pn, Pn, un
<1> QED
  BY <1>4, <1>5, <1>6, <1>8, <1>9, <1>10 DEF pn, Pn, un

\* What AnswerLive answers with the quotes q.
LiveAnswer(q) ==
    answer' = IF Fetched(q) = {} THEN [NoAnswer EXCEPT !.kind = "plain"]
              ELSE [kind |-> "live", netLiquidation |-> reading.cash + LiveTotal(q)]

LEMMA PricesAreNat == PriceLevels \cup {0} \subseteq Nat /\ 0 .. MaxShares \subseteq Nat
OBVIOUS

\* A quote is a price or none.
LEMMA QuoteType ==
    ASSUME PriceTypeOK, NEW tape \in Tapes, NEW answered
    PROVE  Quotes(tape, answered) \in [Instruments -> PriceLevels \cup {0}]
BY DEF PriceTypeOK, Tapes, Quotes

\* The total is a number, whatever was traded.
LEMMA LiveTotalType ==
    ASSUME PriceTypeOK, NEW q \in [Instruments -> PriceLevels \cup {0}]
    PROVE  LiveTotal(q) \in Int
<1> DEFINE f == [s \in Held |-> LiveValue(q, s)]
<1>1. IsFiniteSet(Held)
  BY FS_Subset DEF Held
<1>2. ASSUME NEW s \in Held PROVE LiveValue(q, s) \in Int
  <2>1. q[s] \in Nat /\ positions[s] \in Nat /\ reading.value[s] \in Nat
    BY PricesAreNat DEF PriceTypeOK, Held
  <2>2. Rounded(q[s]) \in Nat
    BY <2>1, RoundedFacts
  <2>3. Rounded(q[s]) * positions[s] \in Int
    BY <2>1, <2>2
  <2> QED
    BY <2>1, <2>3 DEF LiveValue
<1>3. f \in [Held -> Int] /\ \A s \in Held : f[s] = LiveValue(q, s)
  BY <1>2
<1> HIDE DEF f
<1>4. PICK F : Sums(F, f, Held) /\ LiveTotal(q) = F[Held]
  BY <1>1, <1>3, LiveSum
<1>5. F \in [SUBSET Held -> Int]
  BY <1>1, <1>3, <1>4, SumIsInt
<1> QED
  BY <1>4, <1>5

\* A usable price is found for a total within the bounds of its terms.
LEMMA TotalWithin ==
    ASSUME PriceTypeOK, positions = reading.shares,
           NEW q \in [Instruments -> PriceLevels \cup {0}], Fetched(q) # {}
    PROVE  LET sum == LiveTotal(q)
           IN  sum \in Int /\ sum >= MapThenSumSet(Lowest, Held) /\ sum <= MapThenSumSet(Highest, Held)
<1> DEFINE f == [s \in Held |-> LiveValue(q, s)]
           low == [s \in Held |-> Lowest(s)]
           high == [s \in Held |-> Highest(s)]
<1>1. IsFiniteSet(Held)
  BY FS_Subset DEF Held
<1>2. /\ f \in [Held -> Int] /\ low \in [Held -> Int] /\ high \in [Held -> Int]
      /\ \A s \in Held : low[s] <= f[s] /\ f[s] <= high[s]
  BY TermWithin
<1>3. /\ \A s \in Held : f[s] = LiveValue(q, s)
      /\ \A s \in Held : low[s] = Lowest(s)
      /\ \A s \in Held : high[s] = Highest(s)
  OBVIOUS
<1> HIDE DEF f, low, high
<1>4. PICK F : Sums(F, f, Held) /\ LiveTotal(q) = F[Held]
  BY <1>1, <1>2, <1>3, LiveSum
<1>5. PICK L : Sums(L, low, Held) /\ MapThenSumSet(Lowest, Held) = L[Held]
  BY <1>1, <1>2, <1>3, LowestSum
<1>6. PICK H : Sums(H, high, Held) /\ MapThenSumSet(Highest, Held) = H[Held]
  BY <1>1, <1>2, <1>3, HighestSum
<1>7. L[Held] \in Int /\ F[Held] \in Int /\ L[Held] <= F[Held]
  BY <1>1, <1>2, <1>4, <1>5, SumMonotone
<1>8. H[Held] \in Int /\ F[Held] <= H[Held]
  BY <1>1, <1>2, <1>4, <1>6, SumMonotone
<1> QED
  BY <1>4, <1>5, <1>6, <1>7, <1>8

LEMMA PriceInitIInv == PriceInit => PriceIInv
<1> SUFFICES ASSUME PriceInit PROVE PriceIInv
  OBVIOUS
<1>1. NoShares \in [Instruments -> 0 .. MaxShares] /\ NoShares \in [Instruments -> Nat]
  BY DEF NoShares
<1>2. PriceTypeOK
  <2>1. NoAccount \in [cash : Int, shares : [Instruments -> 0 .. MaxShares],
                       value : [Instruments -> Nat]]
    BY <1>1 DEF NoAccount
  <2>2. 0 \in Int /\ 0 \in 0 .. MaxMoves
    OBVIOUS
  <2>3. NoAnswer \in [kind : AnswerKinds, netLiquidation : Int]
    BY DEF NoAnswer, AnswerKinds
  <2> QED
    BY <1>1, <2>1, <2>2, <2>3 DEF PriceInit, PriceTypeOK, Requests
<1> QED
  BY <1>2 DEF PriceInit, PriceIInv, SameShares, LiveIsDone, LiveTotalReconciles, NoAnswer

\* Every step leaves the variables in their types.
LEMMA PriceStepType == PriceTypeOK /\ [PriceNext]_priceVars => PriceTypeOK'
<1> SUFFICES ASSUME PriceTypeOK, [PriceNext]_priceVars PROVE PriceTypeOK'
  OBVIOUS
<1> USE DEF PriceTypeOK
<1>1. ASSUME NEW s \in Instruments, TradeShare(s) PROVE PriceTypeOK'
  <2>1. mark[s] \in Nat /\ shares[s] \in 0 .. MaxShares
    OBVIOUS
  <2>2. shares' \in [Instruments -> 0 .. MaxShares] /\ balance' \in Int
    BY <1>1, <2>1 DEF TradeShare
  <2> QED
    BY <1>1, <2>2 DEF TradeShare
<1>2. CASE ReadAccount
  <2>1. ASSUME NEW s \in Instruments PROVE Rounded(shares[s] * mark[s]) \in Nat
    <3>1. shares[s] \in Nat /\ mark[s] \in Nat
      BY PricesAreNat
    <3>2. shares[s] * mark[s] \in Nat
      BY <3>1
    <3> QED
      BY <3>2, RoundedFacts
  <2>2. Valuation \in [cash : Int, shares : [Instruments -> 0 .. MaxShares],
                       value : [Instruments -> Nat]]
    BY <2>1 DEF Valuation
  <2> QED
    BY <1>2, <2>2 DEF ReadAccount, marketVars, Requests
<1>3. CASE AnswerPlain
  BY <1>3 DEF AnswerPlain, marketVars, Requests, NoAnswer, AnswerKinds
<1>4. CASE ReadPositions
  BY <1>4 DEF ReadPositions, marketVars, Requests
<1>5. CASE AnswerLive
  <2>1. PICK tape \in Tapes, answered \in SUBSET (Instruments \ Unlisted) :
          LiveAnswer(Quotes(tape, answered))
    BY <1>5 DEF AnswerLive, LiveAnswer
  <2> DEFINE q == Quotes(tape, answered)
  <2>2. q \in [Instruments -> PriceLevels \cup {0}]
    BY QuoteType
  <2>3. answer' \in [kind : AnswerKinds, netLiquidation : Int]
    <3> HIDE DEF q
    <3>1. LiveTotal(q) \in Int
      BY <2>2, LiveTotalType
    <3>2. reading.cash + LiveTotal(q) \in Int
      BY <3>1
    <3>3. LiveAnswer(q)
      BY <2>1 DEF q
    <3> QED
      BY <3>2, <3>3 DEF LiveAnswer, NoAnswer, AnswerKinds
  <2> QED
    BY <1>5, <2>3 DEF AnswerLive, marketVars, Requests
<1>6. CASE RequestFails
  BY <1>6 DEF RequestFails, marketVars, NoAnswer, AnswerKinds, Requests
<1>7. CASE UNCHANGED priceVars
  BY <1>7 DEF priceVars, marketVars
<1> QED
  BY <1>1, <1>2, <1>3, <1>4, <1>5, <1>6, <1>7 DEF PriceNext

LEMMA PriceStepIInv == PriceIInv /\ [PriceNext]_priceVars => PriceIInv'
<1> SUFFICES ASSUME PriceIInv, [PriceNext]_priceVars PROVE PriceIInv'
  OBVIOUS
<1>1. PriceTypeOK /\ PriceTypeOK'
  BY PriceStepType DEF PriceIInv
<1>2. SameShares /\ LiveIsDone /\ LiveTotalReconciles
  BY DEF PriceIInv
<1>3. SameShares' /\ LiveIsDone'
  <2> USE <1>2 DEF SameShares, LiveIsDone, marketVars
  <2>1. ASSUME NEW s \in Instruments, TradeShare(s) PROVE SameShares' /\ LiveIsDone'
    BY <2>1 DEF TradeShare
  <2>2. ASSUME ReadAccount PROVE SameShares' /\ LiveIsDone'
    BY <2>2 DEF ReadAccount, Valuation
  <2>3. ASSUME AnswerPlain \/ AnswerLive \/ RequestFails PROVE SameShares' /\ LiveIsDone'
    BY <2>3 DEF AnswerPlain, AnswerLive, RequestFails
  <2>4. ASSUME ReadPositions PROVE SameShares' /\ LiveIsDone'
    BY <2>4 DEF ReadPositions
  <2>5. ASSUME UNCHANGED priceVars PROVE SameShares' /\ LiveIsDone'
    BY <2>5 DEF priceVars
  <2> QED
    BY <2>1, <2>2, <2>3, <2>4, <2>5 DEF PriceNext
<1>4. ASSUME UNCHANGED <<answer, reading>>, traded => traded'
      PROVE  LiveTotalReconciles'
  <2>1. /\ MapThenSumSet(Lowest, Held)' = MapThenSumSet(Lowest, Held)
        /\ MapThenSumSet(Highest, Held)' = MapThenSumSet(Highest, Held)
    BY <1>4 DEF Lowest, Highest, Held, MapThenSumSet, MapThenFoldSet
  <2> QED
    BY <1>2, <1>4, <2>1 DEF LiveTotalReconciles
<1>5. ASSUME answer'.kind # "live" PROVE LiveTotalReconciles'
  BY <1>5 DEF LiveTotalReconciles
<1>6. ASSUME NEW s \in Instruments, TradeShare(s) PROVE LiveTotalReconciles'
  BY <1>4, <1>6 DEF TradeShare
<1>7. ASSUME ReadAccount PROVE LiveTotalReconciles'
  BY <1>2, <1>5, <1>7 DEF ReadAccount, LiveIsDone
<1>8. ASSUME AnswerPlain PROVE LiveTotalReconciles'
  BY <1>5, <1>8 DEF AnswerPlain, NoAnswer
<1>9. ASSUME ReadPositions PROVE LiveTotalReconciles'
  BY <1>4, <1>9 DEF ReadPositions
<1>10. ASSUME AnswerLive PROVE LiveTotalReconciles'
  <2>1. PICK tape \in Tapes, answered \in SUBSET (Instruments \ Unlisted) :
          LiveAnswer(Quotes(tape, answered))
    BY <1>10 DEF AnswerLive, LiveAnswer
  <2> DEFINE q == Quotes(tape, answered)
  <2>2. q \in [Instruments -> PriceLevels \cup {0}]
    BY <1>1, QuoteType
  <2>3. CASE Fetched(q) = {}
    BY <1>5, <2>1, <2>3 DEF LiveAnswer, NoAnswer
  <2>4. CASE Fetched(q) # {} /\ ~traded
    <3> HIDE DEF q
    <3>1. positions = reading.shares
      BY <1>2, <1>10, <2>4 DEF AnswerLive, SameShares
    <3> DEFINE sum == LiveTotal(q)
               low == MapThenSumSet(Lowest, Held)
               high == MapThenSumSet(Highest, Held)
    <3>2. sum \in Int /\ sum >= low /\ sum <= high
      BY <1>1, <2>2, <2>4, <3>1, TotalWithin
    <3>3. answer'.netLiquidation = reading.cash + sum /\ reading.cash \in Int
      <4>1. LiveAnswer(q)
        BY <2>1 DEF q
      <4> QED
        BY <1>1, <2>4, <4>1 DEF LiveAnswer, PriceTypeOK
    <3>4. reading' = reading
      BY <1>10 DEF AnswerLive
    <3>5. low' = low /\ high' = high
      BY <3>4 DEF Lowest, Highest, Held, MapThenSumSet, MapThenFoldSet
    <3> HIDE DEF sum, low, high
    <3>6. answer'.netLiquidation - reading'.cash = sum
      BY <3>2, <3>3, <3>4
    <3> QED
      BY <3>2, <3>5, <3>6 DEF LiveTotalReconciles, low, high
  <2>5. CASE traded
    <3>1. traded'
      BY <1>10, <2>5 DEF AnswerLive
    <3> QED
      BY <3>1 DEF LiveTotalReconciles
  <2> QED
    BY <2>3, <2>4, <2>5
<1>11. ASSUME RequestFails PROVE LiveTotalReconciles'
  BY <1>5, <1>11 DEF RequestFails, NoAnswer
<1>12. ASSUME UNCHANGED priceVars PROVE LiveTotalReconciles'
  BY <1>4, <1>12 DEF priceVars
<1>13. LiveTotalReconciles'
  BY <1>6, <1>7, <1>8, <1>9, <1>10, <1>11, <1>12 DEF PriceNext
<1> QED
  BY <1>1, <1>3, <1>13 DEF PriceIInv

LEMMA PriceSpecIInv == PriceSpec => []PriceIInv
BY PriceInitIInv, PriceStepIInv, PTL DEF PriceSpec

\* The variables of the live prices stay in their types.
THEOREM PriceTypeCorrect == PriceSpec => []PriceTypeOK
<1>1. PriceIInv => PriceTypeOK
  BY DEF PriceIInv
<1> QED
  BY <1>1, PriceSpecIInv, PTL

\* For any positions, prices and quotes, the live total of _apply_account_live_totals
\* is the cash and, for each position, a value between the broker's and a usable price's.
THEOREM LiveTotalsReconcile == PriceSpec => []LiveTotalReconciles
<1>1. PriceIInv => LiveTotalReconciles
  BY DEF PriceIInv
<1> QED
  BY <1>1, PriceSpecIInv, PTL

-----------------------------------------------------------------------------
(***************************************************************************)
(* The push body: what the scanner has put out after each line.            *)
(***************************************************************************)

USE PushAssumption

Pages == Len(markdown)

\* A line is of no width exactly if it is blank or a row of empty cells.
LEMMA LineShape ==
    ASSUME PushTypeOK, NEW i \in 1 .. Pages
    PROVE  /\ Pages \in Nat /\ Pages <= MaxLines
           /\ markdown[i].width = 0 <=> markdown[i].kind \in {"blank", "empty"}
           /\ Rendered(i) \in Token /\ Spacer \in Token
<1>1. markdown[i] \in Line /\ Pages \in Nat /\ Pages <= MaxLines
  BY DEF PushTypeOK, Pages
<1>2. /\ markdown[i].width \in Nat
      /\ markdown[i].width = 0 <=> markdown[i].kind \in {"blank", "empty"}
  <2>1. Widths \subseteq Nat \ {0}
    OBVIOUS
  <2>2. CASE markdown[i] \in [kind : {"heading", "text", "row", "separator"}, width : Widths]
    BY <2>1, <2>2
  <2>3. CASE markdown[i] \in [kind : {"blank", "empty"}, width : {0}]
    BY <2>3
  <2> QED
    BY <1>1, <2>2, <2>3 DEF Line
<1> QED
  BY <1>1, <1>2 DEF Rendered, Spacer, Token

ScanState == [out : Seq(Token), block : 0 .. Pages, rows : Seq(Token)]

LEMMA EndBlockType ==
    ASSUME PushTypeOK, NEW acc \in ScanState, NEW last \in 0 .. Pages
    PROVE  EndBlock(acc, last) \in Seq(Token)
<1>1. Spacer \in Token
  BY DEF Spacer, Token
<1>2. acc.rows \in Seq(Token) /\ acc.block \in 0 .. Pages
  BY DEF ScanState
<1>3. acc.block # 0 => Rendered(acc.block) \in Token
  BY <1>2, LineShape
<1> HIDE DEF Token
<1>4. <<Spacer>> \in Seq(Token) /\ (acc.block # 0 => <<Rendered(acc.block)>> \in Seq(Token))
  BY <1>1, <1>3
<1> QED
  BY <1>2, <1>4 DEF EndBlock

LEMMA PlainType ==
    ASSUME PushTypeOK, NEW i \in 1 .. Pages
    PROVE  Plain(i) \in Seq(Token)
<1>1. Spacer \in Token /\ Rendered(i) \in Token
  BY LineShape
<1> HIDE DEF Token
<1> QED
  BY <1>1 DEF Plain

LEMMA ScanType ==
    ASSUME PushTypeOK, NEW acc \in ScanState, NEW i \in 1 .. Pages
    PROVE  Scan(acc, i) \in ScanState
<1>1. Rendered(i) \in Token /\ Pages \in Nat
  BY LineShape
<1>2. acc.out \in Seq(Token) /\ acc.block \in 0 .. Pages /\ acc.rows \in Seq(Token)
  BY DEF ScanState
<1>3. EndBlock(acc, i - 1) \in Seq(Token) /\ Plain(i) \in Seq(Token)
  <2>1. i - 1 \in 0 .. Pages
    BY <1>1
  <2> QED
    BY <2>1, EndBlockType, PlainType
<1> HIDE DEF Token
<1>4. acc.out \o EndBlock(acc, i - 1) \o Plain(i) \in Seq(Token)
  BY <1>2, <1>3
<1>5. CASE ~IsTable(i)
  <2> DEFINE out == acc.out \o EndBlock(acc, i - 1) \o Plain(i)
  <2>1. Scan(acc, i) = [out |-> out, block |-> 0, rows |-> <<>>]
    BY <1>5 DEF Scan, NoLines
  <2>2. <<>> \in Seq(Token) /\ 0 \in 0 .. Pages /\ out \in Seq(Token)
    BY <1>1, <1>4
  <2> HIDE DEF out
  <2> QED
    BY <2>1, <2>2 DEF ScanState
<1>6. CASE IsTable(i)
  <2>1. /\ acc.rows \in Seq(Token) /\ Append(acc.rows, Rendered(i)) \in Seq(Token)
        /\ i \in 0 .. Pages
    BY <1>1, <1>2
  <2>2. Scan(acc, i) \in {acc, [acc EXCEPT !.block = i],
                          [acc EXCEPT !.rows = Append(acc.rows, Rendered(i))]}
    BY <1>6 DEF Scan
  <2> QED
    BY <2>1, <2>2 DEF ScanState
<1> QED
  BY <1>5, <1>6

\* The recursion over the lines.
LEMMA ScannedIs ==
    ASSUME PushTypeOK
    PROVE  /\ Scanned[0] = NoLines
           /\ \A i \in 1 .. Pages : Scanned[i] = Scan(Scanned[i - 1], i)
<1> DEFINE step == [p \in (1 .. Pages) \X ScanState |-> Scan(p[2], p[1])]
           R(g) == g = [i \in 0 .. Pages |-> IF i = 0 THEN NoLines ELSE Scan(g[i - 1], i)]
<1>1. Pages \in Nat
  BY DEF Pages, PushTypeOK
<1>2. NoLines \in ScanState
  BY <1>1 DEF NoLines, ScanState
<1>3. step \in [(1 .. Pages) \X ScanState -> ScanState]
  BY ScanType
<1>4. \A i \in 1 .. Pages, acc \in ScanState : step[<<i, acc>>] = Scan(acc, i)
  OBVIOUS
<1>5. Scanned = CHOOSE g : R(g)
  BY DEF Scanned, Pages
<1> HIDE DEF step
<1>6. PICK g \in [0 .. Pages -> ScanState] : CountsUp(g, Pages, NoLines, step)
  BY <1>1, <1>2, <1>3, CountExists
<1>7. R(g)
  <2>1. \A i \in 0 .. Pages : g[i] = IF i = 0 THEN NoLines ELSE step[<<i, g[i - 1]>>]
    BY <1>6 DEF CountsUp
  <2>2. ASSUME NEW i \in 0 .. Pages
        PROVE  g[i] = IF i = 0 THEN NoLines ELSE Scan(g[i - 1], i)
    <3>1. i # 0 => i \in 1 .. Pages /\ g[i - 1] \in ScanState
      BY <1>1
    <3> QED
      BY <1>4, <2>1, <3>1
  <2> QED
    BY <2>2
<1>8. R(Scanned)
  <2> HIDE DEF R
  <2> QED
    BY <1>5, <1>7
<1> QED
  BY <1>1, <1>8

\* The pieces have exactly some lines, in their order, and spacers.
Lists(s, lines) ==
    /\ s \in Seq(Token)
    /\ \A n \in 1 .. Len(s) : s[n].line # 0 <=> s[n].width # 0
    /\ Shown(s) = lines
    /\ InOrder(s)

LEMMA ListsNothing == Lists(<<>>, {}) /\ Lists(<<Spacer>>, {})
<1>1. Spacer \in Token /\ Spacer.line = 0 /\ Spacer.width = 0
  BY DEF Spacer, Token
<1> HIDE DEF Token, Spacer
<1>2. <<>> \in Seq(Token) /\ Len(<<>>) = 0
  OBVIOUS
<1>3. <<Spacer>> \in Seq(Token) /\ Len(<<Spacer>>) = 1 /\ <<Spacer>>[1] = Spacer
  BY <1>1
<1>4. Lists(<<>>, {})
  BY <1>2 DEF Lists, Shown, InOrder
<1>5. Lists(<<Spacer>>, {})
  BY <1>1, <1>3 DEF Lists, Shown, InOrder
<1> QED
  BY <1>4, <1>5

LEMMA ListsOne ==
    ASSUME PushTypeOK, NEW i \in 1 .. Pages, markdown[i].kind \notin {"blank", "empty"}
    PROVE  Lists(<<Rendered(i)>>, {i})
<1>1. Rendered(i) \in Token /\ Rendered(i).line = i /\ Rendered(i).width # 0
  BY LineShape DEF Rendered
<1> HIDE DEF Token
<1>2. <<Rendered(i)>> \in Seq(Token) /\ Len(<<Rendered(i)>>) = 1 /\ <<Rendered(i)>>[1] = Rendered(i)
  BY <1>1
<1> HIDE DEF Rendered
<1> QED
  BY <1>1, <1>2 DEF Lists, Shown, InOrder

LEMMA ListsConcat ==
    ASSUME NEW s, NEW S, NEW t, NEW T, Lists(s, S), Lists(t, T),
           \A a \in S, b \in T : a < b
    PROVE  Lists(s \o t, S \cup T)
<1>1. /\ s \in Seq(Token) /\ t \in Seq(Token)
      /\ Len(s) \in Nat /\ Len(t) \in Nat
  BY DEF Lists
<1> HIDE DEF Token
<1>2. /\ s \o t \in Seq(Token) /\ Len(s \o t) = Len(s) + Len(t)
      /\ \A n \in 1 .. Len(s) : (s \o t)[n] = s[n] /\ n \in 1 .. Len(s \o t)
      /\ \A n \in 1 .. Len(t) : (s \o t)[Len(s) + n] = t[n] /\ Len(s) + n \in 1 .. Len(s \o t)
      /\ \A n \in 1 .. Len(s \o t) : n \in 1 .. Len(s) \/ n - Len(s) \in 1 .. Len(t)
  BY <1>1
<1> DEFINE u == s \o t
<1>3. /\ DOMAIN s = 1 .. Len(s) /\ DOMAIN t = 1 .. Len(t) /\ DOMAIN u = 1 .. Len(u)
  BY <1>1, <1>2
<1>4. \A n \in 1 .. Len(u) : \/ n \in 1 .. Len(s) /\ u[n] = s[n]
                             \/ n - Len(s) \in 1 .. Len(t) /\ u[n] = t[n - Len(s)]
  <2> TAKE n \in 1 .. Len(u)
  <2>1. CASE n \in 1 .. Len(s)
    <3>1. u[n] = s[n]
      BY <1>2, <2>1
    <3> QED
      BY <2>1, <3>1
  <2>2. CASE n - Len(s) \in 1 .. Len(t)
    <3>1. Len(s) + (n - Len(s)) = n
      BY <1>1, <1>2
    <3> QED
      BY <1>2, <2>2, <3>1
  <2> QED
    BY <1>2, <2>1, <2>2
<1> HIDE DEF u
<1>5. Len(u) = Len(s) + Len(t) /\ u \in Seq(Token)
  BY <1>2 DEF u
<1>6. /\ \A n \in 1 .. Len(s) : u[n] = s[n] /\ n \in 1 .. Len(u)
      /\ \A n \in 1 .. Len(t) : u[Len(s) + n] = t[n] /\ Len(s) + n \in 1 .. Len(u)
  BY <1>2 DEF u
<1>7. \A n \in 1 .. Len(u) : u[n].line # 0 <=> u[n].width # 0
  BY <1>4 DEF Lists
<1>8. Shown(u) = S \cup T
  <2>1. Shown(u) \subseteq S \cup T
    BY <1>3, <1>4 DEF Lists, Shown
  <2>2. S \subseteq Shown(u)
    BY <1>3, <1>6 DEF Lists, Shown
  <2>3. T \subseteq Shown(u)
    BY <1>3, <1>6 DEF Lists, Shown
  <2> QED
    BY <2>1, <2>2, <2>3
<1>9. InOrder(u)
  <2> SUFFICES ASSUME NEW m \in 1 .. Len(u), NEW n \in 1 .. Len(u), m < n,
                      u[m].line # 0, u[n].line # 0
               PROVE  u[m].line < u[n].line
    BY <1>3 DEF InOrder
  <2>1. CASE n \in 1 .. Len(s) /\ u[n] = s[n]
    <3>1. m \in 1 .. Len(s)
      BY <2>1
    <3> QED
      BY <1>3, <1>6, <2>1, <3>1 DEF Lists, InOrder
  <2>2. CASE n - Len(s) \in 1 .. Len(t) /\ u[n] = t[n - Len(s)]
    <3>1. u[n].line \in T
      BY <1>3, <2>2 DEF Lists, Shown
    <3>2. CASE m \in 1 .. Len(s) /\ u[m] = s[m]
      <4>1. u[m].line \in S
        BY <1>3, <3>2 DEF Lists, Shown
      <4> QED
        BY <3>1, <4>1
    <3>3. CASE m - Len(s) \in 1 .. Len(t) /\ u[m] = t[m - Len(s)]
      <4>1. m - Len(s) < n - Len(s)
        BY <1>1
      <4> QED
        BY <1>3, <2>2, <3>3, <4>1 DEF Lists, InOrder
    <3> QED
      BY <1>4, <3>2, <3>3
  <2> QED
    BY <1>4, <2>1, <2>2
<1> QED
  BY <1>5, <1>7, <1>8, <1>9 DEF Lists, u

\* A line shown is one of those up to a number.
Visible(k) == {i \in 1 .. k : ShouldShow(i)}

\* What the scanner has put out after k lines, and what it has of an open block.
ScanInv(k, acc) ==
    /\ acc \in ScanState
    /\ acc.block = 0 => /\ Lists(acc.out, Visible(k))
                        /\ k > 0 => ~IsTable(k)
                        /\ acc.rows = <<>>
    /\ acc.block > 0 => /\ acc.block <= k
                        /\ Lists(acc.out, Visible(acc.block - 1))
                        /\ Lists(acc.rows, {i \in acc.block + 1 .. k : markdown[i].kind = "row"})
                        /\ \A i \in acc.block .. k : IsTable(i)
                        /\ Heads(acc.block)

\* The end of a block completes what is shown of the lines so far.
LEMMA EndBlockLists ==
    ASSUME PushTypeOK, NEW k \in 0 .. Pages, NEW acc, ScanInv(k, acc),
           k < Pages => ~IsTable(k + 1)
    PROVE  Lists(acc.out \o EndBlock(acc, k), Visible(k))
<1>1. Pages \in Nat /\ DOMAIN markdown = 1 .. Pages
  BY DEF Pages, PushTypeOK
<1>2. acc.block \in 0 .. Pages /\ acc.out \in Seq(Token) /\ acc.rows \in Seq(Token)
  BY DEF ScanInv, ScanState
<1>3. CASE acc.block = 0
  <2>1. acc.out \o EndBlock(acc, k) = acc.out
    <3> HIDE DEF Token
    <3> QED
      BY <1>2, <1>3 DEF EndBlock
  <2> QED
    BY <1>3, <2>1 DEF ScanInv
<1>4. CASE acc.block # 0
  <2> DEFINE b == acc.block
             inBlock == {i \in b .. k : ShouldShow(i)}
  <2>1. b \in 1 .. Pages /\ b <= k /\ Heads(b) /\ \A i \in b .. k : IsTable(i)
    BY <1>2, <1>4 DEF ScanInv
  <2>2. Lists(acc.out, Visible(b - 1))
    BY <1>2, <1>4 DEF ScanInv
  <2>3. Lists(acc.rows, {i \in b + 1 .. k : markdown[i].kind = "row"})
    BY <1>2, <1>4 DEF ScanInv
  <2> HIDE DEF b
  <2>4. Lists(EndBlock(acc, k), inBlock)
    <3>1. CASE b < k
      <4>1. InTable(b) /\ ~ShouldShow(b)
        <5>1. b + 1 \in {b - 1, b + 1} \cap DOMAIN markdown /\ IsTable(b + 1) /\ IsTable(b)
          BY <1>1, <2>1, <3>1
        <5> QED
          BY <2>1, <5>1 DEF InTable, ShouldShow
      <4>2. ASSUME NEW i \in b + 1 .. k
            PROVE  ShouldShow(i) <=> markdown[i].kind = "row"
        <5>1. i - 1 \in {i - 1, i + 1} \cap DOMAIN markdown /\ IsTable(i - 1) /\ IsTable(i) /\ i # 1
          BY <1>1, <2>1, <3>1
        <5> QED
          BY <5>1 DEF InTable, ShouldShow, Heads
      <4>3. inBlock = {i \in b + 1 .. k : markdown[i].kind = "row"}
        <5>1. \A i \in b .. k : i = b \/ i \in b + 1 .. k
          BY <2>1
        <5>2. \A i \in b + 1 .. k : i \in b .. k
          BY <2>1
        <5> QED
          BY <4>1, <4>2, <5>1, <5>2
      <4> HIDE DEF inBlock
      <4>4. CASE acc.rows = <<>>
        <5>1. inBlock = {}
          BY <2>3, <4>3, <4>4, ListsNothing DEF Lists
        <5>2. EndBlock(acc, k) = <<Spacer>>
          BY <1>4, <3>1, <4>4 DEF EndBlock, b
        <5> QED
          BY <5>1, <5>2, ListsNothing
      <4>5. CASE acc.rows # <<>>
        <5>1. EndBlock(acc, k) = acc.rows
          BY <1>4, <3>1, <4>5 DEF EndBlock, b
        <5> QED
          BY <2>3, <4>3, <5>1
      <4> QED
        BY <4>4, <4>5
    <3>2. CASE b = k
      <4>1. inBlock = {i \in {b} : ShouldShow(i)}
        BY <2>1, <3>2
      <4>2. ~InTable(b)
        <5>1. \A j \in {b - 1, b + 1} \cap DOMAIN markdown : ~IsTable(j)
          BY <1>1, <2>1, <3>2 DEF Heads
        <5> QED
          BY <5>1 DEF InTable
      <4>3. ShouldShow(b) <=> markdown[b].kind # "empty"
        BY <2>1, <4>2 DEF ShouldShow, IsTable, TableKinds
      <4> HIDE DEF inBlock
      <4>4. CASE markdown[b].kind = "empty"
        <5>1. EndBlock(acc, k) = <<Spacer>> /\ inBlock = {}
          BY <1>4, <2>1, <3>2, <4>1, <4>3, <4>4 DEF EndBlock, b
        <5> QED
          BY <5>1, ListsNothing
      <4>5. CASE markdown[b].kind # "empty"
        <5>1. EndBlock(acc, k) = <<Rendered(b)>> /\ inBlock = {b}
          BY <1>4, <2>1, <3>2, <4>1, <4>3, <4>5 DEF EndBlock, b
        <5>2. markdown[b].kind \notin {"blank", "empty"}
          BY <2>1, <4>5 DEF IsTable, TableKinds
        <5> QED
          BY <2>1, <5>1, <5>2, ListsOne
      <4> QED
        BY <4>4, <4>5
    <3> QED
      BY <2>1, <3>1, <3>2
  <2>5. Visible(k) = Visible(b - 1) \cup inBlock
    BY <2>1 DEF Visible
  <2>6. \A x \in Visible(b - 1), y \in inBlock : x < y
    BY <2>1 DEF Visible
  <2> HIDE DEF inBlock
  <2> QED
    BY <2>2, <2>4, <2>5, <2>6, ListsConcat
<1> QED
  BY <1>3, <1>4

\* A line that is no table line is shown unless it is blank.
LEMMA PlainLists ==
    ASSUME PushTypeOK, NEW i \in 1 .. Pages, ~IsTable(i)
    PROVE  Lists(Plain(i), {j \in {i} : ShouldShow(j)})
<1>1. /\ ShouldShow(i) <=> markdown[i].kind # "blank"
      /\ markdown[i].kind # "empty"
  BY DEF ShouldShow, InTable, IsTable, TableKinds
<1>2. CASE markdown[i].kind = "blank"
  <2>1. Plain(i) = <<Spacer>> /\ {j \in {i} : ShouldShow(j)} = {}
    BY <1>1, <1>2 DEF Plain
  <2> QED
    BY <2>1, ListsNothing
<1>3. CASE markdown[i].kind # "blank"
  <2>1. Lists(<<Rendered(i)>>, {i}) /\ {j \in {i} : ShouldShow(j)} = {i}
    BY <1>1, <1>3, ListsOne
  <2>2. CASE markdown[i].kind = "heading"
    <3>1. Plain(i) = <<Rendered(i)>> \o <<Spacer>>
      BY <2>2 DEF Plain
    <3>2. Lists(<<Rendered(i)>> \o <<Spacer>>, {i} \cup {})
      BY <2>1, ListsNothing, ListsConcat
    <3> QED
      BY <2>1, <3>1, <3>2
  <2>3. CASE markdown[i].kind # "heading"
    BY <1>3, <2>1, <2>3 DEF Plain
  <2> QED
    BY <2>2, <2>3
<1> QED
  BY <1>2, <1>3

LEMMA ScanStep ==
    ASSUME PushTypeOK, NEW k \in 1 .. Pages, NEW acc, ScanInv(k - 1, acc)
    PROVE  ScanInv(k, Scan(acc, k))
<1> DEFINE new == Scan(acc, k)
<1> SUFFICES ScanInv(k, new)
  OBVIOUS
<1>1. Pages \in Nat /\ DOMAIN markdown = 1 .. Pages
  BY DEF Pages, PushTypeOK
<1>2. /\ acc \in ScanState /\ acc.block \in 0 .. Pages
      /\ acc.out \in Seq(Token) /\ acc.rows \in Seq(Token)
  BY DEF ScanInv, ScanState
<1>3. new \in ScanState
  BY <1>2, ScanType
<1>4. CASE ~IsTable(k)
  <2>1. Lists(acc.out \o EndBlock(acc, k - 1), Visible(k - 1))
    <3>1. k - 1 \in 0 .. Pages /\ (k - 1 < Pages => ~IsTable((k - 1) + 1))
      BY <1>1, <1>4
    <3> QED
      BY <3>1, EndBlockLists
  <2>2. Lists(Plain(k), {j \in {k} : ShouldShow(j)})
    BY <1>4, PlainLists
  <2>3. \A a \in Visible(k - 1), b \in {j \in {k} : ShouldShow(j)} : a < b
    BY DEF Visible
  <2>4. Visible(k - 1) \cup {j \in {k} : ShouldShow(j)} = Visible(k)
    BY DEF Visible
  <2>5. Lists((acc.out \o EndBlock(acc, k - 1)) \o Plain(k), Visible(k))
    BY <2>1, <2>2, <2>3, <2>4, ListsConcat
  <2>6. /\ new.out = (acc.out \o EndBlock(acc, k - 1)) \o Plain(k)
        /\ new.block = 0 /\ new.rows = <<>>
    BY <1>4 DEF Scan, NoLines
  <2> HIDE DEF new
  <2> QED
    BY <1>3, <1>4, <2>5, <2>6 DEF ScanInv
<1>5. CASE IsTable(k) /\ acc.block = 0
  <2>1. new = [acc EXCEPT !.block = k]
    BY <1>5 DEF Scan
  <2>2. new.out = acc.out /\ new.block = k /\ new.rows = acc.rows
    BY <1>2, <2>1 DEF ScanState
  <2>3. Lists(new.out, Visible(new.block - 1))
    BY <1>5, <2>2 DEF ScanInv
  <2>4. Lists(new.rows, {i \in new.block + 1 .. k : markdown[i].kind = "row"})
    <3>1. acc.rows = <<>> /\ {i \in k + 1 .. k : markdown[i].kind = "row"} = {}
      BY <1>5 DEF ScanInv
    <3> QED
      BY <2>2, <3>1, ListsNothing
  <2>5. Heads(k)
    <3>1. k # 1 => ~IsTable(k - 1)
      BY <1>5 DEF ScanInv
    <3> QED
      BY <3>1 DEF Heads
  <2>6. \A i \in k .. k : IsTable(i)
    BY <1>5
  <2> HIDE DEF new
  <2> QED
    BY <1>3, <2>2, <2>3, <2>4, <2>5, <2>6 DEF ScanInv
<1>6. CASE IsTable(k) /\ acc.block # 0
  <2> DEFINE data(n) == {i \in acc.block + 1 .. n : markdown[i].kind = "row"}
  <2>1. /\ acc.block > 0 /\ acc.block <= k - 1 /\ Lists(acc.out, Visible(acc.block - 1))
        /\ Lists(acc.rows, data(k - 1)) /\ Heads(acc.block)
        /\ \A i \in acc.block .. k - 1 : IsTable(i)
    BY <1>2, <1>6 DEF ScanInv
  <2>2. \A i \in acc.block .. k : IsTable(i)
    BY <1>2, <1>6, <2>1
  <2>3. /\ new.out = acc.out /\ new.block = acc.block
        /\ new.rows = IF markdown[k].kind = "row" THEN Append(acc.rows, Rendered(k)) ELSE acc.rows
    BY <1>2, <1>6 DEF Scan, ScanState
  <2>4. Lists(new.rows, data(k))
    <3>1. CASE markdown[k].kind = "row"
      <4>1. Lists(<<Rendered(k)>>, {k})
        BY <3>1, ListsOne
      <4>2. \A a \in data(k - 1), b \in {k} : a < b
        BY <1>2
      <4>3. data(k) = data(k - 1) \cup {k}
        BY <1>2, <2>1, <3>1
      <4>4. new.rows = acc.rows \o <<Rendered(k)>>
        <5>1. Rendered(k) \in Token
          BY LineShape
        <5> HIDE DEF Token
        <5> QED
          BY <1>2, <2>3, <3>1, <5>1, AppendIsConcat
      <4> HIDE DEF data, new
      <4> QED
        BY <2>1, <4>1, <4>2, <4>3, <4>4, ListsConcat
    <3>2. CASE markdown[k].kind # "row"
      <4>1. data(k) = data(k - 1)
        BY <1>2, <2>1, <3>2
      <4> HIDE DEF data, new
      <4> QED
        BY <2>1, <2>3, <3>2, <4>1
    <3> QED
      BY <3>1, <3>2
  <2>5. acc.block <= k
    BY <1>2, <2>1
  <2> HIDE DEF new
  <2> QED
    BY <1>2, <1>3, <1>6, <2>1, <2>2, <2>3, <2>4, <2>5 DEF ScanInv
<1> QED
  BY <1>4, <1>5, <1>6

LEMMA PiecesList ==
    ASSUME PushTypeOK
    PROVE  Lists(Pieces, Visible(Pages))
<1> DEFINE G == {k \in 0 .. Pages : ScanInv(k, Scanned[k])}
<1>1. Pages \in Nat
  BY DEF Pages, PushTypeOK
<1>2. 0 \in G
  <2>1. Visible(0) = {}
    BY DEF Visible
  <2>2. NoLines \in ScanState /\ NoLines.block = 0 /\ NoLines.out = <<>> /\ NoLines.rows = <<>>
    BY <1>1 DEF NoLines, ScanState
  <2> HIDE DEF NoLines
  <2>3. ScanInv(0, NoLines)
    <3>1. Lists(NoLines.out, Visible(0))
      BY <2>1, <2>2, ListsNothing, Zenon
    <3>2. ~(0 > 0) /\ ~(NoLines.block > 0)
      BY <2>2
    <3> QED
      BY <2>2, <3>1, <3>2, Zenon DEF ScanInv
  <2> QED
    BY <1>1, <2>3, ScannedIs
<1>3. ASSUME NEW k \in 1 .. Pages, k - 1 \in G PROVE k \in G
  <2>1. ScanInv(k - 1, Scanned[k - 1])
    BY <1>3
  <2>2. ScanInv(k, Scan(Scanned[k - 1], k))
    BY <2>1, ScanStep
  <2> QED
    BY <1>1, <2>2, ScannedIs
<1> HIDE DEF G
<1>4. Pages \in G
  BY <1>1, <1>2, <1>3, UpFromZero
<1>5. ScanInv(Pages, Scanned[Pages])
  BY <1>4 DEF G
<1>6. Lists(Scanned[Pages].out \o EndBlock(Scanned[Pages], Pages), Visible(Pages))
  BY <1>1, <1>5, EndBlockLists
<1> QED
  BY <1>6 DEF Pieces, Pages

-----------------------------------------------------------------------------
(***************************************************************************)
(* The push body: the pieces joined.                                       *)
(***************************************************************************)

\* Lines in their order, apart by one or two breaks.
Tidy(tokens) ==
    /\ tokens \in Seq(Token)
    /\ \A n \in 1 .. Len(tokens) : tokens[n] = Break \/ tokens[n].line # 0
    /\ InOrder(tokens)
    /\ \A n \in 1 .. Len(tokens) - 1 : tokens[n] # Break => tokens[n + 1] = Break
    /\ \A n \in 1 .. Len(tokens) - 2 : \E m \in n .. n + 2 : tokens[m] # Break

\* What one more token changes.
LEMMA Appended ==
    ASSUME NEW tokens \in Seq(Token), NEW t \in Token
    PROVE  /\ Append(tokens, t) \in Seq(Token)
           /\ Len(tokens) \in Nat /\ Len(Append(tokens, t)) = Len(tokens) + 1
           /\ DOMAIN tokens = 1 .. Len(tokens) /\ DOMAIN Append(tokens, t) = 1 .. Len(tokens) + 1
           /\ \A n \in 1 .. Len(tokens) : Append(tokens, t)[n] = tokens[n]
           /\ Append(tokens, t)[Len(tokens) + 1] = t
<1> HIDE DEF Token
<1> QED
  OBVIOUS

LEMMA AppendedShown ==
    ASSUME NEW tokens \in Seq(Token), NEW t \in Token
    PROVE  /\ Shown(Append(tokens, t)) = Shown(tokens) \cup ({t.line} \ {0})
           /\ InOrder(tokens) /\ (t.line # 0 => \A i \in Shown(tokens) : i < t.line)
                => InOrder(Append(tokens, t))
<1> DEFINE u == Append(tokens, t)
           N == Len(tokens)
<1>1. /\ N \in Nat /\ DOMAIN tokens = 1 .. N /\ DOMAIN u = 1 .. N + 1
      /\ \A n \in 1 .. N : u[n] = tokens[n]
      /\ u[N + 1] = t
  BY Appended
<1> HIDE DEF u, N, Token
<1>2. Shown(u) = Shown(tokens) \cup ({t.line} \ {0})
  <2>1. \A n \in 1 .. N + 1 : n \in 1 .. N \/ n = N + 1
    BY <1>1
  <2>2. \A n \in 1 .. N : n \in 1 .. N + 1
    BY <1>1
  <2>3. N + 1 \in 1 .. N + 1
    BY <1>1
  <2> QED
    BY <1>1, <2>1, <2>2, <2>3 DEF Shown
<1>3. ASSUME InOrder(tokens), t.line # 0 => \A i \in Shown(tokens) : i < t.line
      PROVE  InOrder(u)
  <2> SUFFICES ASSUME NEW m \in 1 .. N + 1, NEW n \in 1 .. N + 1, m < n,
                      u[m].line # 0, u[n].line # 0
               PROVE  u[m].line < u[n].line
    BY <1>1 DEF InOrder
  <2>1. m \in 1 .. N /\ u[m] = tokens[m]
    BY <1>1
  <2>2. CASE n = N + 1
    <3>1. tokens[m].line \in Shown(tokens)
      BY <1>1, <2>1 DEF Shown
    <3> QED
      BY <1>1, <1>3, <2>1, <2>2, <3>1
  <2>3. CASE n # N + 1
    <3>1. n \in 1 .. N /\ u[n] = tokens[n]
      BY <1>1, <2>3
    <3> QED
      BY <1>1, <1>3, <2>1, <3>1 DEF InOrder
  <2> QED
    BY <2>2, <2>3
<1> QED
  BY <1>2, <1>3 DEF u

LEMMA BreakShape == Break \in Token /\ Break.line = 0 /\ Break.width = 4
BY DEF Break, Token

LEMMA AddBreakTidy ==
    ASSUME NEW tokens, Tidy(tokens)
    PROVE  /\ Tidy(AddBreak(tokens)) /\ Shown(AddBreak(tokens)) = Shown(tokens)
           /\ AddBreak(tokens)[Len(AddBreak(tokens))] = Break
<1> DEFINE N == Len(tokens)
           u == Append(tokens, Break)
<1>1. tokens \in Seq(Token)
  BY DEF Tidy
<1>2. CASE N >= 2 /\ tokens[N] = Break /\ tokens[N - 1] = Break
  BY <1>2 DEF AddBreak
<1>3. CASE ~(N >= 2 /\ tokens[N] = Break /\ tokens[N - 1] = Break)
  <2>1. AddBreak(tokens) = u
    BY <1>3 DEF AddBreak
  <2>2. /\ u \in Seq(Token) /\ N \in Nat /\ Len(u) = N + 1
        /\ \A n \in 1 .. N : u[n] = tokens[n]
        /\ u[N + 1] = Break
    BY <1>1, Appended, BreakShape
  <2>3. Shown(u) = Shown(tokens) /\ InOrder(u)
    <3>1. InOrder(tokens)
      BY DEF Tidy
    <3> HIDE DEF Token, Break
    <3>2. /\ Shown(u) = Shown(tokens) \cup ({Break.line} \ {0})
          /\ InOrder(tokens) /\ (Break.line # 0 => \A i \in Shown(tokens) : i < Break.line)
               => InOrder(u)
      BY <1>1, AppendedShown, BreakShape
    <3> HIDE DEF u
    <3> QED
      BY <3>1, <3>2, BreakShape
  <2>4. \A n \in 1 .. N : \/ tokens[n] = Break
                          \/ tokens[n].line # 0
    BY DEF Tidy
  <2>5. \A n \in 1 .. N - 1 : tokens[n] # Break => tokens[n + 1] = Break
    BY DEF Tidy
  <2>6. \A n \in 1 .. N - 2 : \E m \in n .. n + 2 : tokens[m] # Break
    BY DEF Tidy
  <2> HIDE DEF u, N, Token, Break
  <2>7. \A n \in 1 .. N + 1 : u[n] = Break \/ u[n].line # 0
    BY <2>2, <2>4
  <2>8. \A n \in 1 .. N : u[n] # Break => u[n + 1] = Break
    BY <2>2, <2>5
  <2>9. ASSUME NEW n \in 1 .. N - 1
        PROVE  \E m \in n .. n + 2 : u[m] # Break
    <3>1. CASE n \in 1 .. N - 2
      <4>1. PICK m \in n .. n + 2 : tokens[m] # Break
        BY <2>6, <3>1
      <4>2. m \in 1 .. N
        BY <2>2, <3>1
      <4> QED
        BY <2>2, <4>1, <4>2
    <3>2. CASE n = N - 1
      <4>1. N >= 2 /\ N - 1 \in 1 .. N /\ N \in 1 .. N /\ N - 1 \in n .. n + 2 /\ N \in n .. n + 2
        BY <2>2, <3>2
      <4>2. u[N] # Break \/ u[N - 1] # Break
        BY <1>3, <2>2, <4>1 DEF N
      <4> QED
        BY <4>1, <4>2
    <3> QED
      BY <2>2, <3>1, <3>2
  <2>10. Tidy(u)
    <3>1. Len(u) - 1 = N /\ Len(u) - 2 = N - 1
      BY <2>2
    <3> QED
      BY <2>2, <2>3, <2>7, <2>8, <2>9, <3>1 DEF Tidy
  <2> QED
    BY <2>1, <2>2, <2>3, <2>10
<1> QED
  BY <1>2, <1>3

LEMMA AddPieceTidy ==
    ASSUME NEW tokens, Tidy(tokens), tokens = <<>> \/ tokens[Len(tokens)] = Break,
           NEW piece \in Token, piece.line # 0 <=> piece.width # 0,
           piece.line # 0 => \A i \in Shown(tokens) : i < piece.line
    PROVE  /\ Tidy(AddPiece(tokens, piece))
           /\ Shown(AddPiece(tokens, piece)) = Shown(tokens) \cup ({piece.line} \ {0})
<1> DEFINE N == Len(tokens)
           u == Append(tokens, piece)
<1>1. tokens \in Seq(Token)
  BY DEF Tidy
<1>2. CASE piece.width = 0
  BY <1>2 DEF AddPiece
<1>3. CASE piece.width # 0
  <2>1. AddPiece(tokens, piece) = u
    BY <1>3 DEF AddPiece
  <2>2. /\ u \in Seq(Token) /\ N \in Nat /\ Len(u) = N + 1
        /\ \A n \in 1 .. N : u[n] = tokens[n]
        /\ u[N + 1] = piece
    BY <1>1, Appended
  <2>3. Shown(u) = Shown(tokens) \cup ({piece.line} \ {0}) /\ InOrder(u)
    BY <1>1, AppendedShown DEF Tidy
  <2>4. \A n \in 1 .. N : \/ tokens[n] = Break
                          \/ tokens[n].line # 0
    BY DEF Tidy
  <2>5. \A n \in 1 .. N - 1 : tokens[n] # Break => tokens[n + 1] = Break
    BY DEF Tidy
  <2>6. \A n \in 1 .. N - 2 : \E m \in n .. n + 2 : tokens[m] # Break
    BY DEF Tidy
  <2>7. piece # Break
    BY <1>3, BreakShape
  <2>8. N > 0 => tokens[N] = Break
    BY <1>1
  <2> HIDE DEF u, N, Token, Break
  <2>9. \A n \in 1 .. N + 1 : u[n] = Break \/ u[n].line # 0
    BY <1>3, <2>2, <2>4
  <2>10. \A n \in 1 .. N : u[n] # Break => u[n + 1] = Break
    BY <2>2, <2>5, <2>8
  <2>11. ASSUME NEW n \in 1 .. N - 1
         PROVE  \E m \in n .. n + 2 : u[m] # Break
    <3>1. CASE n \in 1 .. N - 2
      <4>1. PICK m \in n .. n + 2 : tokens[m] # Break
        BY <2>6, <3>1
      <4>2. m \in 1 .. N
        BY <2>2, <3>1
      <4> QED
        BY <2>2, <4>1, <4>2
    <3>2. CASE n = N - 1
      <4>1. N + 1 \in n .. n + 2
        BY <2>2, <3>2
      <4> QED
        BY <2>2, <2>7, <4>1
    <3> QED
      BY <2>2, <3>1, <3>2
  <2>12. Tidy(u)
    <3>1. Len(u) - 1 = N /\ Len(u) - 2 = N - 1
      BY <2>2
    <3> QED
      BY <2>2, <2>3, <2>9, <2>10, <2>11, <3>1 DEF Tidy
  <2> QED
    BY <2>1, <2>3, <2>12
<1> QED
  BY <1>2, <1>3

\* The recursion over the pieces.
LEMMA JoinedIs ==
    ASSUME NEW pieces \in Seq(Token)
    PROVE  \E g : /\ Joined(pieces) = g[Len(pieces)]
                  /\ g[0] = <<>>
                  /\ \A n \in 1 .. Len(pieces) :
                        g[n] = AddPiece(IF n = 1 THEN g[0] ELSE AddBreak(g[n - 1]), pieces[n])
<1> DEFINE add(tokens, n) == AddPiece(IF n = 1 THEN <<>> ELSE AddBreak(tokens), pieces[n])
           step == [p \in (1 .. Len(pieces)) \X Seq(Token) |-> add(p[2], p[1])]
           R(g) == g = [n \in 0 .. Len(pieces) |->
                          IF n = 0 THEN <<>>
                          ELSE AddPiece(IF n = 1 THEN g[0] ELSE AddBreak(g[n - 1]), pieces[n])]
<1>1. Len(pieces) \in Nat
  OBVIOUS
<1>2. ASSUME NEW tokens \in Seq(Token), NEW n \in 1 .. Len(pieces)
      PROVE  add(tokens, n) \in Seq(Token)
  <2> HIDE DEF Token
  <2>1. AddBreak(tokens) \in Seq(Token)
    <3>1. Append(tokens, Break) \in Seq(Token)
      BY BreakShape, Appended
    <3> QED
      BY <3>1 DEF AddBreak
  <2>2. <<>> \in Seq(Token) /\ pieces[n] \in Token
    OBVIOUS
  <2>3. \A s \in Seq(Token) : AddPiece(s, pieces[n]) \in Seq(Token)
    BY <2>2, Appended DEF AddPiece
  <2> QED
    BY <2>1, <2>2, <2>3
<1>3. step \in [(1 .. Len(pieces)) \X Seq(Token) -> Seq(Token)]
  BY <1>2
<1>4. \A n \in 1 .. Len(pieces), tokens \in Seq(Token) : step[<<n, tokens>>] = add(tokens, n)
  OBVIOUS
<1>5. Joined(pieces) = (CHOOSE g : R(g))[Len(pieces)]
  BY DEF Joined
<1> HIDE DEF step
<1>6. PICK g \in [0 .. Len(pieces) -> Seq(Token)] : CountsUp(g, Len(pieces), <<>>, step)
  <2> HIDE DEF Token
  <2>1. <<>> \in Seq(Token)
    OBVIOUS
  <2> QED
    BY <1>1, <1>3, <2>1, CountExists
<1>7. R(g)
  <2>1. \A n \in 0 .. Len(pieces) : g[n] = IF n = 0 THEN <<>> ELSE step[<<n, g[n - 1]>>]
    BY <1>6 DEF CountsUp
  <2>2. ASSUME NEW n \in 0 .. Len(pieces)
        PROVE  g[n] = IF n = 0 THEN <<>>
                      ELSE AddPiece(IF n = 1 THEN g[0] ELSE AddBreak(g[n - 1]), pieces[n])
    <3>1. n # 0 => n \in 1 .. Len(pieces) /\ g[n - 1] \in Seq(Token)
      BY <1>1
    <3>2. g[0] = <<>>
      <4>1. 0 \in 0 .. Len(pieces)
        BY <1>1
      <4> HIDE DEF Token
      <4> QED
        BY <2>1, <4>1, Zenon
    <3>3. n # 0 => g[n] = add(g[n - 1], n)
      BY <1>4, <2>1, <3>1
    <3> QED
      BY <2>1, <3>2, <3>3
  <2> QED
    BY <2>2
<1> DEFINE it == CHOOSE h : R(h)
<1>8. R(it) /\ Joined(pieces) = it[Len(pieces)]
  <2> HIDE DEF R
  <2> QED
    BY <1>5, <1>7
<1> HIDE DEF it
<1>9. /\ it[0] = <<>>
      /\ \A n \in 1 .. Len(pieces) :
            it[n] = AddPiece(IF n = 1 THEN it[0] ELSE AddBreak(it[n - 1]), pieces[n])
  <2>1. \A n \in 0 .. Len(pieces) :
            it[n] = IF n = 0 THEN <<>>
                    ELSE AddPiece(IF n = 1 THEN it[0] ELSE AddBreak(it[n - 1]), pieces[n])
    BY <1>8, Zenon
  <2>2. 0 \in 0 .. Len(pieces) /\ \A n \in 1 .. Len(pieces) : n \in 0 .. Len(pieces) /\ n # 0
    BY <1>1
  <2> QED
    BY <2>1, <2>2, Zenon
<1> QED
  BY <1>8, <1>9, Zenon

\* Joining keeps the lines and their order.
LEMMA JoinedTidy ==
    ASSUME NEW pieces, NEW lines, Lists(pieces, lines), 0 \notin lines
    PROVE  Tidy(Joined(pieces)) /\ Shown(Joined(pieces)) = lines
<1> DEFINE N == Len(pieces)
           linesOf(n) == {pieces[m].line : m \in 1 .. n} \ {0}
<1>1. /\ pieces \in Seq(Token) /\ N \in Nat /\ DOMAIN pieces = 1 .. N
      /\ \A n \in 1 .. N : pieces[n] \in Token /\ (pieces[n].line # 0 <=> pieces[n].width # 0)
      /\ InOrder(pieces)
  BY DEF Lists
<1>2. linesOf(N) = lines
  BY <1>1 DEF Lists, Shown
<1>3. PICK g : /\ Joined(pieces) = g[N]
               /\ g[0] = <<>>
               /\ \A n \in 1 .. N :
                    g[n] = AddPiece(IF n = 1 THEN g[0] ELSE AddBreak(g[n - 1]), pieces[n])
  BY <1>1, JoinedIs
<1> HIDE DEF N
<1> DEFINE G == {n \in 0 .. N : Tidy(g[n]) /\ Shown(g[n]) = linesOf(n)}
<1>4. Tidy(<<>>) /\ Shown(<<>>) = {}
  <2>1. <<>> \in Seq(Token) /\ Len(<<>>) = 0 /\ DOMAIN <<>> = {}
    OBVIOUS
  <2> QED
    BY <2>1 DEF Tidy, Shown, InOrder
<1>5. 0 \in G
  <2>1. linesOf(0) = {} /\ 0 \in 0 .. N
    BY <1>1
  <2> QED
    BY <1>3, <1>4, <2>1
<1>6. ASSUME NEW n \in 1 .. N, n - 1 \in G PROVE n \in G
  <2> DEFINE broken == IF n = 1 THEN g[0] ELSE AddBreak(g[n - 1])
  <2>1. Tidy(g[n - 1]) /\ Shown(g[n - 1]) = linesOf(n - 1)
    BY <1>6
  <2>2. /\ Tidy(broken) /\ Shown(broken) = linesOf(n - 1)
        /\ broken = <<>> \/ broken[Len(broken)] = Break
    <3>1. CASE n = 1
      BY <1>3, <2>1, <3>1
    <3>2. CASE n # 1
      BY <2>1, <3>2, AddBreakTidy
    <3> QED
      BY <3>1, <3>2
  <2>3. /\ pieces[n] \in Token /\ (pieces[n].line # 0 <=> pieces[n].width # 0)
        /\ pieces[n].line # 0 => \A i \in linesOf(n - 1) : i < pieces[n].line
    <3>1. \A m \in 1 .. n - 1 : m \in 1 .. N /\ m < n
      BY <1>1
    <3> QED
      BY <1>1, <3>1 DEF InOrder
  <2>4. g[n] = AddPiece(broken, pieces[n])
    BY <1>3
  <2>5. linesOf(n) = linesOf(n - 1) \cup ({pieces[n].line} \ {0})
    <3>1. \A m \in 1 .. n : m \in 1 .. n - 1 \/ m = n
      BY <1>1
    <3>2. n \in 1 .. n /\ \A m \in 1 .. n - 1 : m \in 1 .. n
      BY <1>1
    <3> QED
      BY <3>1, <3>2
  <2> HIDE DEF broken, linesOf
  <2>6. Tidy(g[n]) /\ Shown(g[n]) = linesOf(n)
    BY <2>2, <2>3, <2>4, <2>5, AddPieceTidy
  <2> QED
    BY <1>1, <2>6
<1> HIDE DEF G
<1>7. N \in G
  <2>1. N \in Nat /\ N \in 0 .. N
    BY <1>1
  <2>2. \A n \in 0 .. N : n \in G
    BY <2>1, <1>5, <1>6, UpFromZero
  <2> QED
    BY <2>1, <2>2
<1> QED
  BY <1>2, <1>3, <1>7 DEF G

\* The conversion keeps the lines.
LEMMA HtmlKeepsLines ==
    ASSUME PushTypeOK
    PROVE  MarkdownToPushoverHtml \in Seq(Token) /\ KeepsLines(MarkdownToPushoverHtml)
<1>1. Lists(Pieces, Visible(Pages)) /\ 0 \notin Visible(Pages)
  BY PiecesList DEF Visible
<1>2. Tidy(MarkdownToPushoverHtml) /\ Shown(MarkdownToPushoverHtml) = Visible(Pages)
  BY <1>1, JoinedTidy DEF MarkdownToPushoverHtml
<1>3. Visible(Pages) = {i \in DOMAIN markdown : ShouldShow(i)}
  BY DEF Visible, Pages, PushTypeOK
<1> QED
  BY <1>2, <1>3 DEF Tidy, KeepsLines

-----------------------------------------------------------------------------
(***************************************************************************)
(* The push body: the cut.                                                 *)
(***************************************************************************)

\* The recursion over the tokens.
LEMMA UpToIs ==
    ASSUME NEW tokens \in Seq(Token)
    PROVE  /\ UpTo(tokens)[0] = 0
           /\ \A k \in 1 .. Len(tokens) :
                UpTo(tokens)[k] = UpTo(tokens)[k - 1] + tokens[k].width
           /\ \A k \in 0 .. Len(tokens) : UpTo(tokens)[k] \in Nat
<1> DEFINE N == Len(tokens)
           step == [p \in (1 .. N) \X Nat |-> p[2] + tokens[p[1]].width]
           R(g) == g = [k \in 0 .. N |-> IF k = 0 THEN 0 ELSE g[k - 1] + tokens[k].width]
<1>1. N \in Nat /\ \A k \in 1 .. N : tokens[k].width \in Nat
  <2>1. \A k \in 1 .. N : tokens[k] \in Token
    OBVIOUS
  <2> QED
    BY <2>1 DEF Token
<1>2. UpTo(tokens) = CHOOSE g : R(g)
  BY DEF UpTo
<1> HIDE DEF N
<1>3. step \in [(1 .. N) \X Nat -> Nat]
  BY <1>1
<1>4. \A k \in 1 .. N, w \in Nat : step[<<k, w>>] = w + tokens[k].width
  OBVIOUS
<1> HIDE DEF step
<1>5. PICK g \in [0 .. N -> Nat] : CountsUp(g, N, 0, step)
  <2>1. 0 \in Nat
    OBVIOUS
  <2> QED
    BY <1>1, <1>3, <2>1, CountExists
<1>6. R(g)
  <2>1. \A k \in 0 .. N : g[k] = IF k = 0 THEN 0 ELSE step[<<k, g[k - 1]>>]
    BY <1>5 DEF CountsUp
  <2>2. ASSUME NEW k \in 0 .. N
        PROVE  g[k] = IF k = 0 THEN 0 ELSE g[k - 1] + tokens[k].width
    <3>1. k # 0 => k \in 1 .. N /\ g[k - 1] \in Nat
      BY <1>1
    <3> QED
      BY <1>4, <2>1, <3>1
  <2> QED
    BY <2>2
<1>7. R(UpTo(tokens))
  <2> HIDE DEF R
  <2> QED
    BY <1>2, <1>6
<1>8. /\ UpTo(tokens)[0] = 0
      /\ \A k \in 1 .. N : UpTo(tokens)[k] = UpTo(tokens)[k - 1] + tokens[k].width
  BY <1>1, <1>7
<1> DEFINE G == {k \in 0 .. N : UpTo(tokens)[k] \in Nat}
<1>9. 0 \in G
  BY <1>1, <1>8
<1>10. ASSUME NEW k \in 1 .. N, k - 1 \in G PROVE k \in G
  <2>1. k - 1 \in 0 .. N /\ UpTo(tokens)[k - 1] \in Nat
    BY <1>10
  <2>2. UpTo(tokens)[k] = UpTo(tokens)[k - 1] + tokens[k].width /\ tokens[k].width \in Nat
    BY <1>1, <1>8
  <2> QED
    BY <1>1, <2>1, <2>2
<1> HIDE DEF G
<1>11. \A k \in 0 .. N : k \in G
  BY <1>1, <1>9, <1>10, UpFromZero
<1> QED
  BY <1>8, <1>11 DEF G, N

\* The first tokens are as wide alone as they are in front of others.
LEMMA PrefixWidth ==
    ASSUME NEW tokens \in Seq(Token), NEW n \in 0 .. Len(tokens)
    PROVE  /\ SubSeq(tokens, 1, n) \in Seq(Token) /\ Len(SubSeq(tokens, 1, n)) = n
           /\ Width(SubSeq(tokens, 1, n)) = UpTo(tokens)[n]
<1> DEFINE s == SubSeq(tokens, 1, n)
<1>1. /\ s \in Seq(Token) /\ Len(s) = n
      /\ \A k \in 1 .. n : s[k] = tokens[k] /\ k \in 1 .. Len(tokens)
      /\ n \in Nat /\ Len(tokens) \in Nat /\ n <= Len(tokens)
  <2> HIDE DEF Token
  <2> QED
    OBVIOUS
<1> HIDE DEF s
<1> DEFINE G == {k \in 0 .. n : UpTo(s)[k] = UpTo(tokens)[k]}
<1>2. 0 \in G
  BY <1>1, UpToIs
<1>3. ASSUME NEW k \in 1 .. n, k - 1 \in G PROVE k \in G
  <2>1. UpTo(s)[k - 1] = UpTo(tokens)[k - 1]
    BY <1>3
  <2>2. /\ UpTo(s)[k] = UpTo(s)[k - 1] + s[k].width
        /\ UpTo(tokens)[k] = UpTo(tokens)[k - 1] + tokens[k].width
        /\ s[k] = tokens[k]
    BY <1>1, UpToIs
  <2> QED
    BY <1>1, <2>1, <2>2
<1> HIDE DEF G
<1>4. n \in 0 .. n /\ \A k \in 0 .. n : k \in G
  <2>1. n \in Nat /\ n \in 0 .. n
    BY <1>1
  <2> QED
    BY <2>1, <1>2, <1>3, UpFromZero
<1>5. UpTo(s)[n] = UpTo(tokens)[n]
  BY <1>4 DEF G
<1> QED
  BY <1>1, <1>5 DEF Width, s

\* What CutsAtALine says of a message.
Fits(m, tokens) ==
    /\ Width(m.tokens) + (IF m.cut = "whole" THEN 0 ELSE 1) <= MessageLimit
    /\ m.cut = "inside" => tokens[1].width + Break.width >= MessageLimit
    /\ m.cut # "inside" => IsPrefix(m.tokens, tokens)
    /\ m.cut = "between" =>
        \A n \in Len(m.tokens) + 2 .. Len(tokens) :
            tokens[n] # Break => UpTo(tokens)[n] + Break.width >= MessageLimit

\* A line is followed by a break, and that is not in reach if the line is too far.
LEMMA TrimFits ==
    ASSUME NEW tokens \in Seq(Token),
           \A n \in 1 .. Len(tokens) - 1 : tokens[n] # Break => tokens[n + 1] = Break,
           NEW m \in TrimPushoverHtml(tokens)
    PROVE  m \in [tokens : Seq(Token), cut : Cuts] /\ Fits(m, tokens)
<1> DEFINE N == Len(tokens)
           W == UpTo(tokens)
           breaks == BreaksInReach(tokens)
<1>1. /\ N \in Nat /\ DOMAIN tokens = 1 .. N /\ Width(tokens) = W[N]
      /\ W[0] = 0 /\ \A k \in 1 .. N : W[k] = W[k - 1] + tokens[k].width
      /\ \A k \in 0 .. N : W[k] \in Nat
      /\ \A k \in 1 .. N : tokens[k] \in Token
      /\ MessageLimit \in Nat /\ MessageLimit > 5
  BY UpToIs DEF Width
<1>2. \A k \in 1 .. N : tokens[k].width \in Nat
  BY <1>1 DEF Token
<1>3. \A k \in breaks : k \in 1 .. N /\ tokens[k] = Break /\ W[k] <= MessageLimit - 1
  BY <1>1 DEF BreaksInReach
<1>4. \A k \in 1 .. N : tokens[k] = Break /\ W[k] <= MessageLimit - 1 => k \in breaks
  BY <1>1 DEF BreaksInReach
<1>5. m \in IF Width(tokens) <= MessageLimit THEN {[tokens |-> tokens, cut |-> "whole"]}
            ELSE IF breaks # {}
            THEN {[tokens |-> SubSeq(tokens, 1, k - 1), cut |-> "between"] :
                      k \in {b \in breaks : \A c \in breaks : c <= b}}
            ELSE {[tokens |-> <<[tokens[1] EXCEPT !.width = w]>>, cut |-> "inside"] :
                      w \in 0 .. MessageLimit - 1}
  BY DEF TrimPushoverHtml
<1> HIDE DEF N, W, breaks, Token
<1>6. CASE Width(tokens) <= MessageLimit
  <2>1. m = [tokens |-> tokens, cut |-> "whole"]
    BY <1>5, <1>6
  <2>2. IsPrefix(tokens, tokens)
    BY <1>1 DEF IsPrefix, N
  <2> QED
    BY <1>1, <1>6, <2>1, <2>2 DEF Fits, Cuts
<1>7. CASE Width(tokens) > MessageLimit /\ breaks # {}
  <2> DEFINE last == {b \in breaks : \A c \in breaks : c <= b}
  <2>0. ~(Width(tokens) <= MessageLimit)
    BY <1>1, <1>7
  <2>1. PICK k \in breaks : /\ \A c \in breaks : c <= k
                            /\ m = [tokens |-> SubSeq(tokens, 1, k - 1), cut |-> "between"]
    <3>1. m \in {[tokens |-> SubSeq(tokens, 1, k - 1), cut |-> "between"] : k \in last}
      BY <1>5, <1>7, <2>0, Zenon
    <3>2. PICK k \in last : m = [tokens |-> SubSeq(tokens, 1, k - 1), cut |-> "between"]
      BY <3>1, Zenon
    <3> QED
      BY <3>2, Zenon
  <2> DEFINE s == SubSeq(tokens, 1, k - 1)
  <2>2. k \in 1 .. N /\ tokens[k] = Break /\ W[k] <= MessageLimit - 1 /\ k - 1 \in 0 .. N
    BY <1>1, <1>3
  <2>3. s \in Seq(Token) /\ Len(s) = k - 1 /\ Width(s) = W[k - 1]
    BY <2>2, PrefixWidth DEF N, W
  <2>4. IsPrefix(s, tokens)
    BY <1>1, <2>2, <2>3 DEF IsPrefix, N
  <2> HIDE DEF s
  <2>5. Width(s) + 1 <= MessageLimit
    BY <1>1, <2>2, <2>3, BreakShape
  <2>6. ASSUME NEW n \in k + 1 .. N, tokens[n] # Break
        PROVE  W[n] + Break.width >= MessageLimit
    <3>1. CASE n = N
      BY <1>1, <1>7, <3>1, BreakShape
    <3>2. CASE n < N
      <4>1. n \in 1 .. N - 1 /\ n + 1 \in 1 .. N /\ ~(n + 1 <= k)
        BY <1>1, <2>2, <3>2
      <4>2. tokens[n + 1] = Break
        BY <2>6, <4>1 DEF N
      <4>3. ~(W[n + 1] <= MessageLimit - 1)
        BY <1>4, <2>1, <4>1, <4>2
      <4>4. W[n + 1] = W[n] + Break.width
        <5>1. (n + 1) - 1 = n
          BY <4>1
        <5> QED
          BY <1>1, <4>1, <4>2, <5>1
      <4>5. W[n + 1] \in Nat
        BY <1>1, <4>1
      <4> QED
        BY <1>1, <4>3, <4>4, <4>5
    <3> QED
      BY <1>1, <3>1, <3>2
  <2>7. Len(s) + 2 = k + 1
    BY <1>1, <2>2, <2>3
  <2>8. m.tokens = s /\ m.cut = "between" /\ m \in [tokens : Seq(Token), cut : Cuts]
    BY <2>1, <2>3 DEF Cuts, s
  <2> QED
    BY <2>4, <2>5, <2>6, <2>7, <2>8 DEF Fits, N, W
<1>8. CASE Width(tokens) > MessageLimit /\ breaks = {}
  <2>1. PICK w \in 0 .. MessageLimit - 1 :
            m = [tokens |-> <<[tokens[1] EXCEPT !.width = w]>>, cut |-> "inside"]
    BY <1>1, <1>5, <1>8
  <2>2. N # 0 /\ 1 \in 1 .. N
    BY <1>1, <1>8
  <2> DEFINE t == [tokens[1] EXCEPT !.width = w]
  <2>3. t \in Token /\ t.width = w
    <3>1. tokens[1] \in [line : 0 .. MaxLines, width : Nat]
      BY <1>1, <2>2 DEF Token
    <3>2. w \in Nat
      BY <1>1
    <3> QED
      BY <3>1, <3>2 DEF Token
  <2> HIDE DEF t
  <2>4. <<t>> \in Seq(Token) /\ Len(<<t>>) = 1 /\ <<t>>[1] = t
    BY <2>3
  <2>5. Width(<<t>>) = w
    <3>1. UpTo(<<t>>)[0] = 0 /\ UpTo(<<t>>)[1] = UpTo(<<t>>)[0] + w
      <4>1. 1 \in 1 .. Len(<<t>>) /\ 1 - 1 = 0
        BY <2>4
      <4> QED
        BY <2>3, <2>4, <4>1, UpToIs
    <3> QED
      BY <1>1, <2>4, <3>1 DEF Width
  <2>6. W[1] = tokens[1].width
    <3>1. W[1] = W[1 - 1] + tokens[1].width
      BY <1>1, <2>2
    <3> QED
      BY <1>1, <1>2, <2>2, <3>1
  <2>7. tokens[1] # Break
    <3>1. tokens[1] = Break => W[1] <= MessageLimit - 1
      BY <1>1, <2>6, BreakShape
    <3> QED
      BY <1>4, <1>8, <2>2, <3>1
  <2>8. tokens[1].width + Break.width >= MessageLimit
    <3>1. CASE N = 1
      BY <1>1, <1>8, <2>6, <3>1, BreakShape
    <3>2. CASE N # 1
      <4>1. 1 \in 1 .. N - 1 /\ 2 \in 1 .. N /\ 1 + 1 = 2 /\ 2 - 1 = 1
        BY <1>1, <2>2, <3>2
      <4>2. tokens[2] = Break
        BY <2>7, <4>1 DEF N
      <4>3. W[2] = tokens[1].width + Break.width /\ W[2] \in Nat
        BY <1>1, <2>6, <4>1, <4>2
      <4>4. ~(W[2] <= MessageLimit - 1)
        BY <1>4, <1>8, <4>1, <4>2
      <4> QED
        BY <1>1, <4>3, <4>4
    <3> QED
      BY <3>1, <3>2
  <2>9. m.tokens = <<t>> /\ m.cut = "inside" /\ m \in [tokens : Seq(Token), cut : Cuts]
    BY <2>1, <2>4 DEF Cuts, t
  <2> QED
    BY <1>1, <2>5, <2>8, <2>9 DEF Fits
<1> QED
  BY <1>1, <1>6, <1>7, <1>8

-----------------------------------------------------------------------------

PushIInv == PushTypeOK /\ PushKeepsLines

LEMMA PushInitIInv == PushInit => PushIInv
<1> SUFFICES ASSUME PushInit PROVE PushIInv
  OBVIOUS
<1>1. PICK n \in 0 .. MaxLines : markdown \in [1 .. n -> Line]
  BY DEF PushInit
<1>2. markdown \in Seq(Line) /\ Len(markdown) <= MaxLines
  <2> HIDE DEF Line
  <2>1. n \in Nat
    OBVIOUS
  <2> QED
    BY <1>1, <2>1
<1>3. <<>> \in Seq(Token) /\ NoMessage \in [tokens : Seq(Token), cut : Cuts]
  <2> HIDE DEF Token
  <2> QED
    BY DEF NoMessage, Cuts
<1> QED
  BY <1>2, <1>3 DEF PushInit, PushIInv, PushTypeOK, PushKeepsLines

LEMMA PushStepIInv == PushIInv /\ [PushNext]_pushVars => PushIInv'
<1> SUFFICES ASSUME PushIInv, [PushNext]_pushVars PROVE PushIInv'
  OBVIOUS
<1> USE DEF PushIInv
<1>1. ASSUME markdown' = markdown, NEW tokens, KeepsLines(tokens)
      PROVE  /\ Shown(tokens) = {i \in DOMAIN markdown' : ShouldShow(i)'}
             /\ InOrder(tokens)
             /\ \A n \in 1 .. Len(tokens) - 1 : tokens[n] # Break => tokens[n + 1] = Break
             /\ \A n \in 1 .. Len(tokens) - 2 : \E m \in n .. n + 2 : tokens[m] # Break
  <2>1. \A i : ShouldShow(i)' <=> ShouldShow(i)
    BY <1>1 DEF ShouldShow, InTable, Heads, IsTable
  <2> QED
    BY <1>1, <2>1 DEF KeepsLines
<1>2. CASE Convert
  <2>1. /\ markdown' = markdown /\ message' = message /\ made' = "html"
        /\ html' \in Seq(Token) /\ KeepsLines(html')
    BY <1>2, HtmlKeepsLines DEF Convert
  <2>2. PushTypeOK'
    BY <2>1 DEF PushTypeOK
  <2>3. KeepsLines(html)'
    BY <1>1, <2>1 DEF KeepsLines
  <2> QED
    BY <2>1, <2>2, <2>3 DEF PushKeepsLines
<1>3. CASE Trim
  <2>1. /\ markdown' = markdown /\ html' = html /\ made' = "message"
        /\ html \in Seq(Token) /\ KeepsLines(html) /\ message' \in TrimPushoverHtml(html)
    BY <1>3 DEF Trim, PushTypeOK, PushKeepsLines
  <2>2. message' \in [tokens : Seq(Token), cut : Cuts] /\ Fits(message', html)
    BY <2>1, TrimFits DEF KeepsLines
  <2>3. PushTypeOK'
    BY <2>1, <2>2 DEF PushTypeOK
  <2>4. KeepsLines(html)'
    BY <1>1, <2>1 DEF KeepsLines
  <2>5. CutsAtALine(html)'
    BY <2>1, <2>2 DEF CutsAtALine, Fits, Characters
  <2> QED
    BY <2>1, <2>3, <2>4, <2>5 DEF PushKeepsLines
<1>4. CASE UNCHANGED pushVars
  <2>1. markdown' = markdown /\ html' = html /\ made' = made /\ message' = message
    BY <1>4 DEF pushVars
  <2>2. PushTypeOK'
    BY <2>1 DEF PushTypeOK
  <2>3. KeepsLines(html) => KeepsLines(html)'
    BY <1>1, <2>1 DEF KeepsLines
  <2>4. CutsAtALine(html) => CutsAtALine(html)'
    BY <2>1 DEF CutsAtALine, Characters
  <2> QED
    BY <2>1, <2>2, <2>3, <2>4 DEF PushKeepsLines
<1> QED
  BY <1>2, <1>3, <1>4 DEF PushNext

\* What the push jobs make of a text is made of the tokens that PushBody names.
THEOREM PushTypeCorrect == PushSpec => []PushTypeOK
<1>1. PushIInv => PushTypeOK
  BY DEF PushIInv
<1> QED
  BY <1>1, PushInitIInv, PushStepIInv, PTL DEF PushSpec

\* For a text of any length, markdown_to_pushover_html keeps every line that is to
\* be shown, in order, and trim_pushover_html cuts only between lines.
THEOREM PushLosesNoLine == PushSpec => []PushKeepsLines
<1>1. PushIInv => PushKeepsLines
  BY DEF PushIInv
<1> QED
  BY <1>1, PushInitIInv, PushStepIInv, PTL DEF PushSpec

-----------------------------------------------------------------------------
(***************************************************************************)
(* The components side by side.  A step of MCDashboard is a step of one of *)
(* them and leaves the others alone, so that every theorem about one of    *)
(* them holds of it too.                                                   *)
(***************************************************************************)

dashboardVars == <<vars, unitVars, priceVars, reportVars, pushVars, chatVars, viewVars,
                   watchVars, scene>>

LEMMA DashboardStep ==
    ASSUME [DashboardNext]_dashboardVars
    PROVE  /\ [Next]_vars /\ [UnitNext]_unitVars /\ [PriceNext]_priceVars
           /\ [ReportNext]_reportVars /\ [PushNext]_pushVars /\ [ChatNext]_chatVars
           /\ [ViewNext]_viewVars /\ [WatchNext]_watchVars
           /\ scene' = scene
BY DEF DashboardNext, dashboardVars

\* MCDashboard behaves as each of its eight components does on its own.
THEOREM DashboardIsTheComponents ==
    DashboardSpec => /\ Spec /\ UnitSpec /\ PriceSpec /\ ReportSpec
                     /\ PushSpec /\ ChatSpec /\ ViewSpec /\ WatchSpec
<1>1. DashboardInit => /\ Init /\ UnitInit /\ PriceInit /\ ReportInit
                       /\ PushInit /\ ChatInit /\ ViewInit /\ WatchInit
  BY DEF DashboardInit
<1>2. DashboardSpec => DashboardInit /\ [][DashboardNext]_dashboardVars
  BY DEF DashboardSpec, dashboardVars
<1> QED
  BY <1>1, <1>2, DashboardStep, PTL
  DEF Spec, UnitSpec, PriceSpec, ReportSpec, PushSpec, ChatSpec, ViewSpec, WatchSpec

\* The variables of all eight stay in their types.
THEOREM DashboardTypeCorrect == DashboardSpec => []DashboardTypeOK
<1> DEFINE OnStage == scene \in Scenes
<1>1. DashboardInit => OnStage
  BY DEF DashboardInit
<1>2. OnStage /\ [DashboardNext]_dashboardVars => OnStage'
  BY DashboardStep DEF Scenes
<1>3. OnStage /\ TypeOK /\ UnitTypeOK /\ PriceTypeOK /\ ReportTypeOK /\ PushTypeOK /\ ChatTypeOK
      /\ ViewTypeOK /\ WatchTypeOK => DashboardTypeOK
  BY DEF DashboardTypeOK, Scenes
<1>4. DashboardSpec => DashboardInit /\ [][DashboardNext]_dashboardVars
  BY DEF DashboardSpec, dashboardVars
<1> HIDE DEF OnStage
<1> QED
  BY <1>1, <1>2, <1>3, <1>4, DashboardIsTheComponents, RefreshTypeCorrect, UnitTypeCorrect,
     PriceTypeCorrect, ReportTypeCorrect, PushTypeCorrect, ChatTypeCorrect, ViewTypeCorrect,
     WatchTypeCorrect, PTL

=============================================================================
