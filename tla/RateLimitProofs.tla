-------------------------- MODULE RateLimitProofs --------------------------
(***************************************************************************)
(* For any goroutines and clients, any limit, window and length of time:   *)
(* the steps of the limiter, and those by which a request leaves it again, *)
(* keep its types, AtMostLimit and OrphansExplained.  What is behind the   *)
(* limiter comes in with AccountsProofs.                                   *)
(***************************************************************************)
EXTENDS RateLimit, TLAPS

\* A request that has passed the limiter is answered.
Leaves(p) ==
  /\ gate[p] = Inside
  /\ Moves(p, Out)
  /\ UNCHANGED <<now, counter, admitted, orphaned>>

LimiterNext == LimiterTick \/ \E p \in Proc : LimiterStep(p) \/ Leaves(p)

-----------------------------------------------------------------------------
(* Windows *)

\* A window is Window units of time, one after the other.
LEMMA WindowBounds ==
  ASSUME NEW t \in Nat, NEW w \in Nat
  PROVE  /\ WindowId(t) \in Nat
         /\ w <= WindowId(t) => w * Window <= t
         /\ w >= WindowId(t) => t < (w + 1) * Window
  BY RateLimitAssumption DEF WindowId

\* Their ids grow with time.
LEMMA WindowsPass ==
  ASSUME NEW s \in Nat, NEW t \in Nat, s <= t
  PROVE  WindowId(s) <= WindowId(t)
  BY RateLimitAssumption DEF WindowId

LEMMA KeyHasWindow == \A k \in Key : k[2] \in Nat
  BY WindowBounds, RateLimitAssumption DEF Key

-----------------------------------------------------------------------------
(* Types *)

\* INCR gives a value that is at least 1; it is 1 if there was none.
LEMMA IncrementedType ==
  ASSUME LimiterTypeOK, NEW k \in Key
  PROVE  /\ Incremented(k) \in [value : 1..Limit + 1, until : Nat]
         /\ Value(k) = 0 => Incremented(k) = [value |-> 1, until |-> 0]
         /\ Value(k) # 0 => /\ Incremented(k).value > 1
                            /\ Incremented(k).until = counter[k].until
                            /\ \/ Incremented(k).value = counter[k].value + 1
                               \/ Incremented(k).value > Limit
  BY RateLimitAssumption DEF LimiterTypeOK, Incremented, Value

LEMMA LimiterInitTypeOK == LimiterInit => LimiterTypeOK
  BY RateLimitAssumption DEF LimiterInit, LimiterTypeOK, Gates, Out, Inside

LEMMA LimiterNextTypeOK ==
  ASSUME LimiterTypeOK, LimiterNext
  PROVE  LimiterTypeOK'
<1> USE RateLimitAssumption
<1>1. CASE LimiterTick
  BY <1>1 DEF LimiterTick, LimiterTypeOK
<1>2. ASSUME NEW p \in Proc, NEW c \in Client, Arrive(p, c)
      PROVE  LimiterTypeOK'
  <2>1. <<c, WindowId(now)>> \in Key
    BY WindowBounds, WindowsPass DEF LimiterTypeOK, Key
  <2>2. QED
    BY <2>1, <1>2 DEF Arrive, Moves, LimiterTypeOK, Gates
<1>3. ASSUME NEW p \in Proc, Incr(p)
      PROVE  LimiterTypeOK'
  <2>1. gate[p].key \in Key
    BY <1>3 DEF Incr, LimiterTypeOK, Gates, Out, Inside
  <2>2. QED
    BY <2>1, <1>3, IncrementedType DEF Incr, Moves, LimiterTypeOK, Gates
<1>4. ASSUME NEW p \in Proc, Expire(p)
      PROVE  LimiterTypeOK'
  <2>1. gate[p].key \in Key
    BY <1>4 DEF Expire, LimiterTypeOK, Gates, Out, Inside
  <2>2. QED
    BY <2>1, <1>4 DEF Expire, FullLife, Moves, LimiterTypeOK, Gates
<1>5. ASSUME NEW p \in Proc, IncrFails(p)
      PROVE  LimiterTypeOK'
  BY <1>5 DEF IncrFails, Moves, LimiterTypeOK, Gates
<1>6. ASSUME NEW p \in Proc, IncrUnanswered(p)
      PROVE  LimiterTypeOK'
  <2>1. gate[p].key \in Key
    BY <1>6 DEF IncrUnanswered, LimiterTypeOK, Gates, Out, Inside
  <2>2. QED
    BY <2>1, <1>6, IncrementedType DEF IncrUnanswered, Moves, LimiterTypeOK, Gates
<1>7. ASSUME NEW p \in Proc, ExpireFails(p)
      PROVE  LimiterTypeOK'
  <2>1. gate[p].key \in Key
    BY <1>7 DEF ExpireFails, LimiterTypeOK, Gates, Out, Inside
  <2>2. QED
    BY <2>1, <1>7 DEF ExpireFails, Moves, LimiterTypeOK, Gates
<1>8. ASSUME NEW p \in Proc, Leaves(p)
      PROVE  LimiterTypeOK'
  BY <1>8 DEF Leaves, Moves, LimiterTypeOK, Gates
<1>9. QED
  BY <1>1, <1>2, <1>3, <1>4, <1>5, <1>6, <1>7, <1>8 DEF LimiterNext, LimiterStep

-----------------------------------------------------------------------------
(* The limit *)

\* What a request is about to do concerns a window that has begun.
KeysHaveBegun ==
  \A p \in Proc : gate[p].at \in {"incr", "expire"} => gate[p].key[2] <= WindowId(now)

\* A counter with an expiry lives to the end of its window at least.
LivesItsWindow ==
  \A k \in Key : counter[k].until # 0 => (k[2] + 1) * Window <= counter[k].until

\* Until its window is over, a counter is not behind what was admitted.
CountsAdmitted ==
  \A k \in Key : k[2] >= WindowId(now) => admitted[k] <= counter[k].value

LimitInv ==
  LimiterTypeOK /\ KeysHaveBegun /\ LivesItsWindow /\ CountsAdmitted /\ AtMostLimit

\* In its window, a counter is what Redis holds.
LEMMA NotExpiredInItsWindow ==
  ASSUME LimiterTypeOK, LivesItsWindow, NEW k \in Key, k[2] >= WindowId(now)
  PROVE  Value(k) = counter[k].value
<1>1. now \in Nat /\ k[2] \in Nat /\ counter[k].until \in Nat
  BY KeyHasWindow DEF LimiterTypeOK
<1>2. now < (k[2] + 1) * Window
  BY <1>1, WindowBounds
<1>3. counter[k].until # 0 => (k[2] + 1) * Window <= counter[k].until
  BY DEF LivesItsWindow
<1>4. (k[2] + 1) * Window \in Nat
  BY <1>1, RateLimitAssumption
<1>5. ~Expired(k)
  BY <1>1, <1>2, <1>3, <1>4 DEF Expired
<1>6. QED
  BY <1>5 DEF Value

LEMMA LimiterInitLimit == LimiterInit => LimitInv
  BY LimiterInitTypeOK, RateLimitAssumption
  DEF LimitInv, LimiterInit, KeysHaveBegun, LivesItsWindow, CountsAdmitted, AtMostLimit, Out

\* An INCR, answered or not, of request p, which admits by one at most, and only
\* what counted in its window and within the limit.
LEMMA IncrementKeepsLimit ==
  ASSUME LimitInv, NEW k \in Key,
         now' = now,
         counter' = [counter EXCEPT ![k] = Incremented(k)],
         \/ admitted' = admitted
         \/ /\ admitted' = [admitted EXCEPT ![k] = @ + 1]
            /\ Incremented(k).value <= Limit /\ k[2] = WindowId(now)
  PROVE  LivesItsWindow' /\ CountsAdmitted' /\ AtMostLimit'
<1>1. LimiterTypeOK /\ k[2] \in Nat /\ WindowId(now) \in Nat
  BY KeyHasWindow, WindowBounds DEF LimitInv, LimiterTypeOK
<1>2. WindowId(now') = WindowId(now)
  BY DEF WindowId
<1>3. LivesItsWindow'
  BY <1>1, IncrementedType DEF LimitInv, LivesItsWindow, LimiterTypeOK
<1>4. CountsAdmitted' /\ AtMostLimit'
  <2>1. SUFFICES ASSUME NEW j \in Key
                 PROVE  /\ j[2] >= WindowId(now) => admitted'[j] <= counter'[j].value
                        /\ admitted'[j] <= Limit
    BY <1>2 DEF CountsAdmitted, AtMostLimit
  <2>2. CASE j # k
    BY <2>2 DEF LimitInv, LimiterTypeOK, CountsAdmitted, AtMostLimit
  <2>3. CASE j = k
    <3>1. /\ admitted[k] \in Nat /\ admitted[k] <= Limit /\ Limit \in Nat
          /\ counter'[k] = Incremented(k)
          /\ counter[k].value \in 0..Limit + 1
      BY RateLimitAssumption DEF LimitInv, LimiterTypeOK, AtMostLimit
    <3>2. CASE k[2] >= WindowId(now)
      <4>1. Value(k) = counter[k].value
        BY <3>2, <1>1, NotExpiredInItsWindow DEF LimitInv
      <4>2. admitted[k] <= counter[k].value
        BY <3>2 DEF LimitInv, CountsAdmitted
      <4>3. Incremented(k).value = counter[k].value + 1 \/ Incremented(k).value > Limit
        BY <4>1, <1>1, IncrementedType
      <4>4. Incremented(k).value \in 1..Limit + 1
        BY <1>1, IncrementedType
      <4>5. CASE admitted' = admitted
        BY <2>3, <3>1, <4>2, <4>3, <4>4, <4>5
      <4>6. CASE admitted' # admitted
        <5>1. admitted'[k] = admitted[k] + 1 /\ Incremented(k).value <= Limit
          BY <4>6 DEF LimitInv, LimiterTypeOK
        <5>2. QED
          BY <2>3, <3>1, <4>2, <4>3, <4>4, <5>1
      <4>7. QED
        BY <4>5, <4>6
    <3>3. CASE ~(k[2] >= WindowId(now))
      <4>1. admitted' = admitted
        BY <3>3, <1>1
      <4>2. QED
        BY <2>3, <3>1, <3>3, <4>1
    <3>4. QED
      BY <3>2, <3>3
  <2>4. QED
    BY <2>2, <2>3
<1>5. QED
  BY <1>3, <1>4

LEMMA LimiterNextLimit ==
  ASSUME LimitInv, LimiterNext
  PROVE  LimitInv'
<1> USE RateLimitAssumption
<1>1. LimiterTypeOK /\ LimiterTypeOK'
  BY LimiterNextTypeOK DEF LimitInv
<1>2. SUFFICES KeysHaveBegun' /\ LivesItsWindow' /\ CountsAdmitted' /\ AtMostLimit'
  BY <1>1 DEF LimitInv
<1>3. /\ KeysHaveBegun /\ LivesItsWindow /\ CountsAdmitted /\ AtMostLimit
      /\ now \in Nat /\ now' \in Nat
  BY <1>1 DEF LimitInv, LimiterTypeOK
<1>4. CASE LimiterTick
  <2>1. WindowId(now) \in Nat /\ WindowId(now') \in Nat /\ WindowId(now) <= WindowId(now')
    BY <1>3, <1>4, WindowBounds, WindowsPass DEF LimiterTick
  <2>2. KeysHaveBegun'
    <3>1. SUFFICES ASSUME NEW p \in Proc, gate[p].at \in {"incr", "expire"}
                   PROVE  gate[p].key[2] <= WindowId(now')
      BY <1>4 DEF LimiterTick, KeysHaveBegun
    <3>2. gate[p].key \in Key
      BY <1>1, <3>1 DEF LimiterTypeOK, Gates, Out, Inside
    <3>3. QED
      BY <1>3, <2>1, <3>1, <3>2, KeyHasWindow DEF KeysHaveBegun
  <2>3. CountsAdmitted'
    BY <1>3, <1>4, <2>1, KeyHasWindow DEF LimiterTick, CountsAdmitted
  <2>4. QED
    BY <1>3, <1>4, <2>2, <2>3 DEF LimiterTick, LivesItsWindow, AtMostLimit
<1>5. ASSUME NEW p \in Proc, LimiterStep(p) \/ Leaves(p)
      PROVE  KeysHaveBegun' /\ LivesItsWindow' /\ CountsAdmitted' /\ AtMostLimit'
  <2>1. /\ now' = now
        /\ gate[p].at \in {"incr", "expire"} => gate[p].key \in Key
    <3>1. now' = now
      BY <1>5 DEF LimiterStep, Leaves, Arrive, Incr, Expire, IncrFails, IncrUnanswered, ExpireFails
    <3>2. QED
      BY <1>1, <3>1 DEF LimiterTypeOK, Gates, Out, Inside
  <2>2. WindowId(now') = WindowId(now) /\ WindowId(now) \in Nat
    BY <1>3, <2>1, WindowBounds
  <2>3. KeysHaveBegun'
    <3>1. \A q \in Proc \ {p} : gate'[q] = gate[q]
      BY <1>1, <1>5 DEF LimiterStep, Leaves, Arrive, Incr, Expire, IncrFails, IncrUnanswered,
                       ExpireFails, Moves, LimiterTypeOK
    <3>2. gate'[p].at \in {"incr", "expire"} => gate'[p].key[2] <= WindowId(now)
      <4>1. CASE \E c \in Client : Arrive(p, c)
        BY <1>1, <2>2, <4>1 DEF Arrive, Moves, LimiterTypeOK
      <4>2. CASE Incr(p) \/ IncrUnanswered(p)
        <5>1. gate[p].key[2] <= WindowId(now)
          BY <1>3, <4>2 DEF KeysHaveBegun, Incr, IncrUnanswered
        <5>2. QED
          BY <1>1, <4>2, <5>1 DEF Incr, IncrUnanswered, Moves, LimiterTypeOK, Out, Inside
      <4>3. CASE Expire(p) \/ IncrFails(p) \/ ExpireFails(p) \/ Leaves(p)
        BY <1>1, <4>3 DEF Expire, IncrFails, ExpireFails, Leaves, Moves, LimiterTypeOK, Out, Inside
      <4>4. QED
        BY <1>5, <4>1, <4>2, <4>3 DEF LimiterStep
    <3>3. QED
      BY <1>3, <2>2, <3>1, <3>2 DEF KeysHaveBegun
  <2>4. CASE Incr(p) \/ IncrUnanswered(p)
    <3>1. /\ gate[p].key \in Key
          /\ counter' = [counter EXCEPT ![gate[p].key] = Incremented(gate[p].key)]
      BY <2>1, <2>4 DEF Incr, IncrUnanswered
    <3>2. \/ admitted' = admitted
          \/ /\ admitted' = [admitted EXCEPT ![gate[p].key] = @ + 1]
             /\ Incremented(gate[p].key).value <= Limit /\ gate[p].key[2] = WindowId(now)
      BY <1>1, <2>4, <3>1 DEF Incr, IncrUnanswered, LimiterTypeOK
    <3>3. QED
      BY <2>1, <2>3, <3>1, <3>2, IncrementKeepsLimit
  <2>5. CASE Expire(p)
    <3>1. gate[p].key \in Key /\ gate[p].key[2] \in Nat /\ gate[p].key[2] <= WindowId(now)
      BY <1>3, <2>1, <2>5, KeyHasWindow DEF Expire, KeysHaveBegun
    <3>2. gate[p].key[2] * Window <= now
      BY <1>3, <3>1, WindowBounds
    <3>3. (gate[p].key[2] + 1) * Window <= now + Window
      BY <1>3, <3>1, <3>2
    <3>4. LivesItsWindow'
      BY <1>1, <1>3, <2>5, <3>1, <3>3 DEF Expire, FullLife, LivesItsWindow, LimiterTypeOK
    <3>5. CountsAdmitted' /\ AtMostLimit'
      BY <1>1, <1>3, <2>2, <2>5 DEF Expire, CountsAdmitted, AtMostLimit, LimiterTypeOK
    <3>6. QED
      BY <2>3, <3>4, <3>5
  <2>6. CASE UNCHANGED <<counter, admitted>>
    BY <1>3, <2>2, <2>3, <2>6 DEF LivesItsWindow, CountsAdmitted, AtMostLimit
  <2>7. QED
    BY <1>5, <2>4, <2>5, <2>6 DEF LimiterStep, Leaves, Arrive, IncrFails, ExpireFails
<1>6. QED
  BY <1>4, <1>5 DEF LimiterNext

-----------------------------------------------------------------------------
(* Counters without an expiry *)

OrphansInv == LimiterTypeOK /\ OrphansExplained

LEMMA LimiterInitOrphans == LimiterInit => OrphansInv
  BY LimiterInitTypeOK DEF OrphansInv, LimiterInit, OrphansExplained, Value, Expired

\* The counters that did not change, or have an expiry, are explained as before.
LEMMA LimiterNextOrphans ==
  ASSUME OrphansInv, LimiterNext
  PROVE  OrphansInv'
<1> USE RateLimitAssumption
<1>1. LimiterTypeOK /\ LimiterTypeOK' /\ OrphansExplained
  BY LimiterNextTypeOK DEF OrphansInv
<1>2. SUFFICES ASSUME NEW k \in Key, Value(k)' > 0, counter'[k].until = 0
               PROVE  \/ k \in orphaned'
                      \/ \E p \in Proc : gate'[p] = [at |-> "expire", key |-> k]
  BY <1>1 DEF OrphansInv, OrphansExplained
<1>3. ASSUME counter'[k] = counter[k]
      PROVE  \/ k \in orphaned
             \/ \E p \in Proc : gate[p] = [at |-> "expire", key |-> k]
  <2>1. Value(k) > 0 /\ counter[k].until = 0
    BY <1>2, <1>3 DEF Value, Expired
  <2>2. QED
    BY <1>1, <2>1 DEF OrphansExplained
<1>4. CASE LimiterTick
  BY <1>3, <1>4 DEF LimiterTick
<1>5. ASSUME NEW p \in Proc, LimiterStep(p) \/ Leaves(p), counter'[k] = counter[k],
             gate[p] # [at |-> "expire", key |-> k]
      PROVE  \/ k \in orphaned'
             \/ \E q \in Proc : gate'[q] = [at |-> "expire", key |-> k]
  <2>1. \A q \in Proc \ {p} : gate'[q] = gate[q]
    BY <1>1, <1>5 DEF LimiterStep, Leaves, Arrive, Incr, Expire, IncrFails, IncrUnanswered,
                     ExpireFails, Moves, LimiterTypeOK
  <2>2. orphaned \subseteq orphaned'
    BY <1>5 DEF LimiterStep, Leaves, Arrive, Incr, Expire, IncrFails, IncrUnanswered, ExpireFails
  <2>3. QED
    BY <1>3, <1>5, <2>1, <2>2
<1>6. ASSUME NEW p \in Proc, LimiterStep(p) \/ Leaves(p)
      PROVE  \/ k \in orphaned'
             \/ \E q \in Proc : gate'[q] = [at |-> "expire", key |-> k]
  <2>1. CASE gate[p] = [at |-> "expire", key |-> k]
    <3>1. ~Expire(p)
      <4>1. ASSUME Expire(p) PROVE FALSE
        <5>1. counter'[k].until = now + Window
          BY <1>1, <2>1, <4>1 DEF Expire, FullLife, LimiterTypeOK
        <5>2. QED
          BY <1>1, <1>2, <5>1 DEF LimiterTypeOK
      <4>2. QED
        BY <4>1
    <3>2. ExpireFails(p)
      <4>1. gate[p].at = "expire" /\ Out.at = "out" /\ Inside.at = "in"
        BY <2>1 DEF Out, Inside
      <4>2. gate[p] # Out /\ gate[p] # Inside
        BY <4>1
      <4>3. QED
        BY <1>6, <3>1, <4>1, <4>2
        DEF LimiterStep, Leaves, Arrive, Incr, IncrFails, IncrUnanswered
    <3>3. QED
      BY <2>1, <3>2 DEF ExpireFails
  <2>2. CASE Incr(p) /\ gate[p].key = k
    <3>1. counter'[k] = Incremented(k)
      BY <1>1, <2>2 DEF Incr, LimiterTypeOK
    <3>2. CASE Value(k) = 0
      <4>1. IsFirst(Incremented(k).value)
        BY <1>1, <3>2, IncrementedType DEF IsFirst
      <4>2. gate'[p] = [at |-> "expire", key |-> k]
        BY <1>1, <2>2, <4>1 DEF Incr, Moves, LimiterTypeOK
      <4>3. QED
        BY <4>2
    <3>3. CASE Value(k) # 0
      <4>1. Value(k) > 0 /\ counter[k].until = 0
        BY <1>1, <1>2, <3>1, <3>3, IncrementedType DEF LimiterTypeOK, Value
      <4>2. \/ k \in orphaned
            \/ \E q \in Proc \ {p} : gate[q] = [at |-> "expire", key |-> k]
        BY <1>1, <2>2, <4>1 DEF OrphansExplained, Incr
      <4>3. orphaned' = orphaned /\ \A q \in Proc \ {p} : gate'[q] = gate[q]
        BY <1>1, <2>2 DEF Incr, Moves, LimiterTypeOK
      <4>4. QED
        BY <4>2, <4>3
    <3>4. QED
      BY <3>2, <3>3
  <2>3. CASE IncrUnanswered(p) /\ gate[p].key = k
    <3>1. counter'[k] = Incremented(k)
      BY <1>1, <2>3 DEF IncrUnanswered, LimiterTypeOK
    <3>2. CASE Value(k) = 0
      BY <2>3, <3>2 DEF IncrUnanswered
    <3>3. CASE Value(k) # 0
      <4>1. Value(k) > 0 /\ counter[k].until = 0
        BY <1>1, <1>2, <3>1, <3>3, IncrementedType DEF LimiterTypeOK, Value
      <4>2. \/ k \in orphaned
            \/ \E q \in Proc \ {p} : gate[q] = [at |-> "expire", key |-> k]
        BY <1>1, <2>3, <4>1 DEF OrphansExplained, IncrUnanswered
      <4>3. orphaned' = orphaned /\ \A q \in Proc \ {p} : gate'[q] = gate[q]
        BY <1>1, <2>3, <3>3 DEF IncrUnanswered, Moves, LimiterTypeOK
      <4>4. QED
        BY <4>2, <4>3
    <3>4. QED
      BY <3>2, <3>3
  <2>4. CASE /\ gate[p] # [at |-> "expire", key |-> k]
             /\ ~(Incr(p) /\ gate[p].key = k) /\ ~(IncrUnanswered(p) /\ gate[p].key = k)
    <3>1. counter'[k] = counter[k]
      <4>1. CASE Incr(p) \/ IncrUnanswered(p)
        BY <1>1, <2>4, <4>1 DEF Incr, IncrUnanswered, LimiterTypeOK
      <4>2. CASE Expire(p)
        <5>1. gate[p].key # k
          BY <1>1, <2>4, <4>2 DEF Expire, LimiterTypeOK, Gates, Out, Inside
        <5>2. QED
          BY <1>1, <4>2, <5>1 DEF Expire, LimiterTypeOK
      <4>3. QED
        BY <1>6, <4>1, <4>2 DEF LimiterStep, Leaves, Arrive, IncrFails, ExpireFails
    <3>2. QED
      BY <1>5, <1>6, <2>4, <3>1
  <2>5. QED
    BY <2>1, <2>2, <2>3, <2>4
<1>7. QED
  BY <1>4, <1>6 DEF LimiterNext
=============================================================================
