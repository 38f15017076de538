----------------------------- MODULE RateLimit -----------------------------
(***************************************************************************)
(* middleware.RateLimit: a counter in Redis per client and window, which   *)
(* every request passes before its route.  A goroutine of Proc is cut at   *)
(* the two Redis commands.  Time is one counter, read by the servers and   *)
(* by Redis alike.                                                         *)
(***************************************************************************)
EXTENDS Naturals

CONSTANTS
  Proc,          \* goroutines serving requests
  Client,        \* client IPs
  Limit, Window, \* requests that pass per window, and its length
  MaxTime,       \* bound on the clock
  Faults         \* TRUE: Redis may fail and requests be cut short

ASSUME RateLimitAssumption ==
  /\ Limit \in Nat \ {0} /\ Window \in Nat \ {0}
  /\ MaxTime \in Nat
  /\ Faults \in BOOLEAN

VARIABLES
  now,       \* the clock
  counter,   \* counter[k]: the value at key k and when it expires, or 0 if never
  gate,      \* gate[p]: how far the request of p has come
  admitted,  \* history: admitted[k]: requests counted in their window and let by
  orphaned   \* history: keys of which an EXPIRE that was due got lost

limiterVars == <<now, counter, gate, admitted, orphaned>>

\* Window ids are numbers of windows since the epoch: none ever comes back.
WindowId(time) == time \div Window
Key == Client \X (0..WindowId(MaxTime))

Out    == [at |-> "out"]        \* no request, or it was answered
Inside == [at |-> "in"]         \* past the limiter
Gates  == {Out, Inside} \cup [at : {"incr", "expire"}, key : Key]

LimiterTypeOK ==
  /\ now \in 0..MaxTime
  /\ counter \in [Key -> [value : 0..Limit + 1, until : Nat]]
  /\ gate \in [Proc -> Gates]
  /\ admitted \in [Key -> Nat]
  /\ orphaned \subseteq Key

LimiterInit ==
  /\ now = 0
  /\ counter = [k \in Key |-> [value |-> 0, until |-> 0]]
  /\ gate = [p \in Proc |-> Out]
  /\ admitted = [k \in Key |-> 0]
  /\ orphaned = {}

Moves(p, g) == gate' = [gate EXCEPT ![p] = g]

-----------------------------------------------------------------------------

\* A key past its expiry is as good as absent.
Expired(k) == counter[k].until # 0 /\ counter[k].until <= now
Value(k) == IF Expired(k) THEN 0 ELSE counter[k].value

\* INCR: a new key has no expiry.  Values beyond the limit are not told apart.
Incremented(k) ==
  IF Value(k) = 0 THEN [value |-> 1, until |-> 0]
  ELSE [counter[k] EXCEPT !.value = IF @ > Limit THEN @ ELSE @ + 1]

\* Is this request the one that must see to the expiry?
\* (Seeded fault: the last that passes, not the first.)
IsLast(n) == n = Limit
IsFirst(n) == n = 1

\* A request arrives and works out its key from the clock.
Arrive(p, c) ==
  /\ gate[p] = Out
  /\ Moves(p, [at |-> "incr", key |-> <<c, WindowId(now)>>])
  /\ UNCHANGED <<now, counter, admitted, orphaned>>

\* The count decides; the first of a window sets the expiry before it goes on.
Incr(p) ==
  /\ gate[p].at = "incr"
  /\ LET k == gate[p].key
         n == Incremented(k).value
     IN /\ counter' = [counter EXCEPT ![k] = Incremented(k)]
        /\ Moves(p, IF IsFirst(n) THEN [at |-> "expire", key |-> k]
                    ELSE IF n > Limit THEN Out ELSE Inside)
        /\ admitted' = [admitted EXCEPT ![k] =
                          IF n <= Limit /\ k[2] = WindowId(now) THEN @ + 1 ELSE @]
  /\ UNCHANGED <<now, orphaned>>

\* EXPIRE key window, at whatever time it is by now.
\* (Seeded fault: a shorter life.)
HalfLife == now + (Window + 1) \div 2
FullLife == now + Window

Expire(p) ==
  /\ gate[p].at = "expire"
  /\ counter' = [counter EXCEPT ![gate[p].key].until = FullLife]
  /\ Moves(p, Inside)
  /\ UNCHANGED <<now, admitted, orphaned>>

-----------------------------------------------------------------------------
(* The environment *)

LimiterTick ==
  /\ now < MaxTime
  /\ now' = now + 1
  /\ UNCHANGED <<counter, gate, admitted, orphaned>>

\* INCR fails, and the request passes.
IncrFails(p) ==
  /\ Faults
  /\ gate[p].at = "incr"
  /\ Moves(p, Inside)
  /\ UNCHANGED <<now, counter, admitted, orphaned>>

\* INCR is carried out, but its answer is lost.  The client library sends it
\* again, or gives up, and the request passes.  If it was the first of its
\* window, nobody will know.
IncrUnanswered(p) ==
  /\ Faults
  /\ gate[p].at = "incr"
  /\ LET k == gate[p].key
     IN /\ counter' = [counter EXCEPT ![k] = Incremented(k)]
        /\ orphaned' = IF Value(k) = 0 THEN orphaned \cup {k} ELSE orphaned
  /\ Moves(p, Inside) \/ UNCHANGED gate
  /\ UNCHANGED <<now, admitted>>

\* EXPIRE fails and its error is dropped, or the server dies before it.
ExpireFails(p) ==
  /\ Faults
  /\ gate[p].at = "expire"
  /\ orphaned' = orphaned \cup {gate[p].key}
  /\ Moves(p, Inside) \/ Moves(p, Out)
  /\ UNCHANGED <<now, counter, admitted>>

LimiterStep(p) ==
  \/ \E c \in Client : Arrive(p, c)
  \/ Incr(p) \/ Expire(p)
  \/ IncrFails(p) \/ IncrUnanswered(p) \/ ExpireFails(p)

-----------------------------------------------------------------------------
(* What the limiter guarantees *)

\* Of the requests of a client that are counted within their own window no more
\* than the limit pass, whatever is raced or lost: the counter does not start
\* afresh before its window is over.  (Requests that fail open, and those
\* whose INCR comes late, when the counter may have expired, come on top.)
\* (RateLimit sets the expiry after the count, and decides after that.)
AtMostLimit == \A k \in Key : admitted[k] <= Limit

\* A counter that will never expire is one whose EXPIRE is still to come, or
\* was lost with an answer, an error or a process.  Such a counter stays in
\* Redis for good, but blocks nobody after its window.
\* (INCR and EXPIRE are two commands in RateLimit.)
OrphansExplained ==
  \A k \in Key :
    Value(k) > 0 /\ counter[k].until = 0 =>
      \/ k \in orphaned
      \/ \E p \in Proc : gate[p] = [at |-> "expire", key |-> k]
=============================================================================
