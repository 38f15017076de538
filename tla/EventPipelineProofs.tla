------------------------ MODULE EventPipelineProofs ------------------------
(***************************************************************************)
(* For any events, servers, batch size and limit of retries, and any       *)
(* faults: no event goes astray but for a lost connection or broker, and   *)
(* the pipeline implements AuditTrail.                                     *)
(***************************************************************************)
EXTENDS EventPipeline, FiniteSetTheorems, TLAPS

-----------------------------------------------------------------------------
(* What FetchPending fetches *)

\* How many elements of S come before e.
Rank(S) == [e \in S |-> Cardinality({d \in S : d < e})]

LEMMA RankIsOnto ==
  ASSUME NEW S, S \subseteq Nat, IsFiniteSet(S), NEW i \in 1..Cardinality(S)
  PROVE  \E e \in S : Cardinality({d \in S : d < e}) = i - 1
<1> DEFINE N == Cardinality(S)
           T == 0..(N - 1)
           Before(e) == {d \in S : d < e}
<1>1. N \in Nat
  BY FS_CardinalityType
<1>2. IsFiniteSet(T) /\ Cardinality(T) = N
  <2>1. 0 \in Int /\ N - 1 \in Int
    BY <1>1
  <2>2. IsFiniteSet(T) /\ Cardinality(T) = IF 0 > N - 1 THEN 0 ELSE (N - 1) - 0 + 1
    BY <2>1, FS_Interval
  <2>3. QED
    BY <1>1, <2>2
<1>3. \A e \in S : IsFiniteSet(Before(e)) /\ Cardinality(Before(e)) \in Nat
  <2>1. \A e \in S : Before(e) \in SUBSET S
    OBVIOUS
  <2>2. QED
    BY <2>1, FS_Subset, FS_CardinalityType
<1>4. ASSUME NEW e \in S
      PROVE  Cardinality(Before(e)) \in T
  <2>1. Before(e) \in SUBSET S /\ e \notin Before(e)
    OBVIOUS
  <2>2. Before(e) # S
    BY <2>1
  <2>3. Cardinality(Before(e)) <= N /\ Cardinality(Before(e)) # N
    BY <2>1, <2>2, FS_Subset
  <2>4. QED
    BY <1>1, <1>3, <2>3
<1>5. ASSUME NEW e \in S, NEW d \in S, d < e
      PROVE  Cardinality(Before(d)) # Cardinality(Before(e))
  <2>1. Before(d) \in SUBSET Before(e) /\ d \in Before(e) /\ d \notin Before(d)
    <3>1. \A x \in S : x < d => x < e
      BY <1>5
    <3>2. ~(d < d)
      OBVIOUS
    <3>3. QED
      BY <1>5, <3>1, <3>2
  <2>2. Before(d) # Before(e)
    BY <2>1
  <2>3. QED
    BY <1>3, <2>1, <2>2, FS_Subset
<1>6. Rank(S) \in Injection(S, T)
  <2>1. Rank(S) \in [S -> T]
    BY <1>4 DEF Rank
  <2>2. \A d, e \in S : Rank(S)[d] = Rank(S)[e] => d = e
    <3>1. SUFFICES ASSUME NEW d \in S, NEW e \in S, d # e
                   PROVE  Rank(S)[d] # Rank(S)[e]
      OBVIOUS
    <3>2. Rank(S)[d] = Cardinality(Before(d)) /\ Rank(S)[e] = Cardinality(Before(e))
      BY DEF Rank
    <3>3. d < e \/ e < d
      BY <3>1
    <3>4. QED
      BY <1>5, <3>2, <3>3
  <2>3. QED
    BY <2>1, <2>2 DEF Injection, IsInjective
<1>7. Rank(S) \in Surjection(S, T)
  BY <1>2, <1>6, FS_Injection
<1>8. i - 1 \in T
  BY <1>1
<1>9. PICK e \in S : Rank(S)[e] = i - 1
  BY <1>7, <1>8 DEF Surjection
<1>10. QED
  BY <1>9 DEF Rank

LEMMA OrderedRows ==
  ASSUME NEW S, S \subseteq Nat, IsFiniteSet(S), S # {}, NEW R, S \subseteq R
  PROVE  /\ Ordered(S) \in Seq(R) /\ Ordered(S) # << >>
         /\ \A i \in DOMAIN Ordered(S) : Ordered(S)[i] \in S
<1>1. Cardinality(S) \in Nat /\ Cardinality(S) # 0
  BY FS_CardinalityType, FS_EmptySet
<1>2. \A i \in 1..Cardinality(S) :
        (CHOOSE e \in S : Cardinality({d \in S : d < e}) = i - 1) \in S
  BY RankIsOnto
<1>3. Ordered(S) \in [1..Cardinality(S) -> S]
  BY <1>2 DEF Ordered
<1>4. Ordered(S) \in [1..Cardinality(S) -> R]
  BY <1>3
<1>5. Ordered(S) \in Seq(R)
  BY <1>1, <1>4
<1>6. QED
  BY <1>1, <1>3, <1>5

\* The batch is of pending rows, and not empty.
LEMMA Batch ==
  ASSUME Pending # {}
  PROVE  LET rows == Ordered(Oldest(Pending, BatchSize))
         IN rows \in Seq(Event) /\ rows # << >> /\ \A i \in DOMAIN rows : rows[i] \in Pending
<1> DEFINE S == Oldest(Pending, BatchSize)
<1>1. Pending \subseteq Event /\ Event \subseteq Nat /\ IsFiniteSet(Pending)
  BY PipelineAssumption, FS_Subset DEF Pending
<1>2. S \subseteq Pending /\ IsFiniteSet(S)
  BY <1>1, FS_Subset DEF Oldest
<1>3. Cardinality(Pending) \in Nat /\ Cardinality(Pending) # 0
  BY <1>1, FS_CardinalityType, FS_EmptySet
<1>4. PICK e \in Pending : Cardinality({d \in Pending : d < e}) = 0
  <2>1. 1 \in 1..Cardinality(Pending) /\ 1 - 1 = 0 /\ Pending \subseteq Nat
    BY <1>1, <1>3
  <2>2. QED
    BY <1>1, <2>1, RankIsOnto
<1>5. e \in S
  BY <1>4, PipelineAssumption DEF Oldest
<1>6. S \subseteq Nat
  BY <1>1, <1>2
<1>7. QED
  BY <1>1, <1>2, <1>5, <1>6, OrderedRows

-----------------------------------------------------------------------------
(* Frames *)

\* The places in w of the acks and nacks of x.
Settles(w, x) == {i \in DOMAIN w : w[i].op \in {"ack", "nack"} /\ w[i].slot = x}

LEMMA FrameData ==
  ASSUME NEW f \in Frame
  PROVE  /\ f.op \in {"publish", "ack", "nack"}
         /\ f.op = "publish" => f.msg \in Msg
         /\ f.op # "publish" => f.slot \in Slot
  BY DEF Frame

LEMMA SettlesFinite ==
  ASSUME NEW w \in Seq(Frame), NEW x
  PROVE  IsFiniteSet(Settles(w, x)) /\ Cardinality(Settles(w, x)) \in Nat
<1>1. Len(w) \in Nat /\ DOMAIN w = 1..Len(w)
  OBVIOUS
<1>2. 1 \in Int /\ Len(w) \in Int
  BY <1>1
<1>3. IsFiniteSet(1..Len(w))
  BY <1>2, FS_Interval
<1>4. Settles(w, x) \in SUBSET (1..Len(w))
  BY <1>1 DEF Settles
<1>5. QED
  BY <1>3, <1>4, FS_Subset, FS_CardinalityType

LEMMA SettlesAppend ==
  ASSUME NEW w \in Seq(Frame), NEW f \in Frame, NEW x
  PROVE  Cardinality(Settles(Append(w, f), x)) =
           Cardinality(Settles(w, x)) + IF f.op \in {"ack", "nack"} /\ f.slot = x THEN 1 ELSE 0
<1>1. /\ DOMAIN Append(w, f) = (DOMAIN w) \cup {Len(w) + 1}
      /\ \A i \in DOMAIN w : Append(w, f)[i] = w[i]
      /\ Append(w, f)[Len(w) + 1] = f
      /\ Len(w) + 1 \notin DOMAIN w
  OBVIOUS
<1>2. Len(w) + 1 \notin Settles(w, x)
  BY <1>1 DEF Settles
<1>3. CASE f.op \in {"ack", "nack"} /\ f.slot = x
  <2>1. Settles(Append(w, f), x) = Settles(w, x) \cup {Len(w) + 1}
    BY <1>1, <1>3 DEF Settles
  <2>2. Cardinality(Settles(w, x) \cup {Len(w) + 1}) = Cardinality(Settles(w, x)) + 1
    BY <1>2, SettlesFinite, FS_AddElement, ZenonT(30)
  <2>3. QED
    BY <1>3, <2>1, <2>2
<1>4. CASE ~(f.op \in {"ack", "nack"} /\ f.slot = x)
  <2>1. Settles(Append(w, f), x) = Settles(w, x)
    BY <1>1, <1>4 DEF Settles
  <2>2. QED
    BY <1>4, <2>1, SettlesFinite
<1>5. QED
  BY <1>3, <1>4

LEMMA SettlesTail ==
  ASSUME NEW w \in Seq(Frame), w # << >>, NEW x
  PROVE  Cardinality(Settles(Tail(w), x)) =
           Cardinality(Settles(w, x))
             - IF Head(w).op \in {"ack", "nack"} /\ Head(w).slot = x THEN 1 ELSE 0
<1> DEFINE A == Settles(Tail(w), x)
           B == Settles(w, x)
           F == [i \in A |-> i + 1]
<1>1. /\ Len(w) \in Nat /\ Len(w) >= 1 /\ DOMAIN w = 1..Len(w)
      /\ DOMAIN Tail(w) = 1..(Len(w) - 1) /\ Tail(w) \in Seq(Frame)
      /\ \A i \in 1..(Len(w) - 1) : Tail(w)[i] = w[i + 1]
      /\ w[1] = Head(w)
  OBVIOUS
<1>2. F \in Bijection(A, B \ {1})
  <2>1. \A i \in A : i \in Nat /\ i + 1 \in B \ {1}
    BY <1>1 DEF Settles
  <2>2. \A j \in B \ {1} : j - 1 \in A /\ (j - 1) + 1 = j
    BY <1>1 DEF Settles
  <2>3. F \in [A -> B \ {1}]
    BY <2>1
  <2>4. \A i, j \in A : F[i] = F[j] => i = j
    BY <2>1
  <2>5. \A j \in B \ {1} : \E i \in A : F[i] = j
    BY <2>2
  <2>6. QED
    BY <2>3, <2>4, <2>5 DEF Bijection, Injection, Surjection, IsInjective
<1>3. IsFiniteSet(A) /\ IsFiniteSet(B) /\ Cardinality(B) \in Nat
  BY <1>1, SettlesFinite
<1>4. Cardinality(B \ {1}) = Cardinality(A)
  BY <1>2, <1>3, FS_Bijection DEF ExistsBijection
<1>5. Cardinality(B \ {1}) = IF 1 \in B THEN Cardinality(B) - 1 ELSE Cardinality(B)
  BY <1>3, FS_RemoveElement, ZenonT(30)
<1>6. 1 \in B <=> Head(w).op \in {"ack", "nack"} /\ Head(w).slot = x
  BY <1>1 DEF Settles
<1>7. QED
  BY <1>3, <1>4, <1>5, <1>6

-----------------------------------------------------------------------------
(* Types, and what every server still owes the broker *)

InHand == {"handle", "republish", "ack", "nack"}

RelaysOK ==
  /\ status \in [Event -> {"none", "pending", "sent"}]
  /\ relay \in [Server -> Relays]
  /\ \A s \in Server : relay[s].pc \in {"publish", "mark"} => relay[s].rows # << >>
  /\ connected \subseteq Server

\* With the types: only a message that is not at its last retry is republished.
ConsumersOK ==
  /\ consumer \in [Server -> [Queue -> Consumers]]
  /\ \A s \in Server, q \in Queue :
       consumer[s][q].pc = "republish" => consumer[s][q].msg.retry < MaxRetries

\* A consumer whose connection works has a delivery in hand.
Holds(s, x) ==
  /\ s \in connected
  /\ consumer[s][x[1]].pc \in InHand /\ consumer[s][x[1]].msg = x[2]

\* Each delivery is settled once at most: those that are in hand or settled by
\* a frame that was not read are unacked.
Owed ==
  \A s \in Server, x \in Slot :
    Cardinality(Settles(wire[s], x)) + (IF Holds(s, x) THEN 1 ELSE 0) <= unacked[s][x]

WiresOK ==
  /\ wire \in [Server -> Seq(Frame)]
  /\ ready \in [Slot -> Nat]
  /\ unacked \in [Server -> [Slot -> Nat]]
  /\ Owed

SinksOK ==
  /\ dead \in [Event -> Nat] /\ audited \in [Event -> Nat] /\ notified \in [Event -> Nat]
  /\ lost \subseteq Event

TypesInv == RelaysOK /\ ConsumersOK /\ WiresOK /\ SinksOK

LEMMA OffWait ==
  /\ Off.pc = "off" /\ Wait.pc = "wait"
  /\ Off \in Relays /\ Wait \in Relays /\ Off \in Consumers /\ Wait \in Consumers
  BY DEF Off, Wait, Relays, Consumers

LEMMA ConsumerData ==
  ASSUME ConsumersOK, NEW s \in Server, NEW q \in Queue
  PROVE  /\ consumer[s][q] \in Consumers
         /\ consumer[s][q].pc \in {"off", "wait"} \cup InHand
         /\ consumer[s][q].pc \in InHand =>
              /\ consumer[s][q].msg \in Msg /\ <<q, consumer[s][q].msg>> \in Slot
              /\ consumer[s][q] = [pc |-> consumer[s][q].pc, msg |-> consumer[s][q].msg]
  BY DEF ConsumersOK, Consumers, InHand, Slot

LEMMA RelayData ==
  ASSUME RelaysOK, NEW s \in Server, relay[s].pc \in {"publish", "mark"}
  PROVE  /\ relay[s].rows \in Seq(Event) /\ relay[s].rows # << >>
         /\ Head(relay[s].rows) \in Event
         /\ NextRow(s) \in Relays
         /\ NextRow(s).pc \in {"publish", "mark"} =>
              /\ NextRow(s).pc = "publish" /\ NextRow(s).rows # << >>
              /\ NextRow(s).rows = Tail(relay[s].rows)
<1>1. relay[s].rows \in Seq(Event) /\ relay[s].rows # << >>
  BY DEF RelaysOK, Relays
<1>2. Head(relay[s].rows) \in Event /\ Tail(relay[s].rows) \in Seq(Event)
  BY <1>1
<1>3. CASE Len(relay[s].rows) = 1
  BY <1>1, <1>2, <1>3, OffWait DEF NextRow
<1>4. CASE Len(relay[s].rows) # 1
  <2>1. NextRow(s) = [pc |-> "publish", rows |-> Tail(relay[s].rows)]
    BY <1>4 DEF NextRow
  <2>2. Tail(relay[s].rows) # << >>
    <3>1. ASSUME NEW w \in Seq(Event), w # << >>, Len(w) # 1
          PROVE  Tail(w) # << >>
      <4>1. Len(w) \in Nat /\ Len(w) # 0
        BY <3>1
      <4>2. Len(Tail(w)) = Len(w) - 1 /\ Len(Tail(w)) # 0
        BY <3>1, <4>1
      <4>3. Len(<< >>) = 0
        OBVIOUS
      <4>4. QED
        BY <4>2, <4>3, Zenon
    <3>2. QED
      BY <1>1, <1>4, <3>1
  <2>3. [pc |-> "publish", rows |-> Tail(relay[s].rows)] \in Relays
    BY <1>2 DEF Relays
  <2>4. QED
    BY <1>1, <1>2, <2>1, <2>2, <2>3
<1>5. QED
  BY <1>3, <1>4

LEMMA SettlesNothing == \A x : Settles(<< >>, x) = {} /\ Cardinality(Settles(<< >>, x)) = 0
  BY FS_EmptySet DEF Settles

LEMMA InitTypes == Init => TypesInv
<1>1. SUFFICES ASSUME Init PROVE TypesInv
  OBVIOUS
<1>2. RelaysOK
  BY <1>1, OffWait DEF Init, RelaysOK
<1>3. ConsumersOK
  BY <1>1, OffWait DEF Init, ConsumersOK
<1>4. SinksOK
  BY <1>1 DEF Init, SinksOK
<1>5. WiresOK
  <2>1. Queue = {"audit", "notification"} /\ \A x \in Slot : x[1] \in Queue
    BY DEF Slot, Queue
  <2>2. \A s \in Server, x \in Slot : ~Holds(s, x)
    BY <1>1, <2>1, OffWait DEF Init, Holds, InHand
  <2>3. Owed
    BY <1>1, <2>2, SettlesNothing DEF Init, Owed, Empty
  <2>4. wire \in [Server -> Seq(Frame)] /\ ready \in [Slot -> Nat]
        /\ unacked \in [Server -> [Slot -> Nat]]
    BY <1>1 DEF Init, Empty
  <2>5. QED
    BY <2>3, <2>4 DEF WiresOK
<1>6. QED
  BY <1>2, <1>3, <1>4, <1>5 DEF TypesInv

-----------------------------------------------------------------------------
(* Types of relays and consumers *)

LEMMA RelayGoesOn ==
  ASSUME RelaysOK, NEW s \in Server, NEW r \in Relays, relay' = [relay EXCEPT ![s] = r],
         r.pc \in {"publish", "mark"} => r.rows # << >>,
         status' \in [Event -> {"none", "pending", "sent"}], connected' \subseteq Server
  PROVE  RelaysOK'
  BY DEF RelaysOK

LEMMA NextRelays ==
  ASSUME TypesInv, [Next]_vars
  PROVE  RelaysOK'
<1>1. RelaysOK
  BY DEF TypesInv
<1>2. ASSUME NEW s \in Server, FetchPending(s)
      PROVE  RelaysOK'
  <2> DEFINE rows == Ordered(Oldest(Pending, BatchSize))
  <2>1. rows \in Seq(Event) /\ rows # << >>
    BY <1>2, Batch DEF FetchPending
  <2>2. [pc |-> "publish", rows |-> rows] \in Relays
    BY <2>1 DEF Relays
  <2>3. relay' = [relay EXCEPT ![s] = [pc |-> "publish", rows |-> rows]]
        /\ UNCHANGED <<status, connected>>
    BY <1>2 DEF FetchPending
  <2> HIDE DEF rows
  <2>4. QED
    BY <1>1, <2>1, <2>2, <2>3, RelayGoesOn DEF RelaysOK
<1>3. ASSUME NEW s \in Server, Publish(s)
      PROVE  RelaysOK'
  <2>1. relay[s].rows \in Seq(Event) /\ relay[s].rows # << >> /\ NextRow(s) \in Relays
        /\ (NextRow(s).pc \in {"publish", "mark"} => NextRow(s).rows # << >>)
    BY <1>1, <1>3, RelayData DEF Publish
  <2>2. [pc |-> "mark", rows |-> relay[s].rows] \in Relays
    BY <2>1 DEF Relays
  <2>3. UNCHANGED <<status, connected>>
        /\ \/ relay' = [relay EXCEPT ![s] = [pc |-> "mark", rows |-> relay[s].rows]]
           \/ relay' = [relay EXCEPT ![s] = NextRow(s)]
    BY <1>3 DEF Publish
  <2>4. QED
    BY <1>1, <2>1, <2>2, <2>3, RelayGoesOn DEF RelaysOK
<1>4. ASSUME NEW s \in Server, MarkSent(s) \/ MarkSentFails(s)
      PROVE  RelaysOK'
  <2>1. Head(relay[s].rows) \in Event /\ NextRow(s) \in Relays
        /\ (NextRow(s).pc \in {"publish", "mark"} => NextRow(s).rows # << >>)
    BY <1>1, <1>4, RelayData DEF MarkSent, MarkSentFails
  <2>2. relay' = [relay EXCEPT ![s] = NextRow(s)] /\ connected' = connected
        /\ (status' = status \/ status' = [status EXCEPT ![Head(relay[s].rows)] = "sent"])
    BY <1>4 DEF MarkSent, MarkSentFails
  <2>3. QED
    BY <1>1, <2>1, <2>2, RelayGoesOn DEF RelaysOK
<1>5. ASSUME NEW s \in Server, Crash(s) \/ Boot(s)
      PROVE  RelaysOK'
  BY <1>1, <1>5, OffWait, RelayGoesOn DEF Crash, Boot, RelaysOK
<1>6. ASSUME NEW e \in Event, CommitEvent(e)
      PROVE  RelaysOK'
  BY <1>1, <1>6 DEF CommitEvent, RelaysOK
<1>7. ASSUME NEW s \in Server, ReadFrame(s) \/ Requeue(s) \/ HandleFails(s) \/ BootAlone(s) \/ Disconnect(s)
      PROVE  RelaysOK'
  BY <1>1, <1>7 DEF ReadFrame, Requeue, HandleFails, BootAlone, Disconnect, RelaysOK
<1>8. ASSUME NEW s \in Server, NEW q \in Queue, ConsumerStep(s, q) \/ \E m \in Msg : Deliver(s, q, m)
      PROVE  RelaysOK'
  <2>1. UNCHANGED <<status, relay, connected>>
    BY <1>8 DEF ConsumerStep, HandleAudit, HandleNotification, Republish, Settle, Deliver
  <2>2. QED
    BY <1>1, <2>1 DEF RelaysOK
<1>9. CASE BrokerRestart \/ UNCHANGED vars
  BY <1>1, <1>9 DEF BrokerRestart, vars, RelaysOK
<1>10. QED
  BY <1>2, <1>3, <1>4, <1>5, <1>6, <1>7, <1>8, <1>9 DEF Next, RelayStep

LEMMA ConsumerGoesOn ==
  ASSUME ConsumersOK, NEW s \in Server, NEW q \in Queue, NEW c \in Consumers,
         consumer' = [consumer EXCEPT ![s][q] = c],
         c.pc = "republish" => c.msg.retry < MaxRetries
  PROVE  ConsumersOK'
  BY DEF ConsumersOK

\* What Handled does, with the message spelt out.
LEMMA HandledAcks ==
  ASSUME ConsumersOK, NEW s \in Server, NEW q \in Queue, Handled(s, q)
  PROVE  /\ consumer[s][q].pc = "handle" /\ consumer[s][q].msg \in Msg
         /\ consumer' = [consumer EXCEPT ![s][q] = [pc |-> "ack", msg |-> consumer[s][q].msg]]
<1>1. consumer \in [Server -> [Queue -> Consumers]]
  BY DEF ConsumersOK
<1>2. consumer[s][q].pc = "handle"
  BY DEF Handled
<1>3. consumer' = [consumer EXCEPT ![s][q] = [pc |-> "ack", msg |-> consumer[s][q].msg]]
  BY <1>1 DEF Handled
<1>4. QED
  BY <1>2, <1>3, ConsumerData DEF InHand

LEMMA ConsumersClose ==
  ASSUME ConsumersOK, NEW s \in Server
  PROVE  /\ Closed(s) \in [Queue -> Consumers]
         /\ \A q \in Queue : Closed(s)[q] = Off \/ Closed(s)[q] = consumer[s][q]
  BY OffWait DEF ConsumersOK, Closed

LEMMA NextConsumers ==
  ASSUME TypesInv, [Next]_vars
  PROVE  ConsumersOK'
<1>1. ConsumersOK /\ consumer \in [Server -> [Queue -> Consumers]]
  BY DEF TypesInv, ConsumersOK
<1>2. Queue = {"audit", "notification"}
  BY DEF Queue
<1>3. ASSUME consumer' = consumer
      PROVE  ConsumersOK'
  BY <1>1, <1>3 DEF ConsumersOK
<1>4. ASSUME NEW m \in Msg, NEW k \in InHand
      PROVE  [pc |-> k, msg |-> m] \in Consumers
  BY DEF Consumers, InHand
<1>5. ASSUME NEW s \in Server, HandleFails(s)
      PROVE  ConsumersOK'
  <2> DEFINE m == consumer[s]["audit"].msg
  <2>1. m \in Msg /\ consumer' = [consumer EXCEPT ![s]["audit"] = [pc |-> AfterError(m), msg |-> m]]
    BY <1>1, <1>2, <1>5, ConsumerData DEF HandleFails, InHand
  <2>2. AfterError(m) \in InHand /\ (AfterError(m) = "republish" => m.retry < MaxRetries)
    BY <2>1, PipelineAssumption DEF AfterError, InHand, Msg
  <2> HIDE DEF m
  <2>3. QED
    BY <1>1, <1>2, <1>4, <2>1, <2>2, ConsumerGoesOn
<1>6. ASSUME NEW s \in Server, Crash(s) \/ Boot(s)
      PROVE  ConsumersOK'
  <2>1. PICK c \in {Off, Wait} : consumer' = [consumer EXCEPT ![s] = [q \in Queue |-> c]]
    BY <1>6 DEF Crash, Boot
  <2>2. c \in Consumers /\ c.pc # "republish"
    BY OffWait
  <2>3. QED
    BY <1>1, <2>1, <2>2 DEF ConsumersOK
<1>7. ASSUME NEW s \in Server, Disconnect(s)
      PROVE  ConsumersOK'
  BY <1>1, <1>7, ConsumersClose, OffWait DEF Disconnect, ConsumersOK
<1>8. CASE BrokerRestart
  BY <1>1, <1>8, ConsumersClose, OffWait DEF BrokerRestart, ConsumersOK
<1>9. ASSUME NEW s \in Server, NEW q \in Queue, ConsumerStep(s, q)
      PROVE  ConsumersOK'
  <2>1. CASE Handled(s, q)
    <3>1. consumer[s][q].msg \in Msg
          /\ consumer' = [consumer EXCEPT ![s][q] = [pc |-> "ack", msg |-> consumer[s][q].msg]]
      BY <1>1, <2>1, HandledAcks
    <3>2. QED
      BY <1>1, <1>4, <3>1, ConsumerGoesOn DEF InHand
  <2>2. CASE Republish(s, q)
    <3>1. consumer[s][q].msg \in Msg
          /\ consumer' = [consumer EXCEPT ![s][q] = [pc |-> "ack", msg |-> consumer[s][q].msg]]
      BY <1>1, <2>2, ConsumerData DEF Republish, InHand
    <3>2. QED
      BY <1>1, <1>4, <3>1, ConsumerGoesOn DEF InHand
  <2>3. CASE Settle(s, q)
    <3>1. \E c \in {Off, Wait} : consumer' = [consumer EXCEPT ![s][q] = c]
      BY <2>3 DEF Settle
    <3>2. QED
      BY <1>1, <3>1, OffWait, ConsumerGoesOn
  <2>4. QED
    BY <1>9, <2>1, <2>2, <2>3 DEF ConsumerStep, HandleAudit, HandleNotification
<1>10. ASSUME NEW s \in Server, NEW q \in Queue, NEW m \in Msg, Deliver(s, q, m)
       PROVE  ConsumersOK'
  BY <1>1, <1>4, <1>10, ConsumerGoesOn DEF Deliver, InHand
<1>11. ASSUME NEW s \in Server,
              RelayStep(s) \/ ReadFrame(s) \/ Requeue(s) \/ MarkSentFails(s) \/ BootAlone(s)
       PROVE  ConsumersOK'
  BY <1>3, <1>11
  DEF RelayStep, FetchPending, Publish, MarkSent, ReadFrame, Requeue, MarkSentFails, BootAlone
<1>12. ASSUME NEW e \in Event, CommitEvent(e)
       PROVE  ConsumersOK'
  BY <1>3, <1>12 DEF CommitEvent
<1>13. CASE UNCHANGED vars
  BY <1>3, <1>13 DEF vars
<1>14. QED
  BY <1>5, <1>6, <1>7, <1>8, <1>9, <1>10, <1>11, <1>12, <1>13 DEF Next

-----------------------------------------------------------------------------
(* Types of what events come to *)

LEMMA FrameRead ==
  ASSUME WiresOK, NEW s \in Server, wire[s] # << >>
  PROVE  /\ wire[s] \in Seq(Frame) /\ Head(wire[s]) \in Frame /\ Tail(wire[s]) \in Seq(Frame)
         /\ wire[s][1] = Head(wire[s])
  BY DEF WiresOK

LEMMA SlotData ==
  ASSUME NEW x \in Slot
  PROVE  x[1] \in Queue /\ x[2] \in Msg /\ x[2].ev \in Event /\ x = <<x[1], x[2]>>
  BY DEF Slot, Msg

LEMMA NextSinks ==
  ASSUME TypesInv, [Next]_vars
  PROVE  SinksOK'
<1>1. SinksOK /\ ConsumersOK /\ WiresOK /\ Queue = {"audit", "notification"}
  BY DEF TypesInv, Queue
<1>2. ASSUME UNCHANGED <<dead, audited, notified, lost>>
      PROVE  SinksOK'
  BY <1>1, <1>2 DEF SinksOK
<1>3. ASSUME NEW s \in Server, HandleAudit(s) \/ HandleNotification(s)
      PROVE  SinksOK'
  <2>1. CASE HandleAudit(s)
    <3>1. consumer[s]["audit"].msg.ev \in Event
      BY <1>1, <2>1, HandledAcks DEF HandleAudit, Msg
    <3>2. audited' = [audited EXCEPT ![consumer[s]["audit"].msg.ev] = @ + 1]
          /\ UNCHANGED <<dead, notified, lost>>
      BY <2>1 DEF HandleAudit, broker
    <3>3. QED
      BY <1>1, <3>1, <3>2 DEF SinksOK
  <2>2. CASE HandleNotification(s)
    <3>1. consumer[s]["notification"].msg.ev \in Event
      BY <1>1, <2>2, HandledAcks DEF HandleNotification, Msg
    <3>2. notified' = [notified EXCEPT ![consumer[s]["notification"].msg.ev] = @ + 1]
          /\ UNCHANGED <<dead, audited, lost>>
      BY <2>2 DEF HandleNotification, broker
    <3>3. QED
      BY <1>1, <3>1, <3>2 DEF SinksOK
  <2>3. QED
    BY <1>3, <2>1, <2>2
<1>4. ASSUME NEW s \in Server, ReadFrame(s)
      PROVE  SinksOK'
  <2>1. Head(wire[s]) \in Frame /\ UNCHANGED <<audited, notified, lost>>
    BY <1>1, <1>4, FrameRead DEF ReadFrame, sinks
  <2>2. CASE Head(wire[s]).op = "nack"
    <3>1. Head(wire[s]).slot[2].ev \in Event
      BY <2>1, <2>2, FrameData, SlotData
    <3>2. dead' = [dead EXCEPT ![Head(wire[s]).slot[2].ev] = @ + 1]
      BY <1>4, <2>2 DEF ReadFrame
    <3>3. QED
      BY <1>1, <2>1, <3>1, <3>2 DEF SinksOK
  <2>3. CASE Head(wire[s]).op # "nack"
    BY <1>2, <1>4, <2>1, <2>3 DEF ReadFrame
  <2>4. QED
    BY <2>2, <2>3
<1>5. ASSUME NEW s \in Server, Disconnect(s)
      PROVE  SinksOK'
  BY <1>1, <1>5 DEF Disconnect, SinksOK, OnTheWire, sinks
<1>6. CASE BrokerRestart
  <2>1. Queued \subseteq Event /\ \A s \in Server : OnTheWire(s) \subseteq Event
    BY DEF Queued, OnTheWire
  <2>2. UNCHANGED <<audited, notified>> /\ dead' = [e \in Event |-> 0]
        /\ lost' = lost \cup Queued \cup (UNION {OnTheWire(s) : s \in Server})
                        \cup {e \in Event : dead[e] > 0}
    BY <1>6 DEF BrokerRestart, sinks
  <2>3. UNION {OnTheWire(s) : s \in Server} \subseteq Event
    BY <2>1
  <2>4. lost' \subseteq Event
    <3> DEFINE U == UNION {OnTheWire(s) : s \in Server}
               D == {e \in Event : dead[e] > 0}
    <3>1. lost \subseteq Event /\ D \subseteq Event
      BY <1>1 DEF SinksOK
    <3>2. U \subseteq Event
      BY <2>3
    <3>3. lost' = lost \cup Queued \cup U \cup D
      BY <1>6 DEF BrokerRestart
    <3> HIDE DEF U, D
    <3>4. QED
      BY <2>1, <3>1, <3>2, <3>3
  <2>5. dead' \in [Event -> Nat]
    BY <2>2
  <2>6. QED
    BY <1>1, <2>2, <2>4, <2>5 DEF SinksOK
<1>7. ASSUME NEW s \in Server,
             \/ RelayStep(s) \/ Requeue(s) \/ HandleFails(s) \/ MarkSentFails(s) \/ Boot(s)
             \/ Crash(s) \/ BootAlone(s)
             \/ \E q \in Queue : \/ Republish(s, q) \/ Settle(s, q)
                                 \/ \E m \in Msg : Deliver(s, q, m)
      PROVE  SinksOK'
  BY <1>2, <1>7
  DEF RelayStep, FetchPending, Publish, MarkSent, Requeue, HandleFails, MarkSentFails, Boot, Crash,
      BootAlone, Republish, Settle, Deliver, broker, sinks
<1>8. ASSUME NEW e \in Event, CommitEvent(e)
      PROVE  SinksOK'
  BY <1>2, <1>8 DEF CommitEvent, broker, sinks
<1>9. CASE UNCHANGED vars
  BY <1>2, <1>9 DEF vars, broker, sinks
<1>10. QED
  BY <1>3, <1>4, <1>5, <1>6, <1>7, <1>8, <1>9 DEF Next, ConsumerStep

-----------------------------------------------------------------------------
(* Types of frames and queues *)

\* What s owes.
Owes(s) ==
  \A x \in Slot :
    Cardinality(Settles(wire[s], x)) + (IF Holds(s, x) THEN 1 ELSE 0) <= unacked[s][x]

LEMMA FramesAreFrames ==
  /\ \A m \in Msg : [op |-> "publish", msg |-> m] \in Frame
  /\ \A k \in {"ack", "nack"}, x \in Slot : [op |-> k, slot |-> x] \in Frame
  /\ \A m \in Msg : m.retry < MaxRetries => Retried(m) \in Msg
<1>1. /\ \A m \in Msg : [op |-> "publish", msg |-> m] \in Frame
      /\ \A k \in {"ack", "nack"}, x \in Slot : [op |-> k, slot |-> x] \in Frame
  BY DEF Frame
<1>2. ASSUME NEW m \in Msg, m.retry < MaxRetries
      PROVE  Retried(m) \in Msg
  <2>1. m.retry + 1 \in 0..MaxRetries
    BY <1>2, PipelineAssumption DEF Msg
  <2>2. QED
    BY <2>1 DEF Retried, Msg
<1>3. QED
  BY <1>1, <1>2

LEMMA Retries ==
  \A m \in Msg : Retried(m).ev = m.ev /\ Retried(m).retry = m.retry + 1
                 /\ m.ev \in Event /\ m.retry \in 0..MaxRetries
  BY DEF Retried, Msg

\* A step that is no other server's business.
LEMMA OnlyOwes ==
  ASSUME WiresOK, NEW s \in Server, Owes(s)',
         \A t \in Server \ {s} :
           /\ wire'[t] = wire[t] /\ unacked'[t] = unacked[t] /\ consumer'[t] = consumer[t]
           /\ t \in connected' => t \in connected
  PROVE  Owed'
<1>1. SUFFICES ASSUME NEW t \in Server, t # s
               PROVE  Owes(t)'
  BY DEF Owes, Owed
<1>2. Owes(t)
  BY DEF WiresOK, Owed, Owes
<1>3. \A x \in Slot : Holds(t, x)' => Holds(t, x)
  BY <1>1 DEF Holds
<1>4. \A x \in Slot : Cardinality(Settles(wire[t], x)) \in Nat /\ unacked[t][x] \in Nat
  BY SettlesFinite DEF WiresOK
<1>5. QED
  BY <1>1, <1>2, <1>3, <1>4 DEF Owes

\* Nothing is sent or settled, and nothing comes into anybody's hands.
LEMMA QuietWires ==
  ASSUME WiresOK, UNCHANGED <<wire, ready, unacked>>,
         \A s \in Server, x \in Slot : Holds(s, x)' => Holds(s, x)
  PROVE  WiresOK'
<1>1. \A s \in Server, x \in Slot :
        Cardinality(Settles(wire[s], x)) \in Nat /\ unacked[s][x] \in Nat
  BY SettlesFinite DEF WiresOK
<1>2. ASSUME NEW s \in Server, NEW x \in Slot
      PROVE  Cardinality(Settles(wire[s], x)) + (IF Holds(s, x)' THEN 1 ELSE 0) <= unacked[s][x]
  <2>1. Cardinality(Settles(wire[s], x)) + (IF Holds(s, x) THEN 1 ELSE 0) <= unacked[s][x]
    BY DEF WiresOK, Owed
  <2>2. QED
    BY <1>1, <2>1
<1>3. Owed'
  BY <1>2 DEF Owed
<1>4. QED
  BY <1>3 DEF WiresOK

\* A consumer that goes on to c.
LEMMA HoldsGoesOn ==
  ASSUME ConsumersOK, NEW s \in Server, NEW q \in Queue, NEW c,
         consumer' = [consumer EXCEPT ![s][q] = c], connected' = connected
  PROVE  /\ \A t \in Server, x \in Slot : t # s \/ x[1] # q => (Holds(t, x)' <=> Holds(t, x))
         /\ \A x \in Slot : x[1] = q =>
              (Holds(s, x)' <=> s \in connected /\ c.pc \in InHand /\ c.msg = x[2])
         /\ \A t \in Server : t # s => consumer'[t] = consumer[t]
<1>1. consumer \in [Server -> [Queue -> Consumers]] /\ \A x \in Slot : x[1] \in Queue
  BY SlotData DEF ConsumersOK
<1>2. QED
  BY <1>1 DEF Holds

\* s sends f.
LEMMA OwesAppend ==
  ASSUME WiresOK, NEW s \in Server, NEW f \in Frame, wire' = [wire EXCEPT ![s] = Append(@, f)],
         unacked' = unacked, ready' = ready,
         \A t \in Server \ {s} : consumer'[t] = consumer[t] /\ (t \in connected' => t \in connected),
         \A x \in Slot :
           IF f.op \in {"ack", "nack"} /\ f.slot = x THEN Holds(s, x) /\ ~Holds(s, x)'
           ELSE Holds(s, x)' => Holds(s, x)
  PROVE  WiresOK'
<1>1. wire[s] \in Seq(Frame) /\ wire'[s] = Append(wire[s], f) /\ Owes(s)
  BY DEF WiresOK, Owed, Owes
<1>2. wire' \in [Server -> Seq(Frame)]
  BY <1>1 DEF WiresOK
<1>3. \A x \in Slot : Cardinality(Settles(wire[s], x)) \in Nat /\ unacked[s][x] \in Nat
  BY SettlesFinite DEF WiresOK
<1>4. Owes(s)'
  <2>1. SUFFICES ASSUME NEW x \in Slot
                 PROVE  Cardinality(Settles(wire'[s], x)) + (IF Holds(s, x)' THEN 1 ELSE 0)
                          <= unacked[s][x]
    BY DEF Owes
  <2>2. Cardinality(Settles(wire[s], x)) + (IF Holds(s, x) THEN 1 ELSE 0) <= unacked[s][x]
    BY <1>1 DEF Owes
  <2>3. Cardinality(Settles(wire'[s], x)) =
          Cardinality(Settles(wire[s], x)) + IF f.op \in {"ack", "nack"} /\ f.slot = x THEN 1 ELSE 0
    BY <1>1, SettlesAppend
  <2>4. QED
    BY <1>3, <2>2, <2>3
<1>5. Owed'
  BY <1>4, OnlyOwes DEF WiresOK
<1>6. QED
  BY <1>2, <1>5 DEF WiresOK

LEMMA ReadFrameWires ==
  ASSUME TypesInv, NEW s \in Server, ReadFrame(s)
  PROVE  WiresOK'
<1> DEFINE f == Head(wire[s])
           x == f.slot
<1>1. WiresOK /\ wire[s] # << >> /\ wire[s] \in Seq(Frame) /\ f \in Frame
      /\ Tail(wire[s]) \in Seq(Frame) /\ Owes(s)
  BY FrameRead DEF TypesInv, ReadFrame, WiresOK, Owed, Owes
<1>2. wire' = [wire EXCEPT ![s] = Tail(wire[s])] /\ UNCHANGED <<consumer, connected>>
  BY DEF ReadFrame
<1>3. wire' \in [Server -> Seq(Frame)] /\ wire'[s] = Tail(wire[s])
      /\ \A t \in Server \ {s} : wire'[t] = wire[t]
  BY <1>1, <1>2 DEF WiresOK
<1>4. \A y \in Slot :
        /\ Cardinality(Settles(wire[s], y)) \in Nat /\ unacked[s][y] \in Nat
        /\ Cardinality(Settles(Tail(wire[s]), y)) \in Nat
        /\ Cardinality(Settles(Tail(wire[s]), y)) =
             Cardinality(Settles(wire[s], y))
               - IF f.op \in {"ack", "nack"} /\ f.slot = y THEN 1 ELSE 0
        /\ Holds(s, y)' <=> Holds(s, y)
  BY <1>1, <1>2, SettlesFinite, SettlesTail DEF WiresOK, Holds
<1>5. CASE f.op = "publish"
  <2>1. unacked' = unacked /\ ready' \in [Slot -> Nat]
    <3>1. unacked' = unacked
          /\ ready' = [y \in Slot |->
               ready[y] + IF y[2] = f.msg /\ Bound(y[1], f.msg.ev) THEN 1 ELSE 0]
      BY <1>5 DEF ReadFrame
    <3>2. \A y \in Slot : ready[y] \in Nat
      BY <1>1 DEF WiresOK
    <3>3. QED
      BY <3>1, <3>2
  <2>2. Owes(s)'
    <3>1. SUFFICES ASSUME NEW y \in Slot
                   PROVE  Cardinality(Settles(Tail(wire[s]), y)) + (IF Holds(s, y) THEN 1 ELSE 0)
                            <= unacked[s][y]
      BY <1>3, <1>4, <2>1 DEF Owes
    <3>2. Cardinality(Settles(wire[s], y)) + (IF Holds(s, y) THEN 1 ELSE 0) <= unacked[s][y]
      BY <1>1 DEF Owes
    <3>3. QED
      BY <1>4, <1>5, <3>2
  <2>3. Owed'
    BY <1>1, <1>2, <1>3, <2>1, <2>2, OnlyOwes
  <2>4. QED
    BY <1>1, <1>3, <2>1, <2>3 DEF WiresOK
<1>6. CASE f.op \in {"ack", "nack"}
  <2>1. x \in Slot /\ unacked' = [unacked EXCEPT ![s][x] = @ - 1] /\ ready' = ready
    BY <1>1, <1>6, FrameData DEF ReadFrame
  <2>2. /\ unacked'[s] = [unacked[s] EXCEPT ![x] = @ - 1]
        /\ \A t \in Server \ {s} : unacked'[t] = unacked[t]
        /\ \A y \in Slot : unacked'[s][y] = unacked[s][y] - IF y = x THEN 1 ELSE 0
    BY <1>1, <1>4, <2>1 DEF WiresOK
  <2>3. Cardinality(Settles(wire[s], x)) >= 1
    BY <1>4, <1>6, <2>1
  <2>4. unacked[s][x] >= 1
    BY <1>1, <1>4, <2>1, <2>3 DEF Owes
  <2>5. unacked[s][x] - 1 \in Nat
    BY <1>4, <2>1, <2>4
  <2>6. unacked' \in [Server -> [Slot -> Nat]]
    BY <1>1, <2>1, <2>5 DEF WiresOK
  <2>7. Owes(s)'
    <3>1. SUFFICES ASSUME NEW y \in Slot
                   PROVE  Cardinality(Settles(Tail(wire[s]), y)) + (IF Holds(s, y) THEN 1 ELSE 0)
                            <= unacked'[s][y]
      BY <1>3, <1>4 DEF Owes
    <3>2. Cardinality(Settles(wire[s], y)) + (IF Holds(s, y) THEN 1 ELSE 0) <= unacked[s][y]
      BY <1>1 DEF Owes
    <3>3. QED
      BY <1>4, <1>6, <2>2, <3>2
  <2>8. Owed'
    BY <1>1, <1>2, <1>3, <2>2, <2>7, OnlyOwes
  <2>9. QED
    BY <1>1, <1>3, <2>1, <2>6, <2>8 DEF WiresOK
<1>7. QED
  BY <1>1, <1>5, <1>6, FrameData

LEMMA DeliverWires ==
  ASSUME TypesInv, NEW s \in Server, NEW q \in Queue, NEW m \in Msg, Deliver(s, q, m)
  PROVE  WiresOK'
<1> DEFINE x == <<q, m>>
<1>1. WiresOK /\ ConsumersOK /\ x \in Slot /\ Owes(s) /\ x[1] = q /\ x[2] = m
  BY DEF TypesInv, WiresOK, Owed, Owes, Slot
<1>2. /\ ready' = [ready EXCEPT ![x] = @ - 1] /\ ready[x] > 0
      /\ unacked' = [unacked EXCEPT ![s][x] = @ + 1]
      /\ consumer' = [consumer EXCEPT ![s][q] = [pc |-> "handle", msg |-> m]]
      /\ UNCHANGED <<wire, connected>> /\ consumer[s][q].pc = "wait"
  BY OffWait DEF Deliver
<1> HIDE DEF x
<1>3. ready' \in [Slot -> Nat]
  <2>1. ready[x] - 1 \in Nat
    BY <1>1, <1>2 DEF WiresOK
  <2>2. QED
    BY <1>1, <1>2, <2>1 DEF WiresOK
<1>4. /\ unacked' \in [Server -> [Slot -> Nat]]
      /\ \A t \in Server \ {s} : unacked'[t] = unacked[t]
      /\ \A y \in Slot : unacked'[s][y] = unacked[s][y] + IF y = x THEN 1 ELSE 0
  BY <1>1, <1>2 DEF WiresOK
<1>5. /\ \A t \in Server, y \in Slot : t # s \/ y[1] # q => (Holds(t, y)' <=> Holds(t, y))
      /\ \A y \in Slot : y[1] = q => (Holds(s, y)' => m = y[2])
      /\ \A t \in Server : t # s => consumer'[t] = consumer[t]
  <2>1. consumer \in [Server -> [Queue -> Consumers]] /\ \A y \in Slot : y[1] \in Queue
    BY <1>1, SlotData DEF ConsumersOK
  <2>2. QED
    BY <1>2, <2>1 DEF Holds
<1>6. Owes(s)'
  <2>1. SUFFICES ASSUME NEW y \in Slot
                 PROVE  Cardinality(Settles(wire[s], y)) + (IF Holds(s, y)' THEN 1 ELSE 0)
                          <= unacked'[s][y]
    BY <1>2 DEF Owes
  <2>2. /\ Cardinality(Settles(wire[s], y)) + (IF Holds(s, y) THEN 1 ELSE 0) <= unacked[s][y]
        /\ Cardinality(Settles(wire[s], y)) \in Nat /\ unacked[s][y] \in Nat
    BY <1>1, SettlesFinite DEF Owes, WiresOK
  <2>3. y # x => (Holds(s, y)' => Holds(s, y))
    <3>1. y = <<y[1], y[2]>> /\ x = <<q, m>>
      BY SlotData DEF x
    <3>2. CASE y[1] = q
      BY <1>5, <3>1, <3>2
    <3>3. CASE y[1] # q
      BY <1>5, <3>3
    <3>4. QED
      BY <3>2, <3>3
  <2>4. QED
    BY <1>4, <2>2, <2>3
<1>7. Owed'
  BY <1>1, <1>2, <1>4, <1>5, <1>6, OnlyOwes
<1>8. QED
  BY <1>1, <1>2, <1>3, <1>4, <1>7 DEF WiresOK

\* A server without deliveries, frames or anything in hand owes nothing.
LEMMA OwesNothing ==
  ASSUME NEW s \in Server, wire'[s] = << >>, \A x \in Slot : unacked'[s][x] = 0 /\ ~Holds(s, x)'
  PROVE  Owes(s)'
  BY SettlesNothing DEF Owes

LEMMA RequeuedTypes ==
  ASSUME WiresOK, NEW s \in Server
  PROVE  Requeued(s) \in [Slot -> Nat] /\ Empty \in [Slot -> Nat]
<1>1. \A x \in Slot : ready[x] \in Nat /\ unacked[s][x] \in Nat
  BY DEF WiresOK
<1>2. QED
  BY <1>1 DEF Requeued, Empty

\* The deliveries to s go back, and its connection is gone.
LEMMA GivingBackWires ==
  ASSUME TypesInv, NEW s \in Server, Requeue(s) \/ Disconnect(s)
  PROVE  WiresOK'
<1>1. WiresOK /\ ConsumersOK
  BY DEF TypesInv
<1>2. /\ ready' = Requeued(s) /\ unacked' = [unacked EXCEPT ![s] = Empty]
      /\ wire' = [wire EXCEPT ![s] = << >>] /\ s \notin connected' /\ connected' \subseteq connected
      /\ \A t \in Server \ {s} : consumer'[t] = consumer[t]
  <2>1. CASE Requeue(s)
    <3>1. wire' = wire /\ wire[s] = << >>
      BY <2>1 DEF Requeue
    <3>2. wire' = [wire EXCEPT ![s] = << >>]
      BY <1>1, <3>1 DEF WiresOK
    <3>3. QED
      BY <2>1, <3>2 DEF Requeue
  <2>2. CASE Disconnect(s)
    BY <1>1, <2>2 DEF Disconnect, ConsumersOK
  <2>3. QED
    BY <2>1, <2>2
<1>3. /\ ready' \in [Slot -> Nat] /\ unacked' \in [Server -> [Slot -> Nat]]
      /\ wire' \in [Server -> Seq(Frame)]
      /\ wire'[s] = << >> /\ unacked'[s] = Empty
      /\ \A t \in Server \ {s} : wire'[t] = wire[t] /\ unacked'[t] = unacked[t]
  BY <1>1, <1>2, RequeuedTypes DEF WiresOK
<1>4. Owes(s)'
  BY <1>2, <1>3, OwesNothing DEF Empty, Holds
<1>5. Owed'
  BY <1>1, <1>2, <1>3, <1>4, OnlyOwes
<1>6. QED
  BY <1>3, <1>5 DEF WiresOK

LEMMA NextWires ==
  ASSUME TypesInv, [Next]_vars
  PROVE  WiresOK'
<1>1. WiresOK /\ ConsumersOK /\ RelaysOK
  BY DEF TypesInv
<1>2. ASSUME UNCHANGED <<wire, ready, unacked, connected, consumer>>
      PROVE  WiresOK'
  BY <1>1, <1>2, QuietWires DEF Holds
<1>3. ASSUME NEW s \in Server, NEW q \in Queue, NEW k \in InHand,
             consumer[s][q].pc \in InHand,
             consumer' = [consumer EXCEPT ![s][q] = [pc |-> k, msg |-> consumer[s][q].msg]],
             connected' = connected
      PROVE  /\ \A t \in Server, x \in Slot : Holds(t, x)' <=> Holds(t, x)
             /\ \A t \in Server : t # s => consumer'[t] = consumer[t]
  <2>1. PICK m : m = consumer[s][q].msg
    OBVIOUS
  <2>2. /\ \A t \in Server, x \in Slot : t # s \/ x[1] # q => (Holds(t, x)' <=> Holds(t, x))
        /\ \A x \in Slot : x[1] = q =>
             (Holds(s, x)' <=> s \in connected /\ k \in InHand /\ m = x[2])
        /\ \A t \in Server : t # s => consumer'[t] = consumer[t]
    <3>1. consumer' = [consumer EXCEPT ![s][q] = [pc |-> k, msg |-> m]]
      BY <1>3, <2>1
    <3>2. consumer \in [Server -> [Queue -> Consumers]] /\ \A x \in Slot : x[1] \in Queue
      BY <1>1, SlotData DEF ConsumersOK
    <3>3. QED
      BY <1>3, <3>1, <3>2 DEF Holds
  <2>3. \A x \in Slot : x[1] = q => (Holds(s, x)' <=> Holds(s, x))
    BY <1>3, <2>1, <2>2 DEF Holds
  <2>4. QED
    BY <2>2, <2>3
<1>4. ASSUME NEW s \in Server, Publish(s)
      PROVE  WiresOK'
  <2>1. CASE s \in connected
    <3>1. [ev |-> Head(relay[s].rows), retry |-> 0] \in Msg
      BY <1>1, <1>4, RelayData, PipelineAssumption DEF Publish, Msg
    <3>2. PICK f \in Frame : f.op = "publish" /\ wire' = [wire EXCEPT ![s] = Append(@, f)]
      BY <1>4, <2>1, <3>1, FramesAreFrames DEF Publish
    <3>3. UNCHANGED <<unacked, ready, consumer, connected>>
      BY <1>4 DEF Publish, broker
    <3>4. \A t \in Server, x \in Slot : Holds(t, x)' <=> Holds(t, x)
      BY <3>3 DEF Holds
    <3>5. QED
      BY <1>1, <3>2, <3>3, <3>4, OwesAppend
  <2>2. CASE s \notin connected
    BY <1>2, <1>4, <2>2 DEF Publish, broker
  <2>3. QED
    BY <2>1, <2>2
<1>5. ASSUME NEW s \in Server, NEW q \in Queue, Republish(s, q)
      PROVE  WiresOK'
  <2> DEFINE m == consumer[s][q].msg
  <2>1. /\ m \in Msg /\ m.retry < MaxRetries /\ consumer[s][q].pc = "republish"
        /\ consumer' = [consumer EXCEPT ![s][q] = [pc |-> "ack", msg |-> m]]
        /\ UNCHANGED <<unacked, ready, connected>>
        /\ Send(s, [op |-> "publish", msg |-> Retried(m)])
    BY <1>1, <1>5, ConsumerData DEF Republish, ConsumersOK, InHand, broker
  <2>2. /\ \A t \in Server, x \in Slot : Holds(t, x)' <=> Holds(t, x)
        /\ \A t \in Server : t # s => consumer'[t] = consumer[t]
    BY <1>3, <2>1 DEF InHand
  <2>3. [op |-> "publish", msg |-> Retried(m)] \in Frame
    BY <2>1, FramesAreFrames
  <2> HIDE DEF m
  <2>4. CASE s \in connected
    <3>1. PICK f \in Frame : f.op = "publish" /\ wire' = [wire EXCEPT ![s] = Append(@, f)]
      BY <2>1, <2>3, <2>4 DEF Send
    <3>2. QED
      BY <1>1, <2>1, <2>2, <3>1, OwesAppend
  <2>5. CASE s \notin connected
    BY <1>1, <2>1, <2>2, <2>5, QuietWires DEF Send
  <2>6. QED
    BY <2>4, <2>5
<1>6. ASSUME NEW s \in Server, NEW q \in Queue, Settle(s, q),
             NEW m, m = consumer[s][q].msg, NEW k, k = consumer[s][q].pc
      PROVE  WiresOK'
  <2> DEFINE x == <<q, m>>
             f == [op |-> k, slot |-> x]
  <2>1. /\ x \in Slot /\ f \in Frame /\ consumer[s][q].pc \in {"ack", "nack"}
        /\ UNCHANGED <<unacked, ready, connected>> /\ Send(s, f)
    BY <1>1, <1>6, ConsumerData, FramesAreFrames DEF Settle, InHand, broker
  <2>2. PICK c \in {Off, Wait} : consumer' = [consumer EXCEPT ![s][q] = c]
    BY <1>6 DEF Settle
  <2>3. /\ \A t \in Server, y \in Slot : t # s \/ y[1] # q => (Holds(t, y)' <=> Holds(t, y))
        /\ \A y \in Slot : y[1] = q => ~Holds(s, y)'
        /\ \A t \in Server : t # s => consumer'[t] = consumer[t]
    BY <1>1, <2>1, <2>2, HoldsGoesOn, OffWait DEF InHand
  <2>4. \A t \in Server, y \in Slot : Holds(t, y)' => Holds(t, y)
    BY <2>3
  <2>5. CASE s \in connected
    <3>1. wire' = [wire EXCEPT ![s] = Append(@, f)]
      BY <2>1, <2>5 DEF Send
    <3>2. Holds(s, x) /\ f.slot = x /\ x[1] = q
      BY <1>6, <2>1, <2>5 DEF Holds, InHand
    <3> HIDE DEF f, x
    <3>3. \A y \in Slot :
            IF f.op \in {"ack", "nack"} /\ f.slot = y THEN Holds(s, y) /\ ~Holds(s, y)'
            ELSE Holds(s, y)' => Holds(s, y)
      BY <2>3, <2>4, <3>2
    <3>4. QED
      BY <1>1, <2>1, <2>3, <3>1, <3>3, OwesAppend
  <2>6. CASE s \notin connected
    BY <1>1, <2>1, <2>4, <2>6, QuietWires DEF Send
  <2>7. QED
    BY <2>5, <2>6
<1>7. ASSUME NEW s \in Server, NEW q \in Queue, Handled(s, q), UNCHANGED <<wire, ready, unacked, connected>>
      PROVE  WiresOK'
  <2>1. /\ consumer[s][q].pc = "handle"
        /\ consumer' = [consumer EXCEPT ![s][q] = [pc |-> "ack", msg |-> consumer[s][q].msg]]
    BY <1>1, <1>7, HandledAcks
  <2>2. \A t \in Server, x \in Slot : Holds(t, x)' <=> Holds(t, x)
    BY <1>3, <1>7, <2>1 DEF InHand
  <2>3. QED
    BY <1>1, <1>7, <2>2, QuietWires
<1>8. ASSUME NEW s \in Server, HandleFails(s)
      PROVE  WiresOK'
  <2>1. AfterError(consumer[s]["audit"].msg) \in InHand /\ "audit" \in Queue
    BY DEF AfterError, InHand, Queue
  <2>2. /\ consumer[s]["audit"].pc = "handle" /\ UNCHANGED <<wire, ready, unacked, connected>>
        /\ consumer' = [consumer EXCEPT ![s]["audit"] =
             [pc |-> AfterError(consumer[s]["audit"].msg), msg |-> consumer[s]["audit"].msg]]
    BY <1>8 DEF HandleFails, broker
  <2>3. \A t \in Server, x \in Slot : Holds(t, x)' <=> Holds(t, x)
    BY <1>3, <2>1, <2>2 DEF InHand
  <2>4. QED
    BY <1>1, <2>2, <2>3, QuietWires
<1>9. ASSUME NEW s \in Server, Crash(s) \/ Boot(s)
      PROVE  WiresOK'
  <2>1. PICK c \in {Off, Wait} : consumer' = [consumer EXCEPT ![s] = [q \in Queue |-> c]]
    BY <1>9 DEF Crash, Boot
  <2>2. /\ \A q \in Queue : consumer'[s][q] = c
        /\ \A t \in Server \ {s} : consumer'[t] = consumer[t] /\ (t \in connected' => t \in connected)
    BY <1>1, <1>9, <2>1 DEF Crash, Boot, ConsumersOK
  <2>3. \A x \in Slot : x[1] \in Queue
    BY SlotData
  <2>4. \A t \in Server, x \in Slot : Holds(t, x)' => Holds(t, x)
    BY <2>2, <2>3, OffWait DEF Holds, InHand
  <2>5. QED
    BY <1>1, <1>9, <2>4, QuietWires DEF Crash, Boot, broker
<1>10. CASE BrokerRestart
  <2>1. /\ wire' = [t \in Server |-> << >>] /\ ready' = Empty
        /\ unacked' = [t \in Server |-> Empty] /\ connected' = {}
    BY <1>10 DEF BrokerRestart
  <2>2. \A t \in Server : Owes(t)'
    BY <2>1, OwesNothing DEF Empty, Holds
  <2>3. Owed'
    BY <2>2 DEF Owes, Owed
  <2>4. ready' \in [Slot -> Nat] /\ unacked' \in [Server -> [Slot -> Nat]]
        /\ wire' \in [Server -> Seq(Frame)]
    BY <2>1 DEF Empty
  <2>5. QED
    BY <2>3, <2>4 DEF WiresOK
<1>11. ASSUME NEW s \in Server, FetchPending(s) \/ MarkSent(s) \/ MarkSentFails(s) \/ BootAlone(s)
       PROVE  WiresOK'
  BY <1>2, <1>11 DEF FetchPending, MarkSent, MarkSentFails, BootAlone, broker
<1>12. ASSUME NEW e \in Event, CommitEvent(e)
       PROVE  WiresOK'
  BY <1>2, <1>12 DEF CommitEvent, broker
<1>13. CASE UNCHANGED vars
  BY <1>2, <1>13 DEF vars, broker
<1>14. ASSUME NEW s \in Server, HandleAudit(s) \/ HandleNotification(s)
       PROVE  WiresOK'
  BY <1>7, <1>14 DEF HandleAudit, HandleNotification, Queue, broker
<1>15. QED
  BY <1>4, <1>5, <1>6, <1>8, <1>9, <1>10, <1>11, <1>12, <1>13, <1>14,
     DeliverWires, ReadFrameWires, GivingBackWires
  DEF Next, RelayStep, ConsumerStep

LEMMA NextTypes ==
  ASSUME TypesInv, [Next]_vars
  PROVE  TypesInv'
  BY NextRelays, NextConsumers, NextSinks, NextWires DEF TypesInv

-----------------------------------------------------------------------------
(* Whatever is on its way has been committed *)

\* The event of m is that of a committed transaction.
Told(m) == status[m.ev] # "none"

RowsTold ==
  \A s \in Server : relay[s].pc \in {"publish", "mark"} =>
    \A i \in DOMAIN relay[s].rows : status[relay[s].rows[i]] # "none"

FramesTold ==
  \A s \in Server : \A i \in DOMAIN wire[s] : wire[s][i].op = "publish" => Told(wire[s][i].msg)

QueuesTold ==
  \A x \in Slot : ready[x] > 0 \/ (\E s \in Server : unacked[s][x] > 0) => Told(x[2])

HandsTold ==
  \A s \in Server, q \in Queue : consumer[s][q].pc \in InHand => Told(consumer[s][q].msg)

ToldInv == RowsTold /\ FramesTold /\ QueuesTold /\ HandsTold

LEMMA InitTold == Init => ToldInv
<1>1. SUFFICES ASSUME Init PROVE ToldInv
  OBVIOUS
<1>2. RowsTold /\ HandsTold
  BY <1>1, OffWait DEF Init, RowsTold, HandsTold, InHand
<1>3. FramesTold /\ QueuesTold
  BY <1>1 DEF Init, FramesTold, QueuesTold, Empty
<1>4. QED
  BY <1>2, <1>3 DEF ToldInv

\* What has been committed stays so.
LEMMA StaysCommitted ==
  ASSUME TypesInv, [Next]_vars, NEW e \in Event, status[e] # "none"
  PROVE  status'[e] # "none"
<1>1. status \in [Event -> {"none", "pending", "sent"}]
  BY DEF TypesInv, RelaysOK
<1>2. ASSUME NEW d \in Event, CommitEvent(d)
      PROVE  status'[e] # "none"
  BY <1>1, <1>2 DEF CommitEvent
<1>3. ASSUME NEW s \in Server, MarkSent(s)
      PROVE  status'[e] # "none"
  BY <1>1, <1>3 DEF MarkSent
<1>4. ASSUME NEW s \in Server,
             \/ FetchPending(s) \/ Publish(s) \/ ReadFrame(s) \/ Requeue(s) \/ Boot(s)
             \/ HandleFails(s) \/ MarkSentFails(s) \/ Crash(s) \/ BootAlone(s) \/ Disconnect(s)
      PROVE  status' = status
  BY <1>4 DEF FetchPending, Publish, ReadFrame, Requeue, Boot, HandleFails, MarkSentFails, Crash,
              BootAlone, Disconnect
<1>5. ASSUME NEW s \in Server, NEW q \in Queue, ConsumerStep(s, q) \/ \E m \in Msg : Deliver(s, q, m)
      PROVE  status' = status
  BY <1>5 DEF ConsumerStep, HandleAudit, HandleNotification, Republish, Settle, Deliver
<1>6. CASE BrokerRestart \/ UNCHANGED vars
  BY <1>6 DEF BrokerRestart, vars
<1>7. QED
  BY <1>2, <1>3, <1>4, <1>5, <1>6 DEF Next, RelayStep

\* The steps that move the relay of t.
LEMMA OtherRelays ==
  ASSUME TypesInv, [Next]_vars, NEW t \in Server,
         ~(FetchPending(t) \/ Publish(t) \/ MarkSent(t) \/ MarkSentFails(t) \/ Crash(t) \/ Boot(t))
  PROVE  relay'[t] = relay[t]
<1>0. relay \in [Server -> Relays]
  BY DEF TypesInv, RelaysOK
<1>1. ASSUME NEW s \in Server, s # t,
             \/ FetchPending(s) \/ Publish(s) \/ MarkSent(s) \/ MarkSentFails(s) \/ Crash(s) \/ Boot(s)
      PROVE  relay'[t] = relay[t]
  BY <1>0, <1>1 DEF FetchPending, Publish, MarkSent, MarkSentFails, Crash, Boot
<1>2. ASSUME NEW s \in Server, NEW q \in Queue,
             \/ ReadFrame(s) \/ Requeue(s) \/ HandleFails(s) \/ BootAlone(s) \/ Disconnect(s)
             \/ ConsumerStep(s, q) \/ \E m \in Msg : Deliver(s, q, m)
      PROVE  relay' = relay
  BY <1>2 DEF ReadFrame, Requeue, HandleFails, BootAlone, Disconnect, ConsumerStep, HandleAudit,
              HandleNotification, Republish, Settle, Deliver
<1>3. ASSUME NEW e \in Event, CommitEvent(e)
      PROVE  relay' = relay
  BY <1>3 DEF CommitEvent
<1>4. ASSUME BrokerRestart \/ UNCHANGED vars
      PROVE  relay' = relay
  BY <1>4 DEF BrokerRestart, vars
<1>5. QED
  BY <1>1, <1>2, <1>3, <1>4 DEF Next, RelayStep, Queue

LEMMA NextRowsTold ==
  ASSUME TypesInv, ToldInv, [Next]_vars
  PROVE  RowsTold'
<1>1. RelaysOK /\ RowsTold /\ relay \in [Server -> Relays]
  BY DEF TypesInv, ToldInv, RelaysOK
<1>2. \A e \in Event : status[e] # "none" => status'[e] # "none"
  BY StaysCommitted
<1>3. SUFFICES ASSUME NEW t \in Server, relay'[t].pc \in {"publish", "mark"},
                      NEW i \in DOMAIN relay'[t].rows
               PROVE  status'[relay'[t].rows[i]] # "none"
  BY DEF RowsTold
<1>4. ASSUME relay'[t] = relay[t]
      PROVE  status'[relay'[t].rows[i]] # "none"
  <2>1. relay[t].rows \in Seq(Event)
    BY <1>1, <1>3, <1>4, RelayData
  <2>2. relay[t].rows[i] \in Event /\ status[relay[t].rows[i]] # "none"
    BY <1>1, <1>3, <1>4, <2>1 DEF RowsTold
  <2>3. QED
    BY <1>2, <1>4, <2>2
<1>5. ASSUME relay[t].pc \in {"publish", "mark"}, relay'[t] = NextRow(t)
      PROVE  status'[relay'[t].rows[i]] # "none"
  <2>1. relay[t].rows \in Seq(Event) /\ relay[t].rows # << >>
        /\ relay'[t].rows = Tail(relay[t].rows)
    BY <1>1, <1>3, <1>5, RelayData
  <2>2. i + 1 \in DOMAIN relay[t].rows /\ relay'[t].rows[i] = relay[t].rows[i + 1]
        /\ relay[t].rows[i + 1] \in Event
    BY <1>3, <2>1
  <2>3. QED
    BY <1>1, <1>2, <1>5, <2>2 DEF RowsTold
<1>6. CASE FetchPending(t)
  <2> DEFINE rows == Ordered(Oldest(Pending, BatchSize))
  <2>1. relay'[t] = [pc |-> "publish", rows |-> rows]
    BY <1>1, <1>6 DEF FetchPending
  <2>2. \A j \in DOMAIN rows : rows[j] \in Pending
    BY <1>6, Batch DEF FetchPending
  <2> HIDE DEF rows
  <2>3. relay'[t].rows[i] \in Pending
    BY <1>3, <2>1, <2>2
  <2>4. QED
    BY <1>2, <2>3 DEF Pending
<1>7. CASE Publish(t)
  <2>1. CASE t \in connected
    <3>1. relay'[t] = [pc |-> "mark", rows |-> relay[t].rows] /\ relay[t].pc = "publish"
          /\ status' = status
      BY <1>1, <1>7, <2>1 DEF Publish
    <3>2. QED
      BY <1>1, <1>3, <3>1 DEF RowsTold
  <2>2. CASE t \notin connected
    BY <1>1, <1>5, <1>7, <2>2 DEF Publish
  <2>3. QED
    BY <2>1, <2>2
<1>8. CASE MarkSent(t) \/ MarkSentFails(t)
  BY <1>1, <1>5, <1>8 DEF MarkSent, MarkSentFails
<1>9. CASE Crash(t) \/ Boot(t)
  BY <1>1, <1>3, <1>9, OffWait DEF Crash, Boot
<1>10. CASE ~(FetchPending(t) \/ Publish(t) \/ MarkSent(t) \/ MarkSentFails(t) \/ Crash(t) \/ Boot(t))
  BY <1>4, <1>10, OtherRelays
<1>11. QED
  BY <1>6, <1>7, <1>8, <1>9, <1>10

\* What may happen to the frames of t.
LEMMA WireStep ==
  ASSUME TypesInv, [Next]_vars, NEW t \in Server
  PROVE  \/ wire'[t] = wire[t]
         \/ t \in connected /\ (Publish(t) \/ \E q \in Queue : Republish(t, q) \/ Settle(t, q))
         \/ ReadFrame(t)
         \/ wire'[t] = << >> /\ OnTheWire(t) \subseteq lost' /\ t \notin connected'
<1> DEFINE Goal == \/ wire'[t] = wire[t]
                   \/ t \in connected /\ (Publish(t) \/ \E q \in Queue : Republish(t, q) \/ Settle(t, q))
                   \/ ReadFrame(t)
                   \/ wire'[t] = << >> /\ OnTheWire(t) \subseteq lost' /\ t \notin connected'
<1>1. wire \in [Server -> Seq(Frame)]
  BY DEF TypesInv, WiresOK
<1>2. ASSUME NEW s \in Server, NEW q \in Queue,
             \/ FetchPending(s) \/ MarkSent(s) \/ Requeue(s) \/ Boot(s) \/ HandleFails(s)
             \/ MarkSentFails(s) \/ Crash(s) \/ BootAlone(s) \/ HandleAudit(s) \/ HandleNotification(s)
             \/ \E m \in Msg : Deliver(s, q, m)
      PROVE  wire' = wire
  BY <1>2 DEF FetchPending, MarkSent, Requeue, Boot, HandleFails, MarkSentFails, Crash, BootAlone,
              HandleAudit, HandleNotification, Deliver
<1>3. ASSUME NEW s \in Server, NEW q \in Queue, Publish(s) \/ Republish(s, q) \/ Settle(s, q)
      PROVE  Goal
  <2>1. CASE s = t /\ t \in connected
    BY <1>3, <2>1
  <2>2. CASE s = t /\ t \notin connected
    BY <1>3, <2>2 DEF Publish, Republish, Settle, Send
  <2>3. CASE s # t
    BY <1>1, <1>3, <2>3 DEF Publish, Republish, Settle, Send
  <2>4. QED
    BY <2>1, <2>2, <2>3
<1>4. ASSUME NEW s \in Server, ReadFrame(s)
      PROVE  Goal
  BY <1>1, <1>4 DEF ReadFrame
<1>5. ASSUME NEW s \in Server, Disconnect(s)
      PROVE  Goal
  BY <1>1, <1>5 DEF Disconnect
<1>6. ASSUME BrokerRestart
      PROVE  Goal
  <2>1. OnTheWire(t) \subseteq UNION {OnTheWire(s) : s \in Server}
    OBVIOUS
  <2>2. UNION {OnTheWire(s) : s \in Server} \subseteq lost'
    <3> DEFINE U == UNION {OnTheWire(s) : s \in Server}
               D == {e \in Event : dead[e] > 0}
    <3>1. lost' = lost \cup Queued \cup U \cup D
      BY <1>6 DEF BrokerRestart
    <3> HIDE DEF U, D
    <3>2. U \subseteq lost'
      BY <3>1
    <3>3. QED
      BY <3>2 DEF U
  <2>3. wire'[t] = << >> /\ t \notin connected'
    BY <1>6 DEF BrokerRestart
  <2>4. QED
    BY <2>1, <2>2, <2>3
<1>7. ASSUME NEW e \in Event, CommitEvent(e)
      PROVE  wire' = wire
  BY <1>7 DEF CommitEvent
<1>8. ASSUME UNCHANGED vars
      PROVE  wire' = wire
  BY <1>8 DEF vars
<1> HIDE DEF Goal
<1>9. ASSUME wire' = wire
      PROVE  Goal
  BY <1>9 DEF Goal
<1>10. "audit" \in Queue
  BY DEF Queue
<1>11. Goal
  <2>1. ASSUME NEW s \in Server,
               \/ RelayStep(s) \/ ReadFrame(s) \/ Requeue(s) \/ Boot(s)
               \/ HandleFails(s) \/ MarkSentFails(s) \/ Crash(s) \/ BootAlone(s)
               \/ Disconnect(s)
        PROVE  Goal
    BY <1>2, <1>3, <1>4, <1>5, <1>9, <1>10, <2>1 DEF RelayStep
  <2>2. ASSUME NEW s \in Server, NEW q \in Queue, ConsumerStep(s, q) \/ \E m \in Msg : Deliver(s, q, m)
        PROVE  Goal
    BY <1>2, <1>3, <1>9, <2>2 DEF ConsumerStep
  <2>3. QED
    BY <1>6, <1>7, <1>8, <1>9, <2>1, <2>2 DEF Next
<1>12. QED
  BY <1>11 DEF Goal

\* A sequence of frames with one more.
LEMMA Appended ==
  ASSUME NEW w \in Seq(Frame), NEW f
  PROVE  /\ DOMAIN Append(w, f) = (DOMAIN w) \cup {Len(w) + 1}
         /\ \A i \in DOMAIN w : Append(w, f)[i] = w[i]
         /\ Append(w, f)[Len(w) + 1] = f
         /\ Len(w) \in Nat /\ DOMAIN w = 1..Len(w)
  OBVIOUS

\* A sequence of frames without the first one.
LEMMA Shortened ==
  ASSUME NEW w \in Seq(Frame), w # << >>
  PROVE  /\ \A i \in DOMAIN Tail(w) : i + 1 \in DOMAIN w /\ Tail(w)[i] = w[i + 1]
         /\ \A i \in DOMAIN w : i # 1 => i - 1 \in DOMAIN Tail(w) /\ Tail(w)[i - 1] = w[i]
         /\ 1 \in DOMAIN w /\ w[1] = Head(w) /\ Head(w) \in Frame
  OBVIOUS

\* What t sends.
LEMMA Publishes ==
  ASSUME TypesInv, NEW t \in Server, t \in connected, Publish(t)
  PROVE  /\ wire'[t] = Append(wire[t],
              [op |-> "publish", msg |-> [ev |-> Head(relay[t].rows), retry |-> 0]])
         /\ Head(relay[t].rows) \in Event /\ Head(relay[t].rows) = relay[t].rows[1]
         /\ 1 \in DOMAIN relay[t].rows
<1>1. relay[t].rows \in Seq(Event) /\ relay[t].rows # << >> /\ wire \in [Server -> Seq(Frame)]
  BY RelayData DEF TypesInv, Publish, WiresOK
<1>2. QED
  BY <1>1 DEF Publish

LEMMA Republishes ==
  ASSUME TypesInv, NEW t \in Server, NEW q \in Queue, t \in connected, Republish(t, q)
  PROVE  /\ wire'[t] = Append(wire[t], [op |-> "publish", msg |-> Retried(consumer[t][q].msg)])
         /\ consumer[t][q].pc = "republish" /\ consumer[t][q].msg \in Msg
         /\ consumer[t][q].msg.retry < MaxRetries
         /\ Retried(consumer[t][q].msg) \in Msg
<1>1. wire \in [Server -> Seq(Frame)] /\ ConsumersOK
  BY DEF TypesInv, WiresOK
<1>2. consumer[t][q].pc = "republish" /\ consumer[t][q].msg \in Msg
  BY <1>1, ConsumerData DEF Republish, InHand
<1>3. consumer[t][q].msg.retry < MaxRetries
  BY <1>1, <1>2 DEF ConsumersOK
<1>4. QED
  BY <1>1, <1>2, <1>3, FramesAreFrames DEF Republish, Send

LEMMA SettlesOne ==
  ASSUME TypesInv, NEW t \in Server, NEW q \in Queue, t \in connected, Settle(t, q)
  PROVE  /\ wire'[t] = Append(wire[t],
              [op |-> consumer[t][q].pc, slot |-> <<q, consumer[t][q].msg>>])
         /\ consumer[t][q].pc \in {"ack", "nack"} /\ consumer[t][q].msg \in Msg
<1>1. wire \in [Server -> Seq(Frame)] /\ ConsumersOK
  BY DEF TypesInv, WiresOK
<1>2. QED
  BY <1>1, ConsumerData DEF Settle, Send, InHand

LEMMA NextFramesTold ==
  ASSUME TypesInv, ToldInv, [Next]_vars
  PROVE  FramesTold'
<1>1. /\ \A s \in Server : wire[s] \in Seq(Frame)
      /\ FramesTold /\ RowsTold /\ HandsTold
  BY DEF TypesInv, ToldInv, WiresOK
<1>2. \A m \in Msg : Told(m) => Told(m)'
  BY StaysCommitted DEF Told, Msg
<1>3. SUFFICES ASSUME NEW t \in Server, NEW i \in DOMAIN wire'[t], wire'[t][i].op = "publish"
               PROVE  status'[wire'[t][i].msg.ev] # "none"
  BY DEF FramesTold, Told
<1>4. ASSUME NEW j \in DOMAIN wire[t], wire'[t][i] = wire[t][j]
      PROVE  status'[wire'[t][i].msg.ev] # "none"
  <2>1. wire[t][j] \in Frame /\ wire[t][j].op = "publish"
    BY <1>1, <1>3, <1>4
  <2>2. wire[t][j].msg \in Msg /\ Told(wire[t][j].msg)
    BY <1>1, <2>1, FrameData DEF FramesTold
  <2>3. PICK m \in Msg : m = wire[t][j].msg
    BY <2>2
  <2>4. Told(m)'
    BY <1>2, <2>2, <2>3
  <2>5. wire'[t][i].msg = m
    BY <1>4, <2>3
  <2>6. QED
    BY <2>4, <2>5 DEF Told
<1>5. ASSUME NEW f, wire'[t] = Append(wire[t], f), f.op = "publish" => f.msg \in Msg /\ Told(f.msg)
      PROVE  status'[wire'[t][i].msg.ev] # "none"
  <2>1. CASE i \in DOMAIN wire[t]
    BY <1>1, <1>4, <1>5, <2>1, Appended
  <2>2. CASE i \notin DOMAIN wire[t]
    <3>1. wire'[t][i] = f
      BY <1>1, <1>3, <1>5, <2>2, Appended
    <3>2. f.msg \in Msg /\ Told(f.msg)
      BY <1>3, <1>5, <3>1
    <3>3. status'[f.msg.ev] # "none"
      BY <1>2, <3>2 DEF Told
    <3>4. QED
      BY <3>1, <3>3
  <2>3. QED
    BY <2>1, <2>2
<1>6. CASE t \in connected /\ Publish(t)
  <2>1. PICK f : f = [op |-> "publish", msg |-> [ev |-> Head(relay[t].rows), retry |-> 0]]
    OBVIOUS
  <2>2. wire'[t] = Append(wire[t], f) /\ f.msg.ev = relay[t].rows[1] /\ f.msg \in Msg
    BY <1>6, <2>1, Publishes, PipelineAssumption DEF Msg
  <2>3. status[relay[t].rows[1]] # "none"
    BY <1>1, <1>6, Publishes DEF RowsTold, Publish
  <2>4. QED
    BY <1>5, <2>2, <2>3 DEF Told
<1>7. ASSUME NEW q \in Queue, t \in connected, Republish(t, q)
      PROVE  status'[wire'[t][i].msg.ev] # "none"
  <2>1. PICK f : f = [op |-> "publish", msg |-> Retried(consumer[t][q].msg)]
    OBVIOUS
  <2>2. wire'[t] = Append(wire[t], f) /\ f.msg = Retried(consumer[t][q].msg)
        /\ consumer[t][q].msg \in Msg /\ f.msg \in Msg /\ consumer[t][q].pc = "republish"
    BY <1>7, <2>1, Republishes
  <2>3. f.msg.ev = consumer[t][q].msg.ev
    BY <2>2, Retries
  <2>4. Told(consumer[t][q].msg)
    BY <1>1, <2>2 DEF HandsTold, InHand
  <2>5. QED
    BY <1>5, <2>2, <2>3, <2>4 DEF Told
<1>8. ASSUME NEW q \in Queue, t \in connected, Settle(t, q)
      PROVE  status'[wire'[t][i].msg.ev] # "none"
  <2>1. PICK f : f = [op |-> consumer[t][q].pc, slot |-> <<q, consumer[t][q].msg>>]
    OBVIOUS
  <2>2. wire'[t] = Append(wire[t], f) /\ f.op # "publish"
    BY <1>8, <2>1, SettlesOne
  <2>3. QED
    BY <1>5, <2>2
<1>9. CASE ReadFrame(t)
  <2>1. wire[t] # << >> /\ wire'[t] = Tail(wire[t])
    BY <1>9 DEF ReadFrame, TypesInv, WiresOK
  <2>2. QED
    BY <1>1, <1>3, <1>4, <2>1, Shortened
<1>10. CASE wire'[t] = wire[t]
  BY <1>3, <1>4, <1>10
<1>11. CASE wire'[t] = << >>
  BY <1>3, <1>11
<1>12. QED
  BY <1>6, <1>7, <1>8, <1>9, <1>10, <1>11, WireStep

\* A queue has a copy of a message, delivered or not.
InQueue(x) == ready[x] > 0 \/ \E s \in Server : unacked[s][x] > 0

\* The last copy disappears, and the first one appears, in these ways only.
LEMMA QueueStep ==
  ASSUME TypesInv, [Next]_vars, NEW x \in Slot
  PROVE  /\ InQueue(x) =>
              \/ InQueue(x)'
              \/ \E s \in Server : ReadFrame(s) /\ Head(wire[s]).op # "publish" /\ Head(wire[s]).slot = x
              \/ BrokerRestart
         /\ InQueue(x)' =>
              \/ InQueue(x)
              \/ \E s \in Server : ReadFrame(s) /\ Head(wire[s]).op = "publish" /\ Head(wire[s]).msg = x[2]
<1> DEFINE Gone == \E s \in Server :
                     ReadFrame(s) /\ Head(wire[s]).op # "publish" /\ Head(wire[s]).slot = x
           Come == \E s \in Server :
                     ReadFrame(s) /\ Head(wire[s]).op = "publish" /\ Head(wire[s]).msg = x[2]
           Goal == /\ InQueue(x) => InQueue(x)' \/ Gone \/ BrokerRestart
                   /\ InQueue(x)' => InQueue(x) \/ Come
<1>1. /\ ready \in [Slot -> Nat] /\ unacked \in [Server -> [Slot -> Nat]]
      /\ ready[x] \in Nat /\ \A t \in Server : unacked[t][x] \in Nat
  BY DEF TypesInv, WiresOK
<1>2. ASSUME UNCHANGED <<ready, unacked>>
      PROVE  Goal
  BY <1>2 DEF InQueue
<1>3. ASSUME NEW s \in Server, ReadFrame(s)
      PROVE  Goal
  <2> DEFINE f == Head(wire[s])
  <2>1. f \in Frame /\ wire[s] # << >>
    BY <1>3, FrameRead DEF ReadFrame, TypesInv
  <2>2. CASE f.op = "publish"
    <3>1. /\ ready'[x] = ready[x] + IF x[2] = f.msg /\ Bound(x[1], f.msg.ev) THEN 1 ELSE 0
          /\ unacked' = unacked
      BY <1>3, <2>2 DEF ReadFrame
    <3>2. CASE x[2] = f.msg
      <4>1. Come
        BY <1>3, <2>2, <3>2
      <4>2. ready'[x] >= ready[x]
        BY <1>1, <3>1
      <4>3. InQueue(x) => InQueue(x)'
        BY <1>1, <3>1, <4>2 DEF InQueue
      <4>4. QED
        BY <4>1, <4>3
    <3>3. CASE x[2] # f.msg
      BY <1>1, <3>1, <3>3 DEF InQueue
    <3>4. QED
      BY <3>2, <3>3
  <2>3. CASE f.op # "publish"
    <3>1. f.slot \in Slot /\ ready' = ready /\ unacked' = [unacked EXCEPT ![s][f.slot] = @ - 1]
      BY <1>3, <2>1, <2>3, FrameData DEF ReadFrame
    <3>2. CASE f.slot = x
      <4>1. Gone
        BY <1>3, <2>3, <3>2
      <4>2. InQueue(x)' => InQueue(x)
        BY <1>1, <3>1, <3>2 DEF InQueue
      <4>3. QED
        BY <4>1, <4>2
    <3>3. CASE f.slot # x
      BY <1>1, <3>1, <3>3 DEF InQueue
    <3>4. QED
      BY <3>2, <3>3
  <2>4. QED
    BY <2>2, <2>3
<1>4. ASSUME NEW s \in Server, NEW q \in Queue, NEW m \in Msg, Deliver(s, q, m)
      PROVE  Goal
  <2>1. <<q, m>> \in Slot /\ ready[<<q, m>>] > 0
        /\ ready' = [ready EXCEPT ![<<q, m>>] = @ - 1]
        /\ unacked' = [unacked EXCEPT ![s][<<q, m>>] = @ + 1]
    BY <1>4 DEF Deliver, Slot
  <2>2. CASE x = <<q, m>>
    <3>1. InQueue(x)
      BY <2>1, <2>2 DEF InQueue
    <3>2. unacked'[s][x] = unacked[s][x] + 1
      BY <1>1, <2>1, <2>2
    <3>3. unacked'[s][x] > 0
      BY <1>1, <3>2
    <3>4. InQueue(x)'
      BY <3>3 DEF InQueue
    <3>5. QED
      BY <3>1, <3>4
  <2>3. CASE x # <<q, m>>
    <3>1. ready'[x] = ready[x] /\ \A t \in Server : unacked'[t][x] = unacked[t][x]
      BY <1>1, <2>1, <2>3
    <3>2. QED
      BY <3>1 DEF InQueue
  <2>4. QED
    BY <2>2, <2>3
<1>5. ASSUME NEW s \in Server, Requeue(s) \/ Disconnect(s)
      PROVE  Goal
  <2>1. ready'[x] = ready[x] + unacked[s][x] /\ unacked' = [unacked EXCEPT ![s] = Empty]
    BY <1>5 DEF Requeue, Disconnect, Requeued
  <2>2. unacked'[s][x] = 0 /\ \A t \in Server : t # s => unacked'[t] = unacked[t]
    BY <1>1, <2>1 DEF Empty
  <2>3. QED
    BY <1>1, <2>1, <2>2 DEF InQueue
<1>6. ASSUME BrokerRestart
      PROVE  Goal
  <2>1. ready' = Empty /\ unacked' = [s \in Server |-> Empty]
    BY <1>6 DEF BrokerRestart
  <2>2. ~InQueue(x)'
    BY <2>1 DEF InQueue, Empty
  <2>3. QED
    BY <1>6, <2>2
<1>7. ASSUME NEW s \in Server, NEW q \in Queue,
             \/ RelayStep(s) \/ Boot(s) \/ HandleFails(s) \/ MarkSentFails(s) \/ Crash(s) \/ BootAlone(s)
             \/ ConsumerStep(s, q)
      PROVE  UNCHANGED <<ready, unacked>>
  BY <1>7 DEF RelayStep, FetchPending, Publish, MarkSent, Boot, HandleFails, MarkSentFails, Crash,
              BootAlone, ConsumerStep, HandleAudit, HandleNotification, Republish, Settle, broker
<1>8. ASSUME NEW e \in Event, CommitEvent(e)
      PROVE  UNCHANGED <<ready, unacked>>
  BY <1>8 DEF CommitEvent, broker
<1>9. ASSUME UNCHANGED vars
      PROVE  UNCHANGED <<ready, unacked>>
  BY <1>9 DEF vars, broker
<1>10. "audit" \in Queue
  BY DEF Queue
<1> HIDE DEF Goal
<1>11. Goal
  BY <1>2, <1>3, <1>4, <1>5, <1>6, <1>7, <1>8, <1>9, <1>10 DEF Next
<1>12. QED
  BY <1>11 DEF Goal

LEMMA NextQueuesTold ==
  ASSUME TypesInv, ToldInv, [Next]_vars
  PROVE  QueuesTold'
<1>1. /\ \A x \in Slot : InQueue(x) => Told(x[2])
      /\ \A x \in Slot : x[2] \in Msg
  BY SlotData DEF ToldInv, QueuesTold, InQueue
<1>2. \A m \in Msg : Told(m) => Told(m)'
  BY StaysCommitted DEF Told, Msg
<1>3. ASSUME NEW x \in Slot, InQueue(x)'
      PROVE  Told(x[2])'
  <2>1. CASE InQueue(x)
    BY <1>1, <1>2, <2>1
  <2>2. ASSUME NEW s \in Server, ReadFrame(s), Head(wire[s]).op = "publish", Head(wire[s]).msg = x[2]
        PROVE  Told(x[2])
    <3>1. wire[s] \in Seq(Frame) /\ wire[s] # << >>
      BY <2>2 DEF TypesInv, WiresOK, ReadFrame
    <3>2. 1 \in DOMAIN wire[s] /\ wire[s][1] = Head(wire[s])
      BY <3>1, Shortened
    <3>3. QED
      BY <2>2, <3>2 DEF ToldInv, FramesTold
  <2>3. QED
    BY <1>1, <1>2, <1>3, <2>1, <2>2, QueueStep
<1>4. QED
  BY <1>3 DEF QueuesTold, InQueue

\* What may come into the hands of the consumer of q in t.
LEMMA HandStep ==
  ASSUME TypesInv, [Next]_vars, NEW t \in Server, NEW q \in Queue, consumer'[t][q].pc \in InHand
  PROVE  \/ consumer[t][q].pc \in InHand /\ consumer'[t][q].msg = consumer[t][q].msg
         \/ \E m \in Msg : ready[<<q, m>>] > 0 /\ consumer'[t][q].msg = m
<1> DEFINE Goal == \/ consumer[t][q].pc \in InHand /\ consumer'[t][q].msg = consumer[t][q].msg
                   \/ \E m \in Msg : ready[<<q, m>>] > 0 /\ consumer'[t][q].msg = m
<1>1. consumer \in [Server -> [Queue -> Consumers]] /\ ConsumersOK
  BY DEF TypesInv, ConsumersOK
<1>2. ASSUME consumer'[t][q] = consumer[t][q]
      PROVE  Goal
  BY <1>2
<1>3. ASSUME NEW s \in Server, NEW p \in Queue, NEW k, NEW m, consumer[s][p].pc \in InHand,
             m = consumer[s][p].msg, consumer' = [consumer EXCEPT ![s][p] = [pc |-> k, msg |-> m]]
      PROVE  Goal
  <2>1. CASE s = t /\ p = q
    BY <1>1, <1>3, <2>1
  <2>2. CASE ~(s = t /\ p = q)
    BY <1>1, <1>3, <2>2
  <2>3. QED
    BY <2>1, <2>2
<1>4. ASSUME NEW s \in Server, NEW p \in Queue, NEW m \in Msg, Deliver(s, p, m)
      PROVE  Goal
  <2>1. CASE s = t /\ p = q
    <3>1. consumer'[t][q] = [pc |-> "handle", msg |-> m] /\ ready[<<q, m>>] > 0
      BY <1>1, <1>4, <2>1 DEF Deliver
    <3>2. QED
      BY <3>1
  <2>2. CASE ~(s = t /\ p = q)
    BY <1>1, <1>2, <1>4, <2>2 DEF Deliver
  <2>3. QED
    BY <2>1, <2>2
<1> HIDE DEF Goal
<1>5. ASSUME NEW s \in Server, NEW p \in Queue, ConsumerStep(s, p)
      PROVE  Goal
  <2>1. CASE Handled(s, p) \/ Republish(s, p)
    <3>1. PICK m : m = consumer[s][p].msg
      OBVIOUS
    <3>2. consumer[s][p].pc \in InHand
          /\ consumer' = [consumer EXCEPT ![s][p] = [pc |-> "ack", msg |-> consumer[s][p].msg]]
      BY <1>1, <2>1, HandledAcks DEF Republish, InHand
    <3>3. CASE s = t /\ p = q
      <4>1. consumer'[t][q] = [pc |-> "ack", msg |-> m]
        BY <1>1, <3>1, <3>2, <3>3
      <4>2. consumer'[t][q].msg = consumer[t][q].msg
        BY <3>1, <3>3, <4>1
      <4>3. QED
        BY <3>2, <3>3, <4>2 DEF Goal
    <3>4. CASE ~(s = t /\ p = q)
      <4>1. consumer'[t][q] = consumer[t][q]
        BY <1>1, <3>2, <3>4
      <4>2. QED
        BY <1>2, <4>1
    <3>5. QED
      BY <3>3, <3>4
  <2>2. CASE Settle(s, p)
    <3>1. PICK c \in {Off, Wait} : consumer' = [consumer EXCEPT ![s][p] = c]
      BY <2>2 DEF Settle
    <3>2. CASE s = t /\ p = q
      BY <1>1, <3>1, <3>2, OffWait DEF InHand
    <3>3. CASE ~(s = t /\ p = q)
      BY <1>1, <1>2, <3>1, <3>3
    <3>4. QED
      BY <3>2, <3>3
  <2>3. QED
    BY <1>5, <2>1, <2>2 DEF ConsumerStep, HandleAudit, HandleNotification
<1>6. ASSUME NEW s \in Server, HandleFails(s)
      PROVE  Goal
  <2>1. PICK m, k : m = consumer[s]["audit"].msg /\ k = AfterError(m)
    OBVIOUS
  <2>2. consumer[s]["audit"].pc \in InHand /\ "audit" \in Queue
        /\ consumer' = [consumer EXCEPT ![s]["audit"] = [pc |-> k, msg |-> m]]
    BY <1>6, <2>1 DEF HandleFails, InHand, Queue
  <2>3. QED
    BY <1>3, <2>1, <2>2
<1>7. ASSUME NEW s \in Server, Crash(s) \/ Boot(s)
      PROVE  Goal
  <2>1. PICK c \in {Off, Wait} : consumer' = [consumer EXCEPT ![s] = [p \in Queue |-> c]]
    BY <1>7 DEF Crash, Boot
  <2>2. CASE s = t
    BY <1>1, <2>1, <2>2, OffWait DEF InHand
  <2>3. CASE s # t
    BY <1>1, <1>2, <2>1, <2>3
  <2>4. QED
    BY <2>2, <2>3
<1>8. ASSUME consumer'[t] = Closed(t)
      PROVE  Goal
  BY <1>1, <1>2, <1>8, ConsumersClose, OffWait DEF InHand
<1>9. ASSUME NEW s \in Server, Disconnect(s)
      PROVE  Goal
  <2>1. consumer' = [consumer EXCEPT ![s] = Closed(s)]
    BY <1>9 DEF Disconnect
  <2>2. CASE s = t
    BY <1>1, <1>8, <2>1, <2>2
  <2>3. CASE s # t
    BY <1>1, <1>2, <2>1, <2>3
  <2>4. QED
    BY <2>2, <2>3
<1>10. ASSUME BrokerRestart
       PROVE  Goal
  BY <1>8, <1>10 DEF BrokerRestart
<1>11. ASSUME NEW s \in Server,
              RelayStep(s) \/ ReadFrame(s) \/ Requeue(s) \/ MarkSentFails(s) \/ BootAlone(s)
       PROVE  consumer' = consumer
  BY <1>11
  DEF RelayStep, FetchPending, Publish, MarkSent, ReadFrame, Requeue, MarkSentFails, BootAlone
<1>12. ASSUME NEW e \in Event, CommitEvent(e)
       PROVE  consumer' = consumer
  BY <1>12 DEF CommitEvent
<1>13. ASSUME UNCHANGED vars
       PROVE  consumer' = consumer
  BY <1>13 DEF vars
<1>14. Goal
  BY <1>2, <1>4, <1>5, <1>6, <1>7, <1>9, <1>10, <1>11, <1>12, <1>13 DEF Next
<1>15. QED
  BY <1>14 DEF Goal

LEMMA NextTold ==
  ASSUME TypesInv, ToldInv, [Next]_vars
  PROVE  ToldInv'
<1>1. \A e \in Event : status[e] # "none" => status'[e] # "none"
  BY StaysCommitted
<1>2. ASSUME NEW t \in Server, NEW q \in Queue, consumer'[t][q].pc \in InHand
      PROVE  status'[consumer'[t][q].msg.ev] # "none"
  <2>1. CASE consumer[t][q].pc \in InHand /\ consumer'[t][q].msg = consumer[t][q].msg
    <3>1. consumer[t][q].msg \in Msg /\ Told(consumer[t][q].msg)
      BY <2>1, ConsumerData DEF TypesInv, ToldInv, HandsTold
    <3>2. QED
      BY <1>1, <2>1, <3>1 DEF Told, Msg
  <2>2. ASSUME NEW m \in Msg, ready[<<q, m>>] > 0, consumer'[t][q].msg = m
        PROVE  status'[consumer'[t][q].msg.ev] # "none"
    <3>1. Told(m)
      <4>1. <<q, m>> \in Slot /\ <<q, m>>[2] = m
        BY DEF Slot
      <4>2. QED
        BY <2>2, <4>1 DEF ToldInv, QueuesTold
    <3>2. QED
      BY <1>1, <2>2, <3>1 DEF Told, Msg
  <2>3. QED
    BY <1>2, <2>1, <2>2, HandStep
<1>3. HandsTold'
  BY <1>2 DEF HandsTold, Told
<1>4. QED
  BY <1>3, NextRowsTold, NextFramesTold, NextQueuesTold DEF ToldInv

-----------------------------------------------------------------------------
(* The pipeline implements AuditTrail *)

LEMMA InitTrail == Init => Trail!Init
  BY DEF Init, Trail!Init

\* Only commits and the audit consumer are seen from outside.
LEMMA NextTrail ==
  ASSUME TypesInv, ToldInv, [Next]_vars
  PROVE  [Trail!Next]_<<{e \in Event : status[e] # "none"}, audited>>
<1> DEFINE C == {e \in Event : status[e] # "none"}
           Goal == [Trail!Next]_<<C, audited>>
<1>1. status \in [Event -> {"none", "pending", "sent"}] /\ RelaysOK /\ ConsumersOK
  BY DEF TypesInv, RelaysOK
<1>2. ASSUME UNCHANGED <<status, audited>>
      PROVE  Goal
  BY <1>2
<1>3. ASSUME NEW e \in Event, CommitEvent(e)
      PROVE  Goal
  <2>1. status' = [status EXCEPT ![e] = "pending"] /\ status[e] = "none" /\ audited' = audited
    BY <1>3 DEF CommitEvent, sinks
  <2>2. e \notin C /\ C' = C \cup {e}
    BY <1>1, <2>1
  <2>3. Trail!Happen(e)
    BY <2>1, <2>2 DEF Trail!Happen
  <2>4. QED
    BY <2>3 DEF Trail!Next
<1>4. ASSUME NEW s \in Server, MarkSent(s)
      PROVE  Goal
  <2>1. PICK e : e = Head(relay[s].rows)
    OBVIOUS
  <2>2. e \in Event /\ relay[s].rows \in Seq(Event) /\ relay[s].rows # << >>
        /\ status' = [status EXCEPT ![e] = "sent"] /\ audited' = audited
    BY <1>1, <1>4, <2>1, RelayData DEF MarkSent, sinks
  <2>3. status[e] # "none"
    <3>1. 1 \in DOMAIN relay[s].rows /\ relay[s].rows[1] = e
      BY <2>1, <2>2
    <3>2. QED
      BY <1>4, <3>1 DEF MarkSent, ToldInv, RowsTold
  <2>4. C' = C
    BY <1>1, <2>2, <2>3
  <2>5. QED
    BY <2>2, <2>4
<1>5. ASSUME NEW s \in Server, HandleAudit(s)
      PROVE  Goal
  <2>1. "audit" \in Queue
    BY DEF Queue
  <2>2. PICK e : e = consumer[s]["audit"].msg.ev
    OBVIOUS
  <2>3. e \in Event /\ consumer[s]["audit"].pc = "handle"
        /\ audited' = [audited EXCEPT ![e] = @ + 1] /\ status' = status
    BY <1>1, <1>5, <2>1, <2>2, HandledAcks DEF HandleAudit, Msg
  <2>4. e \in C /\ C' = C
    BY <2>1, <2>2, <2>3 DEF ToldInv, HandsTold, Told, InHand
  <2>5. Trail!Record(e)
    BY <2>3, <2>4 DEF Trail!Record
  <2>6. QED
    BY <2>3, <2>5 DEF Trail!Next
<1> HIDE DEF Goal
<1>6. ASSUME NEW s \in Server,
             \/ FetchPending(s) \/ Publish(s) \/ ReadFrame(s) \/ Requeue(s) \/ Boot(s)
             \/ HandleFails(s) \/ MarkSentFails(s) \/ Crash(s) \/ BootAlone(s) \/ Disconnect(s)
      PROVE  UNCHANGED <<status, audited>>
  BY <1>6 DEF FetchPending, Publish, ReadFrame, Requeue, Boot, HandleFails, MarkSentFails, Crash,
              BootAlone, Disconnect, sinks
<1>7. ASSUME NEW s \in Server, NEW q \in Queue,
             \/ HandleNotification(s) \/ Republish(s, q) \/ Settle(s, q)
             \/ \E m \in Msg : Deliver(s, q, m)
      PROVE  UNCHANGED <<status, audited>>
  BY <1>7 DEF HandleNotification, Republish, Settle, Deliver, sinks
<1>8. ASSUME BrokerRestart \/ UNCHANGED vars
      PROVE  UNCHANGED <<status, audited>>
  BY <1>8 DEF BrokerRestart, vars, sinks
<1>9. Goal
  BY <1>2, <1>3, <1>4, <1>5, <1>6, <1>7, <1>8 DEF Next, RelayStep, ConsumerStep
<1>10. QED
  BY <1>9 DEF Goal

\* Whatever is relayed, queued or handled tells of a committed transaction:
\* a relay reads, and a consumer is sent, nothing else (Relay.relayBatch,
\* rabbitmq.Consume).
THEOREM NothingInvented == Spec => [](TypesInv /\ ToldInv)
<1>1. Init => TypesInv /\ ToldInv
  BY InitTypes, InitTold
<1>2. TypesInv /\ ToldInv /\ [Next]_vars => (TypesInv /\ ToldInv)'
  BY NextTypes, NextTold
<1>3. QED
  BY <1>1, <1>2, PTL DEF Spec

\* audit_logs only grows, a row at a time, and only by events whose business
\* transaction has committed, for any number of replicas and whatever fails
\* (audit.Consumer.Handle, Relay.relayBatch).
THEOREM PipelineImplementsTrail == Spec => ImplementsAuditTrail
<1>1. TypesInv /\ ToldInv /\ [Next]_vars => [Trail!Next]_<<{e \in Event : status[e] # "none"}, audited>>
  BY NextTrail
<1>2. QED
  BY <1>1, InitTrail, NothingInvented, PTL DEF Spec, ImplementsAuditTrail, Trail!Spec

-----------------------------------------------------------------------------
(* No event goes astray *)

Audit(m) == <<"audit", m>>

\* e has been settled or lost, or audit.queue has a copy of it with at least
\* r retries.
Evidence(e, r) ==
  \/ audited[e] > 0 \/ dead[e] > 0 \/ e \in lost
  \/ \E m \in Msg : m.ev = e /\ m.retry >= r /\ InQueue(Audit(m))

\* A frame before the n-th of w publishes m.
Copied(w, m, n) == \E j \in DOMAIN w : j < n /\ w[j].op = "publish" /\ w[j].msg = m

\* A copy is acked only when its event is recorded, or retried by a copy that
\* goes before the ack.
AcksGrounded ==
  \A s \in Server, m \in Msg : \A i \in DOMAIN wire[s] :
    wire[s][i].op = "ack" /\ wire[s][i].slot = Audit(m) =>
      Evidence(m.ev, m.retry + 1) \/ Copied(wire[s], Retried(m), i)

HandsGrounded ==
  \A s \in connected, m \in Msg :
    consumer[s]["audit"].pc = "ack" /\ consumer[s]["audit"].msg = m =>
      Evidence(m.ev, m.retry + 1) \/ Copied(wire[s], Retried(m), Len(wire[s]) + 1)

Kept(e) == Evidence(e, 0) \/ \E s \in Server : e \in OnTheWire(s)

MarksKept == \A s \in Server : relay[s].pc = "mark" => Kept(Head(relay[s].rows))
SentKept  == \A e \in Event : status[e] = "sent" => Kept(e)

KeptInv == AcksGrounded /\ HandsGrounded /\ MarksKept /\ SentKept

LEMMA InitKept == Init => KeptInv
<1>1. SUFFICES ASSUME Init PROVE KeptInv
  OBVIOUS
<1>2. "audit" \in Queue
  BY DEF Queue
<1>3. AcksGrounded
  BY <1>1 DEF Init, AcksGrounded
<1>4. HandsGrounded
  BY <1>1, <1>2, OffWait DEF Init, HandsGrounded
<1>5. MarksKept /\ SentKept
  BY <1>1, OffWait DEF Init, MarksKept, SentKept
<1>6. QED
  BY <1>3, <1>4, <1>5 DEF KeptInv

LEMMA Slots ==
  ASSUME NEW m \in Msg
  PROVE  Audit(m) \in Slot /\ Audit(m)[1] = "audit" /\ Audit(m)[2] = m
         /\ m.ev \in Event /\ m.retry \in Nat /\ m.retry \in 0..MaxRetries
         /\ \A n \in Msg : Audit(n) = Audit(m) => n = m
  BY PipelineAssumption DEF Audit, Slot, Queue, Msg

\* What is settled or lost stays so; only a restarted broker forgets the dead.
LEMMA SinkStep ==
  ASSUME TypesInv, [Next]_vars, NEW e \in Event
  PROVE  /\ audited[e] > 0 => audited'[e] > 0
         /\ dead[e] > 0 => dead'[e] > 0 \/ e \in lost'
         /\ e \in lost => e \in lost'
<1> DEFINE Goal == /\ audited[e] > 0 => audited'[e] > 0
                   /\ dead[e] > 0 => dead'[e] > 0 \/ e \in lost'
                   /\ e \in lost => e \in lost'
<1>1. dead \in [Event -> Nat] /\ audited \in [Event -> Nat]
      /\ ConsumersOK /\ WiresOK /\ "audit" \in Queue
  BY DEF TypesInv, SinksOK, Queue
<1>2. ASSUME UNCHANGED <<dead, audited, lost>>
      PROVE  Goal
  BY <1>2
<1>3. ASSUME NEW s \in Server, HandleAudit(s)
      PROVE  Goal
  <2>1. PICK d : d = consumer[s]["audit"].msg.ev
    OBVIOUS
  <2>2. audited' = [audited EXCEPT ![d] = @ + 1] /\ dead' = dead /\ lost' = lost
    BY <1>3, <2>1 DEF HandleAudit, broker
  <2>3. QED
    BY <1>1, <2>2
<1>4. ASSUME NEW s \in Server, ReadFrame(s)
      PROVE  Goal
  <2>1. audited' = audited /\ lost' = lost
    BY <1>4 DEF ReadFrame, sinks
  <2>2. dead' = dead \/ \E d : dead' = [dead EXCEPT ![d] = @ + 1]
    BY <1>4 DEF ReadFrame
  <2>3. QED
    BY <1>1, <2>1, <2>2
<1>5. ASSUME NEW s \in Server, Disconnect(s)
      PROVE  Goal
  BY <1>5 DEF Disconnect, sinks
<1>6. ASSUME BrokerRestart
      PROVE  Goal
  <2> DEFINE U == UNION {OnTheWire(s) : s \in Server}
             D == {d \in Event : dead[d] > 0}
  <2>1. lost' = lost \cup Queued \cup U \cup D /\ audited' = audited
    BY <1>6 DEF BrokerRestart, sinks
  <2>2. dead[e] > 0 => e \in D
    OBVIOUS
  <2> HIDE DEF U, D
  <2>3. QED
    BY <2>1, <2>2
<1>7. ASSUME NEW s \in Server,
             \/ RelayStep(s) \/ Requeue(s) \/ Boot(s) \/ HandleFails(s) \/ MarkSentFails(s)
             \/ Crash(s) \/ BootAlone(s)
      PROVE  UNCHANGED <<dead, audited, lost>>
  BY <1>7 DEF RelayStep, FetchPending, Publish, MarkSent, Requeue, Boot, HandleFails, MarkSentFails,
              Crash, BootAlone, broker, sinks
<1>8. ASSUME NEW s \in Server, NEW q \in Queue,
             \/ HandleNotification(s) \/ Republish(s, q) \/ Settle(s, q)
             \/ \E m \in Msg : Deliver(s, q, m)
      PROVE  UNCHANGED <<dead, audited, lost>>
  BY <1>8 DEF HandleNotification, Republish, Settle, Deliver, broker, sinks
<1>9. ASSUME NEW d \in Event, CommitEvent(d)
      PROVE  UNCHANGED <<dead, audited, lost>>
  BY <1>9 DEF CommitEvent, broker, sinks
<1>10. ASSUME UNCHANGED vars
       PROVE  UNCHANGED <<dead, audited, lost>>
  BY <1>10 DEF vars, broker, sinks
<1> HIDE DEF Goal
<1>11. Goal
  BY <1>2, <1>3, <1>4, <1>5, <1>6, <1>7, <1>8, <1>9, <1>10 DEF Next, ConsumerStep
<1>12. QED
  BY <1>11 DEF Goal

\* When the last copy with so many retries goes, something else tells of it.
LEMMA LastCopy ==
  ASSUME TypesInv, AcksGrounded, [Next]_vars, NEW m \in Msg, InQueue(Audit(m)), ~InQueue(Audit(m))'
  PROVE  Evidence(m.ev, m.retry + 1)'
<1>1. /\ Audit(m) \in Slot /\ m.ev \in Event /\ m.retry \in Nat
      /\ WiresOK /\ SinksOK /\ unacked \in [Server -> [Slot -> Nat]]
  BY Slots DEF TypesInv, WiresOK
<1>2. CASE BrokerRestart
  <2> DEFINE U == UNION {OnTheWire(s) : s \in Server}
             D == {d \in Event : dead[d] > 0}
  <2>1. lost' = lost \cup Queued \cup U \cup D
    BY <1>2 DEF BrokerRestart
  <2>2. m.ev \in Queued
    <3>1. m = [ev |-> m.ev, retry |-> m.retry] /\ m.retry \in 0..MaxRetries
      BY DEF Msg
    <3>2. QED
      BY <1>1, <3>1 DEF Queued, InQueue, Audit
  <2> HIDE DEF U, D
  <2>3. QED
    BY <2>1, <2>2 DEF Evidence
<1>3. ASSUME NEW s \in Server, ReadFrame(s), Head(wire[s]).op # "publish", Head(wire[s]).slot = Audit(m)
      PROVE  Evidence(m.ev, m.retry + 1)'
  <2>1. wire[s] \in Seq(Frame) /\ wire[s] # << >> /\ Head(wire[s]) \in Frame
    BY <1>1, <1>3, FrameRead DEF ReadFrame
  <2>2. CASE Head(wire[s]).op = "nack"
    <3>1. dead' = [dead EXCEPT ![m.ev] = @ + 1]
      BY <1>3, <2>2, Slots DEF ReadFrame
    <3>2. dead'[m.ev] > 0
      BY <1>1, <3>1 DEF SinksOK
    <3>3. QED
      BY <3>2 DEF Evidence
  <2>3. CASE Head(wire[s]).op = "ack"
    <3>1. 1 \in DOMAIN wire[s] /\ wire[s][1] = Head(wire[s]) /\ DOMAIN wire[s] = 1..Len(wire[s])
      BY <2>1
    <3>2. ~Copied(wire[s], Retried(m), 1)
      BY <3>1 DEF Copied
    <3>3. Evidence(m.ev, m.retry + 1)
      BY <1>3, <2>3, <3>1, <3>2 DEF AcksGrounded
    <3>4. /\ UNCHANGED <<ready, dead, audited, lost>>
          /\ unacked' = [unacked EXCEPT ![s][Audit(m)] = @ - 1]
      BY <1>3, <2>3 DEF ReadFrame, sinks
    <3>5. ASSUME NEW n \in Msg, n.retry >= m.retry + 1, InQueue(Audit(n))
          PROVE  InQueue(Audit(n))'
      <4>1. Audit(n) # Audit(m) /\ Audit(n) \in Slot
        <5>1. n # m
          BY <1>1, <3>5
        <5>2. QED
          BY <5>1, Slots
      <4>2. \A t \in Server : unacked'[t][Audit(n)] = unacked[t][Audit(n)]
        BY <1>1, <3>4, <4>1
      <4>3. QED
        BY <3>4, <3>5, <4>2 DEF InQueue
    <3>6. QED
      BY <3>3, <3>4, <3>5 DEF Evidence
  <2>4. QED
    BY <1>3, <2>1, <2>2, <2>3, FrameData
<1>4. QED
  BY <1>1, <1>2, <1>3, QueueStep

\* Evidence is never lost.
LEMMA EvidenceStep ==
  ASSUME TypesInv, AcksGrounded, [Next]_vars, NEW e \in Event, NEW r \in Nat, Evidence(e, r)
  PROVE  Evidence(e, r)'
<1>1. CASE audited[e] > 0 \/ dead[e] > 0 \/ e \in lost
  BY <1>1, SinkStep DEF Evidence
<1>2. ASSUME NEW m \in Msg, m.ev = e, m.retry >= r, InQueue(Audit(m))
      PROVE  Evidence(e, r)'
  <2>1. CASE InQueue(Audit(m))'
    BY <1>2, <2>1 DEF Evidence
  <2>2. CASE ~InQueue(Audit(m))'
    <3>1. Evidence(e, m.retry + 1)'
      BY <1>2, <2>2, LastCopy
    <3>2. m.retry \in Nat /\ \A n \in Msg : n.retry \in Nat /\ (n.retry >= m.retry + 1 => n.retry >= r)
      BY <1>2, Slots
    <3>3. QED
      BY <3>1, <3>2 DEF Evidence
  <2>3. QED
    BY <2>1, <2>2
<1>3. QED
  BY <1>1, <1>2 DEF Evidence

\* A message that the broker reads is in audit.queue.
LEMMA ReadPublish ==
  ASSUME TypesInv, NEW s \in Server, ReadFrame(s), NEW m \in Msg,
         Head(wire[s]).op = "publish", Head(wire[s]).msg = m
  PROVE  InQueue(Audit(m))'
<1>1. Audit(m) \in Slot /\ ready[Audit(m)] \in Nat
  BY Slots DEF TypesInv, WiresOK
<1>2. ready'[Audit(m)] = ready[Audit(m)] + 1
  BY <1>1, Slots DEF ReadFrame, Bound
<1>3. QED
  BY <1>1, <1>2 DEF InQueue

\* A frame more.
LEMMA SendsOne ==
  ASSUME TypesInv, NEW t \in Server, t \in connected,
         Publish(t) \/ \E q \in Queue : Republish(t, q) \/ Settle(t, q)
  PROVE  \E f : wire'[t] = Append(wire[t], f)
<1>1. CASE Publish(t)
  BY <1>1, Publishes
<1>2. ASSUME NEW q \in Queue, Republish(t, q)
      PROVE  \E f : wire'[t] = Append(wire[t], f)
  BY <1>2, Republishes
<1>3. ASSUME NEW q \in Queue, Settle(t, q)
      PROVE  \E f : wire'[t] = Append(wire[t], f)
  BY <1>3, SettlesOne
<1>4. QED
  BY <1>1, <1>2, <1>3

LEMMA CopiedAppended ==
  ASSUME NEW w \in Seq(Frame), NEW f, NEW m, NEW n, Copied(w, m, n)
  PROVE  Copied(Append(w, f), m, n) /\ Copied(Append(w, f), m, Len(Append(w, f)) + 1)
<1>1. PICK j \in DOMAIN w : j < n /\ w[j].op = "publish" /\ w[j].msg = m
  BY DEF Copied
<1>2. /\ j \in DOMAIN Append(w, f) /\ Append(w, f)[j] = w[j]
      /\ j < Len(Append(w, f)) + 1
  OBVIOUS
<1>3. QED
  BY <1>1, <1>2 DEF Copied

LEMMA CopiedLast ==
  ASSUME NEW w \in Seq(Frame), NEW f, f.op = "publish"
  PROVE  Copied(Append(w, f), f.msg, Len(Append(w, f)) + 1)
<1>1. /\ Len(w) + 1 \in DOMAIN Append(w, f) /\ Append(w, f)[Len(w) + 1] = f
      /\ Len(w) + 1 < Len(Append(w, f)) + 1
  OBVIOUS
<1>2. QED
  BY <1>1 DEF Copied

\* The broker reads the copy, or has it still before it.
LEMMA CopiedRead ==
  ASSUME TypesInv, NEW t \in Server, ReadFrame(t), NEW m, NEW n \in Nat, Copied(wire[t], m, n)
  PROVE  m \in Msg /\ (InQueue(Audit(m))' \/ Copied(wire'[t], m, n - 1))
<1>1. wire[t] \in Seq(Frame) /\ wire[t] # << >> /\ wire'[t] = Tail(wire[t])
  BY DEF TypesInv, WiresOK, ReadFrame
<1>2. PICK j \in DOMAIN wire[t] : j < n /\ wire[t][j].op = "publish" /\ wire[t][j].msg = m
  BY DEF Copied
<1>3. m \in Msg
  BY <1>1, <1>2, FrameData
<1>4. CASE j = 1
  BY <1>1, <1>2, <1>3, <1>4, Shortened, ReadPublish
<1>5. CASE j # 1
  <2>1. j - 1 \in DOMAIN Tail(wire[t]) /\ Tail(wire[t])[j - 1] = wire[t][j]
    BY <1>1, <1>5, Shortened
  <2>2. j - 1 < n - 1
    BY <1>1, <1>2
  <2>3. Copied(wire'[t], m, n - 1)
    BY <1>1, <1>2, <2>1, <2>2 DEF Copied
  <2>4. QED
    BY <1>3, <2>3
<1>6. QED
  BY <1>4, <1>5

\* A retry in the queue is evidence for what was retried.
LEMMA RetryIsEvidence ==
  ASSUME NEW m \in Msg, Retried(m) \in Msg
  PROVE  InQueue(Audit(Retried(m)))' => Evidence(m.ev, m.retry + 1)'
<1>1. Retried(m).ev = m.ev /\ Retried(m).retry >= m.retry + 1
  BY Retries, Slots
<1>2. QED
  BY <1>1 DEF Evidence

LEMMA NextAcks ==
  ASSUME TypesInv, KeptInv, [Next]_vars
  PROVE  AcksGrounded'
<1>1. /\ AcksGrounded /\ HandsGrounded
      /\ \A s \in Server : wire[s] \in Seq(Frame)
  BY DEF KeptInv, TypesInv, WiresOK
<1>2. SUFFICES ASSUME NEW t \in Server, NEW m \in Msg, NEW i \in DOMAIN wire'[t],
                      wire'[t][i].op = "ack", wire'[t][i].slot = Audit(m)
               PROVE  Evidence(m.ev, m.retry + 1)' \/ Copied(wire'[t], Retried(m), i)
  BY DEF AcksGrounded
<1> DEFINE Goal == Evidence(m.ev, m.retry + 1)' \/ Copied(wire'[t], Retried(m), i)
<1>3. Evidence(m.ev, m.retry + 1) => Evidence(m.ev, m.retry + 1)'
  BY <1>1, Slots, EvidenceStep
<1>4. ASSUME NEW j \in DOMAIN wire[t], wire'[t][i] = wire[t][j]
      PROVE  Evidence(m.ev, m.retry + 1)' \/ Copied(wire[t], Retried(m), j)
  BY <1>1, <1>2, <1>3, <1>4 DEF AcksGrounded
<1>5. CASE wire'[t] = wire[t]
  BY <1>2, <1>4, <1>5
<1>6. CASE wire'[t] = << >>
  BY <1>2, <1>6
<1>7. CASE ReadFrame(t)
  <2>1. wire[t] # << >> /\ wire'[t] = Tail(wire[t])
    BY <1>1, <1>7 DEF ReadFrame, TypesInv, WiresOK
  <2>2. i + 1 \in DOMAIN wire[t] /\ wire'[t][i] = wire[t][i + 1]
    BY <1>1, <1>2, <2>1, Shortened
  <2>3. i \in Nat /\ i + 1 \in Nat /\ (i + 1) - 1 = i
    BY <1>1, <1>2, <2>1
  <2>4. CASE Copied(wire[t], Retried(m), i + 1)
    <3>1. /\ Retried(m) \in Msg
          /\ InQueue(Audit(Retried(m)))' \/ Copied(wire'[t], Retried(m), i)
      BY <1>7, <2>3, <2>4, CopiedRead
    <3>2. InQueue(Audit(Retried(m)))' => Evidence(m.ev, m.retry + 1)'
      BY <3>1, RetryIsEvidence
    <3>3. QED
      BY <3>1, <3>2
  <2>5. QED
    BY <1>4, <2>2, <2>4
<1>8. ASSUME t \in connected, Publish(t) \/ \E q \in Queue : Republish(t, q) \/ Settle(t, q)
      PROVE  Goal
  <2>1. PICK f : wire'[t] = Append(wire[t], f)
    BY <1>8, SendsOne
  <2>2. CASE i \in DOMAIN wire[t]
    <3>1. wire'[t][i] = wire[t][i]
      BY <1>1, <2>1, <2>2, Appended
    <3>2. QED
      BY <1>1, <1>4, <2>1, <2>2, <3>1, CopiedAppended
  <2>3. CASE i \notin DOMAIN wire[t]
    <3>1. i = Len(wire[t]) + 1 /\ wire'[t][i] = f
      BY <1>1, <1>2, <2>1, <2>3, Appended
    <3>2. ~Publish(t) /\ \A q \in Queue : ~Republish(t, q)
      <4>1. ASSUME NEW g, g.op = "publish", wire'[t] = Append(wire[t], g)
            PROVE  FALSE
        <5>1. wire'[t][i] = g
          BY <1>1, <3>1, <4>1, Appended
        <5>2. QED
          BY <1>2, <4>1, <5>1
      <4>2. ~Publish(t)
        <5>1. SUFFICES ASSUME Publish(t) PROVE FALSE
          OBVIOUS
        <5>2. PICK g : g = [op |-> "publish", msg |-> [ev |-> Head(relay[t].rows), retry |-> 0]]
          OBVIOUS
        <5>3. QED
          BY <1>8, <4>1, <5>1, <5>2, Publishes
      <4>3. ASSUME NEW q \in Queue, Republish(t, q)
            PROVE  FALSE
        <5>1. PICK g : g = [op |-> "publish", msg |-> Retried(consumer[t][q].msg)]
          OBVIOUS
        <5>2. QED
          BY <1>8, <4>1, <4>3, <5>1, Republishes
      <4>4. QED
        BY <4>2, <4>3
    <3>3. PICK q \in Queue : Settle(t, q)
      BY <1>8, <3>2
    <3>4. PICK g : g = [op |-> consumer[t][q].pc, slot |-> <<q, consumer[t][q].msg>>]
      OBVIOUS
    <3>5. wire'[t] = Append(wire[t], g)
      BY <1>8, <3>3, <3>4, SettlesOne
    <3>6. wire'[t][i] = g
      BY <1>1, <3>1, <3>5, Appended
    <3>7. consumer[t]["audit"].pc = "ack" /\ consumer[t]["audit"].msg = m
      BY <1>2, <3>4, <3>6 DEF Audit
    <3>8. Evidence(m.ev, m.retry + 1) \/ Copied(wire[t], Retried(m), Len(wire[t]) + 1)
      BY <1>1, <1>8, <3>7 DEF HandsGrounded
    <3>9. QED
      BY <1>1, <1>3, <2>1, <3>1, <3>8, CopiedAppended
  <2>4. QED
    BY <2>2, <2>3
<1>9. QED
  BY <1>5, <1>6, <1>7, <1>8, WireStep

\* How the consumer of audit.queue in t comes to ack m.
LEMMA AckStep ==
  ASSUME TypesInv, [Next]_vars, NEW t \in connected', NEW m, t \in Server,
         consumer'[t]["audit"].pc = "ack", consumer'[t]["audit"].msg = m
  PROVE  \/ t \in connected /\ consumer[t]["audit"].pc = "ack" /\ consumer[t]["audit"].msg = m
         \/ HandleAudit(t) /\ consumer[t]["audit"].msg = m
         \/ t \in connected /\ Republish(t, "audit") /\ consumer[t]["audit"].msg = m
<1> DEFINE Goal ==
      \/ t \in connected /\ consumer[t]["audit"].pc = "ack" /\ consumer[t]["audit"].msg = m
      \/ HandleAudit(t) /\ consumer[t]["audit"].msg = m
      \/ t \in connected /\ Republish(t, "audit") /\ consumer[t]["audit"].msg = m
<1>1. consumer \in [Server -> [Queue -> Consumers]] /\ ConsumersOK /\ "audit" \in Queue
  BY DEF TypesInv, ConsumersOK, Queue
<1>2. ASSUME consumer'[t]["audit"] = consumer[t]["audit"], t \in connected
      PROVE  Goal
  BY <1>2
<1>3. ASSUME NEW s \in Server, NEW q \in Queue, NEW c,
             consumer' = [consumer EXCEPT ![s][q] = c], connected' = connected, ~(s = t /\ q = "audit")
      PROVE  Goal
  BY <1>1, <1>2, <1>3
<1>4. ASSUME NEW s \in Server, NEW q \in Queue, ConsumerStep(s, q)
      PROVE  Goal
  <2>1. connected' = connected
    BY <1>4 DEF ConsumerStep, HandleAudit, HandleNotification, Republish, Settle
  <2>2. CASE s = t /\ q = "audit"
    <3>1. CASE HandleAudit(t)
      <4>1. consumer' = [consumer EXCEPT ![t]["audit"] =
                           [pc |-> "ack", msg |-> consumer[t]["audit"].msg]]
        BY <1>1, <3>1, HandledAcks DEF HandleAudit
      <4>2. consumer'[t]["audit"] = [pc |-> "ack", msg |-> consumer[t]["audit"].msg]
        BY <1>1, <4>1
      <4>3. QED
        BY <3>1, <4>2
    <3>2. CASE Republish(t, "audit")
      <4>1. consumer'[t]["audit"] = [pc |-> "ack", msg |-> consumer[t]["audit"].msg]
        BY <1>1, <3>2 DEF Republish
      <4>2. QED
        BY <2>1, <3>2, <4>1
    <3>3. CASE Settle(t, "audit")
      BY <1>1, <3>3, OffWait DEF Settle
    <3>4. QED
      BY <1>4, <2>2, <3>1, <3>2, <3>3 DEF ConsumerStep
  <2>3. CASE ~(s = t /\ q = "audit")
    <3>1. \E c : consumer' = [consumer EXCEPT ![s][q] = c]
      <4>1. CASE Handled(s, q)
        <5>1. PICK c : c = [pc |-> "ack", msg |-> consumer[s][q].msg]
          OBVIOUS
        <5>2. consumer' = [consumer EXCEPT ![s][q] = c]
          BY <1>1, <4>1, <5>1, HandledAcks
        <5>3. QED
          BY <5>2
      <4>2. CASE Republish(s, q) \/ Settle(s, q)
        BY <4>2 DEF Republish, Settle
      <4>3. QED
        BY <1>4, <4>1, <4>2 DEF ConsumerStep, HandleAudit, HandleNotification
    <3>2. QED
      BY <1>3, <2>1, <2>3, <3>1
  <2>4. QED
    BY <2>2, <2>3
<1>5. ASSUME NEW s \in Server, NEW q \in Queue, NEW n \in Msg, Deliver(s, q, n)
      PROVE  Goal
  <2>1. connected' = connected /\ consumer' = [consumer EXCEPT ![s][q] = [pc |-> "handle", msg |-> n]]
    BY <1>5 DEF Deliver
  <2>2. ~(s = t /\ q = "audit")
    BY <1>1, <2>1
  <2>3. QED
    BY <1>3, <2>1, <2>2
<1>6. ASSUME NEW s \in Server, HandleFails(s)
      PROVE  Goal
  <2>1. PICK c : c = [pc |-> AfterError(consumer[s]["audit"].msg), msg |-> consumer[s]["audit"].msg]
    OBVIOUS
  <2>2. connected' = connected /\ consumer' = [consumer EXCEPT ![s]["audit"] = c]
    BY <1>6, <2>1 DEF HandleFails
  <2>3. c.pc # "ack"
    BY <2>1 DEF AfterError
  <2>4. s # t
    BY <1>1, <2>2, <2>3
  <2>5. QED
    BY <1>1, <1>3, <2>2, <2>4
<1>7. ASSUME NEW s \in Server, Crash(s) \/ Boot(s)
      PROVE  Goal
  <2>1. PICK c \in {Off, Wait} : consumer' = [consumer EXCEPT ![s] = [p \in Queue |-> c]]
    BY <1>7 DEF Crash, Boot
  <2>2. s # t
    BY <1>1, <2>1, OffWait
  <2>3. consumer'[t] = consumer[t] /\ t \in connected
    BY <1>1, <1>7, <2>1, <2>2 DEF Crash, Boot
  <2>4. QED
    BY <1>2, <2>3
<1>8. ASSUME NEW s \in Server, Disconnect(s)
      PROVE  Goal
  <2>1. s # t /\ t \in connected /\ consumer' = [consumer EXCEPT ![s] = Closed(s)]
    BY <1>8 DEF Disconnect
  <2>2. QED
    BY <1>1, <1>2, <2>1
<1>9. ASSUME BrokerRestart
      PROVE  Goal
  BY <1>9 DEF BrokerRestart
<1> HIDE DEF Goal
<1>10. ASSUME NEW s \in Server,
              RelayStep(s) \/ ReadFrame(s) \/ Requeue(s) \/ MarkSentFails(s) \/ BootAlone(s)
       PROVE  UNCHANGED <<consumer, connected>>
  BY <1>10
  DEF RelayStep, FetchPending, Publish, MarkSent, ReadFrame, Requeue, MarkSentFails, BootAlone
<1>11. ASSUME NEW e \in Event, CommitEvent(e)
       PROVE  UNCHANGED <<consumer, connected>>
  BY <1>11 DEF CommitEvent
<1>12. ASSUME UNCHANGED vars
       PROVE  UNCHANGED <<consumer, connected>>
  BY <1>12 DEF vars
<1>13. Goal
  BY <1>2, <1>4, <1>5, <1>6, <1>7, <1>8, <1>9, <1>10, <1>11, <1>12 DEF Next
<1>14. QED
  BY <1>13 DEF Goal

LEMMA NextHands ==
  ASSUME TypesInv, KeptInv, [Next]_vars
  PROVE  HandsGrounded'
<1>1. /\ AcksGrounded /\ HandsGrounded /\ ConsumersOK /\ connected' \subseteq Server
      /\ \A s \in Server : wire[s] \in Seq(Frame)
  BY NextRelays DEF KeptInv, TypesInv, WiresOK, RelaysOK
<1>2. SUFFICES ASSUME NEW t \in connected', NEW m \in Msg,
                      consumer'[t]["audit"].pc = "ack", consumer'[t]["audit"].msg = m
               PROVE  Evidence(m.ev, m.retry + 1)'
                      \/ Copied(wire'[t], Retried(m), Len(wire'[t]) + 1)
  BY DEF HandsGrounded
<1> DEFINE Goal == Evidence(m.ev, m.retry + 1)'
                   \/ Copied(wire'[t], Retried(m), Len(wire'[t]) + 1)
<1>3. t \in Server /\ m.ev \in Event /\ "audit" \in Queue
  BY <1>1, Slots DEF Queue
<1>4. CASE t \in connected /\ consumer[t]["audit"].pc = "ack" /\ consumer[t]["audit"].msg = m
  <2>1. CASE Evidence(m.ev, m.retry + 1)
    BY <1>1, <2>1, Slots, EvidenceStep
  <2>2. CASE Copied(wire[t], Retried(m), Len(wire[t]) + 1)
    <3>1. CASE wire'[t] = wire[t]
      BY <2>2, <3>1
    <3>2. CASE ReadFrame(t)
      <4>1. wire[t] # << >> /\ wire'[t] = Tail(wire[t])
        BY <1>1, <1>3, <3>2 DEF ReadFrame, TypesInv, WiresOK
      <4>2. Len(wire[t]) + 1 \in Nat /\ (Len(wire[t]) + 1) - 1 = Len(wire'[t]) + 1
        BY <1>1, <1>3, <4>1
      <4>3. /\ Retried(m) \in Msg
            /\ InQueue(Audit(Retried(m)))' \/ Copied(wire'[t], Retried(m), Len(wire'[t]) + 1)
        BY <1>3, <2>2, <3>2, <4>2, CopiedRead
      <4>4. QED
        BY <4>3, RetryIsEvidence
    <3>3. ASSUME t \in connected, Publish(t) \/ \E q \in Queue : Republish(t, q) \/ Settle(t, q)
          PROVE  Goal
      BY <1>1, <1>3, <2>2, <3>3, SendsOne, CopiedAppended
    <3>4. QED
      BY <1>2, <1>3, <3>1, <3>2, <3>3, WireStep
  <2>3. QED
    BY <1>1, <1>4, <2>1, <2>2 DEF HandsGrounded
<1>5. CASE HandleAudit(t) /\ consumer[t]["audit"].msg = m
  <2>1. audited \in [Event -> Nat] /\ audited' = [audited EXCEPT ![m.ev] = @ + 1]
    BY <1>5 DEF HandleAudit, TypesInv, SinksOK
  <2>2. audited'[m.ev] > 0
    BY <1>3, <2>1
  <2>3. QED
    BY <2>2 DEF Evidence
<1>6. CASE t \in connected /\ Republish(t, "audit") /\ consumer[t]["audit"].msg = m
  <2>1. PICK f : f = [op |-> "publish", msg |-> Retried(m)]
    OBVIOUS
  <2>2. wire'[t] = Append(wire[t], f) /\ f.op = "publish" /\ f.msg = Retried(m)
    BY <1>3, <1>6, <2>1, Republishes
  <2>3. Copied(Append(wire[t], f), f.msg, Len(Append(wire[t], f)) + 1)
    BY <1>1, <1>3, <2>2, CopiedLast
  <2>4. QED
    BY <2>2, <2>3
<1>7. QED
  BY <1>2, <1>3, <1>4, <1>5, <1>6, AckStep

\* What is kept stays so.
LEMMA KeptStep ==
  ASSUME TypesInv, AcksGrounded, [Next]_vars, NEW e \in Event, Kept(e)
  PROVE  Kept(e)'
<1>1. \A s \in Server : wire[s] \in Seq(Frame)
  BY DEF TypesInv, WiresOK
<1>2. CASE Evidence(e, 0)
  BY <1>2, EvidenceStep DEF Kept
<1>3. ASSUME NEW t \in Server, e \in OnTheWire(t)
      PROVE  Kept(e)'
  <2>1. PICK m : m = [ev |-> e, retry |-> 0]
    OBVIOUS
  <2>2. m \in Msg /\ m.ev = e /\ m.retry >= 0
    BY <2>1, PipelineAssumption DEF Msg
  <2>3. PICK i \in DOMAIN wire[t] : wire[t][i].op = "publish" /\ wire[t][i].msg = m
    BY <1>3, <2>1 DEF OnTheWire
  <2>4. ASSUME NEW j \in DOMAIN wire'[t], wire'[t][j] = wire[t][i]
        PROVE  Kept(e)'
    BY <2>1, <2>3, <2>4 DEF Kept, OnTheWire
  <2>5. CASE wire'[t] = wire[t]
    BY <2>4, <2>5
  <2>6. ASSUME t \in connected, Publish(t) \/ \E q \in Queue : Republish(t, q) \/ Settle(t, q)
        PROVE  Kept(e)'
    <3>1. PICK f : wire'[t] = Append(wire[t], f)
      BY <2>6, SendsOne
    <3>2. i \in DOMAIN wire'[t] /\ wire'[t][i] = wire[t][i]
      BY <1>1, <3>1, Appended
    <3>3. QED
      BY <2>4, <3>2
  <2>7. CASE ReadFrame(t)
    <3>1. wire[t] # << >> /\ wire'[t] = Tail(wire[t])
      BY <1>1, <2>7 DEF ReadFrame, TypesInv, WiresOK
    <3>2. CASE i = 1
      <4>1. InQueue(Audit(m))'
        BY <1>1, <2>2, <2>3, <2>7, <3>1, <3>2, Shortened, ReadPublish
      <4>2. QED
        BY <2>2, <4>1 DEF Kept, Evidence
    <3>3. CASE i # 1
      <4>1. wire[t] \in Seq(Frame)
        BY <1>1
      <4>2. i - 1 \in DOMAIN wire'[t] /\ wire'[t][i - 1] = wire[t][i]
        BY <3>1, <3>3, <4>1, Shortened
      <4>3. QED
        BY <2>4, <4>2
    <3>4. QED
      BY <3>2, <3>3
  <2>8. CASE OnTheWire(t) \subseteq lost'
    BY <1>3, <2>8 DEF Kept, Evidence
  <2>9. QED
    BY <2>5, <2>6, <2>7, <2>8, WireStep
<1>4. QED
  BY <1>2, <1>3 DEF Kept

LEMMA NextMarks ==
  ASSUME TypesInv, KeptInv, [Next]_vars
  PROVE  MarksKept'
<1>1. RelaysOK /\ MarksKept /\ AcksGrounded /\ relay \in [Server -> Relays]
  BY DEF TypesInv, KeptInv, RelaysOK
<1>2. SUFFICES ASSUME NEW t \in Server, relay'[t].pc = "mark", NEW e, e = Head(relay'[t].rows)
               PROVE  Kept(e)'
  BY DEF MarksKept, Kept, Evidence
<1>3. CASE relay'[t] = relay[t]
  BY <1>1, <1>2, <1>3, RelayData, KeptStep DEF MarksKept
<1>4. CASE Publish(t)
  <2>1. t \in connected
    BY <1>1, <1>2, <1>4, RelayData DEF Publish
  <2>2. relay'[t].rows = relay[t].rows
    BY <1>1, <1>4, <2>1 DEF Publish
  <2>3. PICK f : f = [op |-> "publish", msg |-> [ev |-> e, retry |-> 0]]
    OBVIOUS
  <2>4. wire'[t] = Append(wire[t], f) /\ e \in Event /\ wire[t] \in Seq(Frame)
    BY <1>2, <1>4, <2>1, <2>2, <2>3, Publishes DEF TypesInv, WiresOK
  <2>5. Len(wire[t]) + 1 \in DOMAIN wire'[t] /\ wire'[t][Len(wire[t]) + 1] = f
    BY <2>4, Appended
  <2>6. QED
    BY <2>3, <2>4, <2>5 DEF Kept, OnTheWire
<1>5. CASE FetchPending(t)
  BY <1>1, <1>2, <1>5 DEF FetchPending
<1>6. CASE MarkSent(t) \/ MarkSentFails(t)
  BY <1>1, <1>2, <1>6, RelayData DEF MarkSent, MarkSentFails
<1>7. CASE Crash(t) \/ Boot(t)
  BY <1>1, <1>2, <1>7, OffWait DEF Crash, Boot
<1>8. QED
  BY <1>3, <1>4, <1>5, <1>6, <1>7, OtherRelays

LEMMA NextSent ==
  ASSUME TypesInv, KeptInv, [Next]_vars
  PROVE  SentKept'
<1>1. /\ RelaysOK /\ SentKept /\ MarksKept /\ AcksGrounded
      /\ status \in [Event -> {"none", "pending", "sent"}]
  BY DEF TypesInv, KeptInv, RelaysOK
<1>2. SUFFICES ASSUME NEW e \in Event, status'[e] = "sent"
               PROVE  Kept(e)'
  BY DEF SentKept, Kept, Evidence
<1>3. CASE status[e] = "sent"
  BY <1>1, <1>3, KeptStep DEF SentKept
<1>4. ASSUME NEW s \in Server, MarkSent(s), status[e] # "sent"
      PROVE  Kept(e)'
  <2>1. status' = [status EXCEPT ![Head(relay[s].rows)] = "sent"] /\ relay[s].pc = "mark"
    BY <1>4 DEF MarkSent
  <2>2. e = Head(relay[s].rows)
    BY <1>1, <1>2, <1>4, <2>1
  <2>3. QED
    BY <1>1, <2>1, <2>2, KeptStep DEF MarksKept
<1>5. ASSUME NEW d \in Event, CommitEvent(d), status[e] # "sent"
      PROVE  FALSE
  BY <1>1, <1>2, <1>5 DEF CommitEvent
<1>6. ASSUME NEW s \in Server,
             \/ FetchPending(s) \/ Publish(s) \/ ReadFrame(s) \/ Requeue(s) \/ Boot(s)
             \/ HandleFails(s) \/ MarkSentFails(s) \/ Crash(s) \/ BootAlone(s) \/ Disconnect(s)
      PROVE  status' = status
  BY <1>6 DEF FetchPending, Publish, ReadFrame, Requeue, Boot, HandleFails, MarkSentFails, Crash,
              BootAlone, Disconnect
<1>7. ASSUME NEW s \in Server, NEW q \in Queue, ConsumerStep(s, q) \/ \E m \in Msg : Deliver(s, q, m)
      PROVE  status' = status
  BY <1>7 DEF ConsumerStep, HandleAudit, HandleNotification, Republish, Settle, Deliver
<1>8. ASSUME BrokerRestart \/ UNCHANGED vars
      PROVE  status' = status
  BY <1>8 DEF BrokerRestart, vars
<1>9. QED
  BY <1>2, <1>3, <1>4, <1>5, <1>6, <1>7, <1>8 DEF Next, RelayStep

LEMMA NextKept ==
  ASSUME TypesInv, KeptInv, [Next]_vars
  PROVE  KeptInv'
  BY NextAcks, NextHands, NextMarks, NextSent DEF KeptInv

LEMMA KeptIsAccounted ==
  ASSUME TypesInv, KeptInv
  PROVE  Accounted
<1>1. SUFFICES ASSUME NEW e \in Event, status[e] # "none"
               PROVE  InSight(e) \/ e \in lost
  BY DEF Accounted
<1>2. CASE status[e] = "pending"
  BY <1>2 DEF InSight
<1>3. CASE status[e] = "sent"
  <2>1. Evidence(e, 0) \/ \E s \in Server : e \in OnTheWire(s)
    BY <1>3 DEF KeptInv, SentKept, Kept
  <2>2. ASSUME NEW s \in Server, e \in OnTheWire(s)
        PROVE  e \in Travelling
    BY <2>2 DEF OnTheWire, Travelling
  <2>3. ASSUME NEW m \in Msg, m.ev = e, InQueue(Audit(m))
        PROVE  e \in Queued
    <3>1. m = [ev |-> e, retry |-> m.retry] /\ m.retry \in 0..MaxRetries
      BY <2>3 DEF Msg
    <3>2. QED
      BY <2>3, <3>1 DEF Queued, InQueue, Audit
  <2>4. QED
    BY <2>1, <2>2, <2>3 DEF Evidence, InSight
<1>4. QED
  BY <1>1, <1>2, <1>3 DEF TypesInv, RelaysOK

\* From its commit on, an event is pending, on its way, queued, recorded or
\* dead-lettered, unless a broken connection or a restarted broker took a copy
\* with it: for any number of replicas and any crashes and failed statements
\* (Relay.relayBatch, rabbitmq.Consume).
THEOREM EventsAccounted == Spec => []Accounted
<1>1. Init => TypesInv /\ KeptInv
  BY InitTypes, InitKept
<1>2. TypesInv /\ KeptInv /\ [Next]_vars => (TypesInv /\ KeptInv)'
  BY NextTypes, NextKept
<1>3. TypesInv /\ KeptInv => Accounted
  BY KeptIsAccounted
<1>4. QED
  BY <1>1, <1>2, <1>3, PTL DEF Spec
=============================================================================
