--------------------------- MODULE EventPipeline ---------------------------
(***************************************************************************)
(* The way of an event from its row in outbox_events to a row in           *)
(* audit_logs: the relay (internal/outbox), RabbitMQ with the topology     *)
(* that internal/platform/rabbitmq declares, and its consumers.            *)
(*                                                                         *)
(* Every server runs one relay and one consumer per queue, all on one AMQP *)
(* channel.  What they send are frames: written to the connection without  *)
(* waiting for the broker (no confirms, asynchronous acks), read by the    *)
(* broker later and in order, and lost if the connection breaks before.    *)
(* The server never reconnects: only a new process opens a new connection. *)
(*                                                                         *)
(* Left out: analytics.queue, whose bindings match no event that the code  *)
(* produces; outbox_events.retry_count, which nothing reads; prefetched    *)
(* messages, which the broker treats like those still in the queue.        *)
(***************************************************************************)
EXTENDS Naturals, Sequences, FiniteSetsExt

CONSTANTS
  Event,         \* numbers of outbox rows, in the order of their created_at
  Notifies,      \* the events with a routing key bound to notification.queue
  Server,        \* replicas of the server
  BatchSize,     \* rows that one poll of the relay fetches
  MaxRetries,    \* maxRetries: x-retry-count beyond which a message is dead
  FaultKinds,    \* the faults that may happen in this instance
  MaxFaults      \* bound: faults in a behaviour

Faults == {"insert", "update", "crash", "boot", "disconnect", "broker"}

ASSUME PipelineAssumption ==
  /\ Event \subseteq Nat /\ IsFiniteSet(Event)
  /\ Notifies \subseteq Event
  /\ BatchSize \in Nat \ {0}
  /\ MaxRetries \in Nat /\ MaxFaults \in Nat
  /\ FaultKinds \subseteq Faults

VARIABLES
  status,      \* status[e]: the status column of row e; "none" if not committed
  relay,       \* relay[s]: where the relay of s is in its batch
  consumer,    \* consumer[s][q]: where the consumer of q in s is
  process,     \* process[s]: "up" or "down"
  connected,   \* servers whose AMQP connection works
  wire,        \* wire[s]: frames sent by s that the broker has not read
  ready,       \* ready[<<q, m>>]: copies of message m waiting in queue q
  unacked,     \* unacked[s][<<q, m>>]: copies delivered to s, not acked yet
  dead,        \* dead[e]: messages of e in audit.queue.dlq
  audited,     \* audited[e]: rows of e in audit_logs
  notified,    \* notified[e]: notifications logged for e
  lost,        \* history: events of which a copy was lost on its way
  again,       \* history: again[q][e]: times that e had to come to q once more
  faults       \* number of faults so far (bound only)

broker == <<ready, unacked, dead>>
sinks  == <<audited, notified>>
vars   == <<status, relay, consumer, process, connected, wire, broker, sinks,
            lost, again, faults>>

Queue == {"audit", "notification"}
Msg   == [ev : Event, retry : 0..MaxRetries]
Slot  == Queue \X Msg

Frame ==
  [op : {"publish"}, msg : Msg] \cup [op : {"ack", "nack"}, slot : Slot]

Relays ==
  [pc : {"off", "wait"}] \cup [pc : {"publish", "mark"}, rows : Seq(Event)]

Consumers ==
  [pc : {"off", "wait"}]
    \cup [pc : {"handle", "republish", "ack", "nack"}, msg : Msg]

Off  == [pc |-> "off"]
Wait == [pc |-> "wait"]

\* The bindings of the two queues to the exchange: "#" and "role.assigned".
Bound(q, e) == q = "audit" \/ e \in Notifies

TypeOK ==
  /\ status \in [Event -> {"none", "pending", "sent"}]
  /\ relay \in [Server -> Relays]
  /\ \A s \in Server : relay[s].pc \in {"publish", "mark"} => relay[s].rows # << >>
  /\ consumer \in [Server -> [Queue -> Consumers]]
  /\ process \in [Server -> {"up", "down"}]
  /\ connected \subseteq {s \in Server : process[s] = "up"}
  /\ wire \in [Server -> Seq(Frame)]
  /\ ready \in [Slot -> Nat]
  /\ unacked \in [Server -> [Slot -> Nat]]
  /\ dead \in [Event -> Nat]
  /\ audited \in [Event -> Nat] /\ notified \in [Event -> Nat]
  /\ lost \subseteq Event
  /\ again \in [Queue -> [Event -> Nat]]
  /\ faults \in 0..MaxFaults

Empty == [x \in Slot |-> 0]

Init ==
  /\ status = [e \in Event |-> "none"]
  /\ relay = [s \in Server |-> Wait]
  /\ consumer = [s \in Server |-> [q \in Queue |-> Wait]]
  /\ process = [s \in Server |-> "up"] /\ connected = Server
  /\ wire = [s \in Server |-> << >>]
  /\ ready = Empty /\ unacked = [s \in Server |-> Empty]
  /\ dead = [e \in Event |-> 0]
  /\ audited = [e \in Event |-> 0] /\ notified = [e \in Event |-> 0]
  /\ lost = {} /\ again = [q \in Queue |-> [e \in Event |-> 0]] /\ faults = 0

-----------------------------------------------------------------------------
(* Producers *)

\* A transaction of rbac.Service commits, and its outbox row is seen.  The
\* row got its created_at before, so rows may appear out of that order.
CommitEvent(e) ==
  /\ status[e] = "none"
  /\ status' = [status EXCEPT ![e] = "pending"]
  /\ UNCHANGED <<relay, consumer, process, connected, wire, broker, sinks, lost, again, faults>>

-----------------------------------------------------------------------------
(* Relay.relayBatch *)

\* The first n elements of S in the order of <.
Oldest(S, n) == {e \in S : Cardinality({d \in S : d < e}) < n}

\* S as the sequence that ORDER BY created_at gives.
Ordered(S) ==
  [i \in 1..Cardinality(S) |->
     CHOOSE e \in S : Cardinality({d \in S : d < e}) = i - 1]

\* The rows that OutboxRepository.FetchPending selects.
\* (Seeded faults: no condition on status; rows not yet committed.)
Committed == {e \in Event : status[e] # "none"}
Unsent == {e \in Event : status[e] # "sent"}
Pending == {e \in Event : status[e] = "pending"}

FetchPending(s) ==
  /\ relay[s] = Wait
  /\ Pending # {}
  /\ relay' = [relay EXCEPT ![s] =
                 [pc |-> "publish", rows |-> Ordered(Oldest(Pending, BatchSize))]]
  /\ UNCHANGED <<status, consumer, process, connected, wire, broker, sinks, lost, again, faults>>

\* The relay goes on with the next row of the batch, or waits for the ticker.
NextRow(s) ==
  IF Len(relay[s].rows) = 1 THEN Wait
  ELSE [pc |-> "publish", rows |-> Tail(relay[s].rows)]

\* PublishWithContext: on a working connection the frame is as good as sent.
\* On a broken one it fails, and MarkFailed leaves the row pending.
Publish(s) ==
  /\ relay[s].pc = "publish"
  /\ \/ /\ s \in connected
        /\ wire' = [wire EXCEPT ![s] = Append(@,
             [op |-> "publish", msg |-> [ev |-> Head(relay[s].rows), retry |-> 0]])]
        /\ relay' = [relay EXCEPT ![s] = [pc |-> "mark", rows |-> relay[s].rows]]
     \/ /\ s \notin connected
        /\ relay' = [relay EXCEPT ![s] = NextRow(s)]
        /\ UNCHANGED wire
  /\ UNCHANGED <<status, consumer, process, connected, broker, sinks, lost, again, faults>>

\* History: the row that s has published is not marked, and will be published again.
PublishedAgain(s) ==
  IF relay[s].pc = "mark" THEN [again EXCEPT !["audit"][Head(relay[s].rows)] = @ + 1]
  ELSE again

\* OutboxRepository.MarkSent, whether or not another relay got there first.
MarkSent(s) ==
  /\ relay[s].pc = "mark"
  /\ status' = [status EXCEPT ![Head(relay[s].rows)] = "sent"]
  /\ relay' = [relay EXCEPT ![s] = NextRow(s)]
  /\ UNCHANGED <<consumer, process, connected, wire, broker, sinks, lost, again, faults>>

-----------------------------------------------------------------------------
(* The broker *)

\* The broker reads the next frame of s.  A published message goes to every
\* queue bound to its routing key, an ack or a nack settles one delivery.
ReadFrame(s) ==
  /\ wire[s] # << >>
  /\ LET f == Head(wire[s])
     IN \/ /\ f.op = "publish"
           /\ ready' = [x \in Slot |->
                ready[x] + IF x[2] = f.msg /\ Bound(x[1], f.msg.ev) THEN 1 ELSE 0]
           /\ UNCHANGED <<unacked, dead>>
        \/ /\ f.op = "ack"
           /\ unacked' = [unacked EXCEPT ![s][f.slot] = @ - 1]
           /\ UNCHANGED <<ready, dead>>
        \/ /\ f.op = "nack"
           /\ unacked' = [unacked EXCEPT ![s][f.slot] = @ - 1]
           /\ dead' = [dead EXCEPT ![f.slot[2].ev] = @ + 1]
           /\ UNCHANGED ready
  /\ wire' = [wire EXCEPT ![s] = Tail(@)]
  /\ UNCHANGED <<status, relay, consumer, process, connected, sinks, lost, again, faults>>

\* The broker gives a waiting copy of m to the consumer of q in s.
Deliver(s, q, m) ==
  /\ s \in connected
  /\ consumer[s][q] = Wait
  /\ ready[<<q, m>>] > 0
  /\ ready' = [ready EXCEPT ![<<q, m>>] = @ - 1]
  /\ unacked' = [unacked EXCEPT ![s][<<q, m>>] = @ + 1]
  /\ consumer' = [consumer EXCEPT ![s][q] = [pc |-> "handle", msg |-> m]]
  /\ UNCHANGED <<status, relay, process, connected, wire, dead, sinks, lost, again, faults>>

\* What the broker holds when the deliveries to s are given back.
Requeued(s) == [x \in Slot |-> ready[x] + unacked[s][x]]

\* How many messages of e, whatever their retries, h counts for q.
Total(h, q, e) ==
  Cardinality(UNION {{r} \X (1..h[<<q, [ev |-> e, retry |-> r]>>]) : r \in 0..MaxRetries})

\* History: every delivery to s that is given back comes once more.
GivenBack(s) ==
  [q \in Queue |-> [e \in Event |-> again[q][e] + Total(unacked[s], q, e)]]

\* A connection that is no longer used: its last frame has been read,
\* and what it had not acked is queued again.
Requeue(s) ==
  /\ s \notin connected /\ wire[s] = << >> /\ unacked[s] # Empty
  /\ ready' = Requeued(s)
  /\ unacked' = [unacked EXCEPT ![s] = Empty]
  /\ again' = GivenBack(s)
  /\ UNCHANGED <<status, relay, consumer, process, connected, wire, dead, sinks, lost, faults>>

-----------------------------------------------------------------------------
(* rabbitmq.Consume *)

\* The handler returns nil, and the message will be acked.
Handled(s, q) ==
  /\ consumer[s][q].pc = "handle"
  /\ consumer' = [consumer EXCEPT ![s][q] = [pc |-> "ack", msg |-> @.msg]]

\* audit.Consumer.Handle inserts its row ...
HandleAudit(s) ==
  /\ Handled(s, "audit")
  /\ audited' = [audited EXCEPT ![consumer[s]["audit"].msg.ev] = @ + 1]
  /\ UNCHANGED <<status, relay, process, connected, wire, broker, notified, lost, again, faults>>

\* ... and notification.Consumer.Handle writes its line.
HandleNotification(s) ==
  /\ Handled(s, "notification")
  /\ notified' = [notified EXCEPT ![consumer[s]["notification"].msg.ev] = @ + 1]
  /\ UNCHANGED <<status, relay, process, connected, wire, broker, audited, lost, again, faults>>

\* What follows an error of the handler on m.
\* (Seeded faults: no copy is republished; one retry too many.)
NeverRepublish(m) == "ack"
LateLimit(m) == IF m.retry > MaxRetries THEN "nack" ELSE "republish"
AfterError(m) == IF m.retry >= MaxRetries THEN "nack" ELSE "republish"

\* The channel takes a frame if the connection works, else the call fails and
\* its error is dropped.
Send(s, f) ==
  wire' = IF s \in connected THEN [wire EXCEPT ![s] = Append(@, f)] ELSE wire

\* The message with the next x-retry-count, which is 0 if there is none.
\* (Seeded fault: the count stays as it was.)
Uncounted(m) == m
Retried(m) == [m EXCEPT !.retry = @ + 1]

\* A copy goes to the exchange, not to the queue.
Republish(s, q) ==
  /\ consumer[s][q].pc = "republish"
  /\ LET m == consumer[s][q].msg
     IN /\ Send(s, [op |-> "publish", msg |-> Retried(m)])
        /\ consumer' = [consumer EXCEPT ![s][q] = [pc |-> "ack", msg |-> m]]
  /\ UNCHANGED <<status, relay, process, connected, broker, sinks, lost, again, faults>>

\* Ack or Nack; then the next delivery, or the end if the channel is closed.
Settle(s, q) ==
  /\ consumer[s][q].pc \in {"ack", "nack"}
  /\ Send(s, [op |-> consumer[s][q].pc, slot |-> <<q, consumer[s][q].msg>>])
  /\ consumer' = [consumer EXCEPT ![s][q] = IF s \in connected THEN Wait ELSE Off]
  /\ UNCHANGED <<status, relay, process, connected, broker, sinks, lost, again, faults>>

-----------------------------------------------------------------------------
(* Faults *)

Fault(kind) ==
  /\ kind \in FaultKinds
  /\ faults < MaxFaults
  /\ faults' = faults + 1

\* Postgres refuses the INSERT of audit.Consumer.Handle.
HandleFails(s) ==
  /\ Fault("insert")
  /\ consumer[s]["audit"].pc = "handle"
  /\ LET m == consumer[s]["audit"].msg
     IN consumer' = [consumer EXCEPT ![s]["audit"] = [pc |-> AfterError(m), msg |-> m]]
  /\ UNCHANGED <<status, relay, process, connected, wire, broker, sinks, lost, again>>

\* Postgres refuses the UPDATE of MarkSent.
MarkSentFails(s) ==
  /\ Fault("update")
  /\ relay[s].pc = "mark"
  /\ relay' = [relay EXCEPT ![s] = NextRow(s)]
  /\ again' = PublishedAgain(s)
  /\ UNCHANGED <<status, consumer, process, connected, wire, broker, sinks, lost>>

\* The process of s dies or shuts down (which waits for nobody).  What it has
\* written to the socket is still delivered.
Crash(s) ==
  /\ Fault("crash")
  /\ process[s] = "up"
  /\ process' = [process EXCEPT ![s] = "down"]
  /\ connected' = connected \ {s}
  /\ relay' = [relay EXCEPT ![s] = Off]
  /\ consumer' = [consumer EXCEPT ![s] = [q \in Queue |-> Off]]
  /\ again' = PublishedAgain(s)
  /\ UNCHANGED <<status, wire, broker, sinks, lost>>

\* A new process.  The broker has finished with the old connection.
Boot(s) ==
  /\ process[s] = "down" /\ wire[s] = << >> /\ unacked[s] = Empty
  /\ process' = [process EXCEPT ![s] = "up"]
  /\ connected' = connected \cup {s}
  /\ relay' = [relay EXCEPT ![s] = Wait]
  /\ consumer' = [consumer EXCEPT ![s] = [q \in Queue |-> Wait]]
  /\ UNCHANGED <<status, wire, broker, sinks, lost, again, faults>>

\* Connect fails: the server runs without a relay and without consumers.
BootAlone(s) ==
  /\ Fault("boot")
  /\ process[s] = "down"
  /\ process' = [process EXCEPT ![s] = "up"]
  /\ UNCHANGED <<status, relay, consumer, connected, wire, broker, sinks, lost, again>>

\* The consumers that find their channel closed while waiting are done.
Closed(s) ==
  [q \in Queue |-> IF consumer[s][q] = Wait THEN Off ELSE consumer[s][q]]

\* The events for which the relay of s sent a message that was not read.
OnTheWire(s) ==
  {e \in Event : \E i \in DOMAIN wire[s] :
     wire[s][i].op = "publish" /\ wire[s][i].msg = [ev |-> e, retry |-> 0]}

\* The connection of s breaks: unread frames are gone, deliveries go back.
Disconnect(s) ==
  /\ Fault("disconnect")
  /\ s \in connected
  /\ connected' = connected \ {s}
  /\ consumer' = [consumer EXCEPT ![s] = Closed(s)]
  /\ lost' = lost \cup OnTheWire(s)
  /\ wire' = [wire EXCEPT ![s] = << >>]
  /\ ready' = Requeued(s)
  /\ unacked' = [unacked EXCEPT ![s] = Empty]
  /\ again' = GivenBack(s)
  /\ UNCHANGED <<status, relay, process, dead, sinks>>

\* The events that audit.queue has a copy of, delivered or not.
Queued == {e \in Event : \E r \in 0..MaxRetries :
             LET x == <<"audit", [ev |-> e, retry |-> r]>>
             IN ready[x] > 0 \/ \E s \in Server : unacked[s][x] > 0}

\* The broker restarts: connections break, and of the durable queues only
\* persistent messages survive, of which there are none.
BrokerRestart ==
  /\ Fault("broker")
  /\ connected' = {}
  /\ consumer' = [s \in Server |-> Closed(s)]
  /\ lost' = lost \cup Queued \cup (UNION {OnTheWire(s) : s \in Server})
                  \cup {e \in Event : dead[e] > 0}
  /\ wire' = [s \in Server |-> << >>]
  /\ ready' = Empty /\ unacked' = [s \in Server |-> Empty]
  /\ dead' = [e \in Event |-> 0]
  /\ UNCHANGED <<status, relay, process, sinks, again>>

-----------------------------------------------------------------------------

RelayStep(s) == FetchPending(s) \/ Publish(s) \/ MarkSent(s)
ConsumerStep(s, q) ==
  \/ q = "audit" /\ HandleAudit(s)
  \/ q = "notification" /\ HandleNotification(s)
  \/ Republish(s, q) \/ Settle(s, q)

Next ==
  \/ \E e \in Event : CommitEvent(e)
  \/ \E s \in Server :
       \/ RelayStep(s) \/ ReadFrame(s) \/ Requeue(s) \/ Boot(s)
       \/ HandleFails(s) \/ MarkSentFails(s) \/ Crash(s) \/ BootAlone(s)
       \/ Disconnect(s)
       \/ \E q \in Queue : ConsumerStep(s, q) \/ \E m \in Msg : Deliver(s, q, m)
  \/ BrokerRestart

Spec == Init /\ [][Next]_vars

\* The relay's ticker ticks, the consumers' goroutines run, the broker reads,
\* routes, delivers and requeues, and a dead process is started again.
Fairness ==
  /\ \A s \in Server :
       WF_vars(RelayStep(s)) /\ WF_vars(ReadFrame(s) \/ Requeue(s)) /\ WF_vars(Boot(s))
  /\ \A s \in Server, q \in Queue :
       /\ WF_vars(ConsumerStep(s, q))
       /\ WF_vars(\E m \in Msg : Deliver(s, q, m))

FairSpec == Spec /\ Fairness

-----------------------------------------------------------------------------
(* What becomes of an event *)

\* Events with a copy on its way to audit.queue, first or republished.
Travelling == {e \in Event : \E s \in Server : \E i \in DOMAIN wire[s] :
                 wire[s][i].op = "publish" /\ wire[s][i].msg.ev = e}

InSight(e) ==
  \/ status[e] = "pending"
  \/ e \in Travelling \cup Queued
  \/ audited[e] > 0 \/ dead[e] > 0

\* No event goes astray: from its commit on it is pending, or on its way to
\* or in audit.queue, or has a row in audit_logs, or is dead-lettered; unless
\* a broken connection or a restarted broker took a copy with it.  Crashes,
\* failed updates, failed handlers and the republish-then-ack of a retry take
\* none.  (Relay.relayBatch, rabbitmq.Consume.)
Accounted == \A e \in Event : status[e] # "none" => InSight(e) \/ e \in lost

\* "RabbitMQ being temporarily unreachable just means rows sit pending a
\* little longer, never that an event is silently lost" (Relay).
NeverLost == \A e \in Event : status[e] # "none" => InSight(e)

\* "... writes one audit_logs row per event" (audit.Consumer.Handle).
OneRowPerEvent == \A e \in Event : audited[e] <= 1

\* With one replica an event ends at most once, in one row or in one dead
\* letter, however often it was retried and whatever fails; and once more only
\* for each publish that the relay died or failed before marking, and for each
\* delivery that came back because its connection was gone.
\* (Relay.relayBatch marks what it published; rabbitmq.Consume: every way out
\* of a failed delivery settles it, and the republished copy replaces it.)
SettledOnce == \A e \in Event : audited[e] + dead[e] <= 1 + again["audit"][e]

\* With one replica, what retries for the audit trail cost the other queue is
\* bounded: each republished copy notifies once more, and a message has at most
\* maxRetries of them.
\* (rabbitmq.Consume republishes to the exchange, not to the queue.)
NotificationsBounded ==
  \A e \in Event :
    notified[e] <= again["notification"][e]
                   + IF e \in Notifies
                     THEN (1 + again["audit"][e]) * (1 + MaxRetries) ELSE 0

\* Crashes, restarts and failing statements only delay: every event that was
\* committed gets a row in audit_logs or a dead letter.
\* (Relay.Run polls for ever, unacked deliveries come back, maxRetries.)
EventuallySettled ==
  \A e \in Event : status[e] # "none" ~> (audited[e] > 0 \/ dead[e] > 0)

\* The pipeline seen from its two ends.
Trail == INSTANCE AuditTrail WITH
           committed <- {e \in Event : status[e] # "none"},
           rows <- audited

\* audit_logs only grows, a row at a time, and only by events whose business
\* transaction has committed.  (Relay.relayBatch reads what is committed.)
ImplementsAuditTrail == Trail!Spec
=============================================================================
