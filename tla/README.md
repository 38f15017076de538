# A TLA+ verification of the RBAC platform

The server is one Go process that is run in several replicas (two in
`deployments/k8s/app.yaml`). It keeps users, roles, permissions, refresh tokens,
audit rows and an outbox in Postgres; a permission cache, a token blacklist and
rate-limit counters in Redis; and sends events through RabbitMQ. There is no
lock in the Go code: what keeps concurrent requests and replicas apart is
Postgres, single Redis commands, and the order of the statements. This is what
the models are about.

Paths below are relative to `src/`; `internal/repository/postgres` is written
`postgres`.

## 1. Inventory

| Component | State | Operations | Correct when | Model |
|---|---|---|---|---|
| RBAC service (`internal/rbac/service.go`) | none of its own | Authorize, AssignRoleToUser, RemoveRoleFromUser, AttachPermissionToRole, Create/Delete of roles and permissions | answers agree with Postgres, or differ only for known reasons and for a bounded time | `RBACService` |
| Permission cache (`platform/cache/permission_cache.go`) | per user a set of names, 10 min; a `:empty` key, 1 min | Get, Set, Invalidate | an entry is a set the user had; it does not outlive its truth | `RBACService` |
| Tables (`migrations`, `postgres`) | users, roles, permissions, user_roles, role_permissions | one statement each | keys and cascades | `RBACStore`, `Accounts` |
| Transactions and outbox writes (`postgres/tx.go`, `outbox_repo.go`) | open transactions, outbox_events | RunInTx, Create | the events tell what happened to the tables, in order | `Outbox` |
| Outbox relay (`internal/outbox`) | the batch in hand | relayBatch every 500 ms | every committed event is published | `EventPipeline` |
| RabbitMQ topology and consumers (`platform/rabbitmq`) | queues, unacked deliveries, x-retry-count | Connect, Consume | no event is lost; failures end in the dead-letter queue | `EventPipeline` |
| Audit trail (`internal/audit`) | audit_logs | Handle, List | rows tell of things that happened | `EventPipeline`, `AuditTrail` |
| Notification (`internal/notification`) | a log line | Handle | repeats are bounded | `EventPipeline` |
| Analytics (`internal/analytics`) | - | Handle, never called: its bindings match no event of the code | - | not modelled |
| Sessions (`internal/auth`, `postgres/refresh_token_repo.go`) | refresh_tokens | Login, Refresh, Logout | a refresh token is used once; a logout holds | `Sessions` |
| Access tokens and blacklist (`platform/jwt`, `platform/cache/blacklist.go`, `middleware/jwt_auth.go`) | exp in the token, a key per signed-out jti | JWTAuth, Add | a signed-out token stays out until it expires | `Sessions` |
| Accounts (Signup, `internal/user`) | users | Signup, UpdateProfile | one account per email; it has the default role; a deactivated user stays so | `Accounts`; the default role also in `RBACService` |
| Route protection (`middleware/rbac_check.go`, handlers) | none | RequirePermission, self-or-permission | a change was made by somebody who was allowed to | `Gateway` |
| Rate limiter (`middleware/rate_limit.go`) | a counter per client and window | INCR, EXPIRE | at most so many requests per window; counters go away | `RateLimit` |
| Start-up and shutdown (`cmd/server/main.go`) | - | connects to RabbitMQ once | the relay runs | in part, `EventPipeline` |
| Configuration, logs, metrics, tracing, `httpx`, domain types, `proto`, dashboard, deployment | - | - | - | not modelled: no behaviour of their own, or plain input and output |

How they interact: a request passes RateLimit, JWTAuth and RequirePermission
(which calls Authorize) and then calls a service. A service calls repositories
(Postgres), after the commit the cache (Redis). The only thing it leaves for
others is the outbox row. Each replica's relay polls outbox_events and publishes
to the exchange; each replica's consumers take from the queues, and the audit
consumer writes to Postgres.

What is hard here, and listed with its place in `PROJECT.json` ("hazards"):
cache fills that overlap invalidations; changes that invalidate nobody; an
invalidation lost after the commit; two relays on one outbox; publishing
without confirms; a connection made once; retries that go through the exchange;
check-then-act on refresh tokens; lifetimes measured on one clock and stored on
another; multi-step requests that are cut short; a signup that checks, inserts and
assigns in statements of their own; a counter that gets its expiry in a second command.

## 2. Modules

```
Authorization <- RBACService                (instantiated, as abstract specification)
RBACStore <- RBACService <- MCRBACService
                         <- RBACServiceProofs
                         <- Gateway <- MCGateway
                                    <- GatewayProofs (with RBACServiceProofs)
Outbox <- MCOutbox                          (<- : is extended by)
       <- OutboxProofs
AuditTrail <- EventPipeline                 (instantiated, as abstract specification)
EventPipeline <- MCEventPipeline
              <- EventPipelineProofs <- EventCountsProofs
Sessions <- MCSessions
         <- SessionsProofs
RateLimit <- Accounts <- MCAccounts
                      <- AccountsProofs (with RateLimitProofs)
          <- RateLimitProofs
```

In the modules, a definition marked "(Seeded fault: ...)" belongs to no model. It
is a variant of the definition that follows it, as a plausible bug would make it,
and serves to confirm that a property would notice: `PROJECT.json` ("mutants")
says which property notices which.

### RBACStore, RBACService

Tables are sets of rows and the repositories' queries are operators on them
(`PermissionsIn` is the join of `UserRepository.GetPermissions`). A goroutine
`p` serves one request at a time; `call[p]` is how far it has got:

| `call[p].pc` | in the code |
|---|---|
| `query` | Authorize has missed in the cache, before GetPermissions (service.go:157) |
| `fill` | has the names from Postgres, before cache.Set (170) |
| `reply` | has its answer |
| `fanout` | AttachPermissionToRole has committed, before GetUserIDsForRole (131) |
| `invalidate` | committed; `todo` are the users whose DEL is still to come |

One action per step: `AuthorizeHit`, `AuthorizeMiss`, `GetPermissions`,
`CacheSet`, `Respond`; `AssignRoleToUser`, `RemoveRoleFromUser`,
`AttachPermissionToRole` (each a transaction), `GetUserIDsForRole`, `Invalidate`;
`CreateRole`, `CreatePermission`, `DeleteRole`, `DeletePermission`. `SignupAssigns`
is the last statement of `auth.Service.Signup`, which gives a user in `joining` the
default role and tells nobody; a Signup whose assignment fails never takes it. The
environment expires keys, lets Redis commands fail (`InvalidateFails`,
`CacheSetFails`, and `AuthorizeMiss` with the key there), and cuts requests short
(`Abandon`: process death, cancelled request context, failing query).
Abstractions:

- A transaction here writes one row of one join table, and what others can see of it
  happens at its commit. The statements inside are the subject of `Outbox`.
- The 10 minutes are not counted: a key with an expiry may vanish at any time, and under fairness does.
- The name asked for is not in the state: an answer is the set it is drawn from.
- `past`, `missed`, `raced` are history: no action reads them.

### Authorization

What a caller of `Service.Authorize` may rely on, without keys, queries and
invalidations. `granted[u]` are the names that the tables give; `shown[u]` is the
cache entry of `u` or, where there is none, what the tables give; `answer[p]` is
the user and the names that a call has in hand (from `fill` or the hit until it returns). A call
draws its answer at one moment, from `granted` or from `shown` (`Look`: the SELECT, or
SMembers on a hit); what it has drawn may become what is shown (`Show`: cache.Set), however
late; `shown` catches up with `granted` (`CatchUp`: a DEL or an expiry); and a commit changes
what is granted, while what is shown stays, or goes along where there is no entry (`Change`).
`ImplementsAuthorization` in `RBACService` is the refinement. It excludes answers put
together from two sets, answers of another user, and entries that nobody read; it allows
stale ones, which `StalenessExplained` and `EventuallyFresh` are about.

### Gateway

`Gateway` extends `RBACService`, and each of its actions is one of the service's
with what the HTTP request does on top. `req[p]` is the request: `gate` while
RequirePermission's call of Authorize is under way, `open` when c.Next() has been
called and the handler has yet to call the service, `run` from the service's
commit to its last DEL, `ask` in POST /authorize, which has no gate. One action
per route: `PostUserRole`, `DeleteUserRole`, `PostRolePermission`, `PostRole`,
`DeleteRoleById`, `PostPermission`, `DeletePermissionById`; `ReadsOrFails` stands for the
handlers that only read or write profiles, and for refusals. `OwnProfile` is the "self" in
the self-or-permission rule of `internal/user`, which goes past no gate, and `Joins` a
Signup. The two names in `Needed` stand for assign_role and for any other (view_audit,
view_users, view_profile, create_user): only the first guards a change here. The actor is the user of the access
token, taken to be right (`Sessions` is about that). `good` is history: whether
the gate had grounds when it drew its answer.

### Outbox

The same transactions, cut at each statement: the write to the join table
(`AssignRole`, `RemoveRole`), the INSERT of the event (`CreateEvent`, which draws
the id), `Commit` and `Rollback`. Row locks are modelled by what they make wait:
an INSERT waits for any uncommitted insert or delete of its row, a DELETE for an
uncommitted delete of the row it sees. A waiting statement is a disabled action.
`created_at` is set by the process that makes the row; the model orders by id,
which is the same as far as the replicas' clocks agree.

### EventPipeline, AuditTrail

`relay[s]` and `consumer[s][q]` are the program counters of the goroutines of
server `s`; `status` is the column of outbox_events; `wire[s]` holds what `s` has
written to its connection and the broker has not read; `ready`, `unacked` and
`dead` are the broker's. A publish "succeeds" when its frame is on the wire, which
is what `PublishWithContext` without confirms means. Acks travel on the same wire, in
order: this is why a retry's "republish, then ack" loses nothing in a crash.
`Disconnect` throws the wire away and requeues deliveries, and the server stays
without a connection, as `main` never reconnects. `BrokerRestart` also empties
the queues: they are durable, the messages are not persistent. `AuditTrail` is
what a reader of `GET /audit` can rely on; `ImplementsAuditTrail` is the
refinement, with committed events and audit rows mapped to its two variables.

Left out: `analytics.queue`; `retry_count`; prefetched messages (the broker
gives them back in the same cases as queued ones); a new process of a server
starts when the broker has dealt with the old one's connection.

### Sessions

Element `t` of `Pair` stands for the access token and the refresh token that
`issueTokenPair` gives out together. `token[t]` is the row of refresh_tokens,
`expires[t]` the exp of the access token, `blacklist[t]` the time at which its key
goes. Steps: `RefreshReads` (GetByHash and the checks), `RefreshRevokes`,
`RefreshIssues`; `Logout` (JWTAuth has let it through), `LogoutMeasures`
(time.Until), `LogoutBlacklists`, `LogoutReads`, `LogoutRevokes`; `Login`,
`LoginIssues`. Logout takes an access token and a refresh token of possibly
different pairs, as the code does. `parent` and `login` in a row are history, and so is
`ended`, the refresh tokens that a Logout revoked while they were live and no Refresh
was under way with them.

### RateLimit, Accounts

`RateLimit` is the middleware: `gate[p]` is `incr` with the key already computed from the
clock, `expire` after an INCR that returned 1, `in` once c.Next() has been called.
`counter[k]` is the value in Redis with its expiry, if it has one. Values above the limit are
not told apart (`Limit + 1` stands for all of them). The faults are those of the two commands: INCR fails,
or is carried out and its answer lost (go-redis then repeats it, or the request
passes), EXPIRE fails or is never sent. There is one clock for servers and Redis.

`Accounts` extends it: `Handle(p)` needs `gate[p]` to be `in`. `task[p]` is the place in
Signup (`create` after the lookup found the email free, `findRole` after the INSERT, `assign`
with the id of the role in hand) or in UpdateProfile (`update`, with is_active as it was read).
`users` is the table, and of `roles` only the row named "developer" is kept, with
the ids it has had: `DropDeveloper` and `NewDeveloper` are DeleteRole and CreateRole of
another module, as seen from here. `Deactivate` is external: nothing in the API sets
is_active, an operator does it in the database. Names, passwords and hashes are
not in the state. `cut` and `off` are history. Who may update whose profile is `Gateway`'s.

## 3. Runs

Each run in a table is one question; "violation" runs show a place where the code
does not do what a comment or the README says (`PROJECT.json`, "findings").

| Run | Bounds | Shows |
|---|---|---|
| `rbac_safety` | 2 users, one of whom has just signed up, 3 role ids and 3 permission ids (names compete), 2 goroutines, 2 writes, all faults | `TypeOK` (with the foreign keys), `StalenessExplained`, `AnswersOnceTrue`, `ImplementsAuthorization`, `EventuallyFresh` |
| `rbac_fill_race` | no faults, no deletes | violation of `NoStaleAllow`: a fill overtakes a DEL |
| `rbac_delete_stale` | 1 goroutine, no faults | violation of `NoStaleAllow`: DeleteRole and DeletePermission do not invalidate |
| `gateway_safety` | as `rbac_safety`, with two gates | `GatewayTypeOK`, `RevokedIsRefused`, `ChangesByTheAllowed` |
| `outbox_safety` | 3 goroutines, 2 rows, 4 ids | `ChangesReplay` |
| `events_safety` | 2 servers, 1 event, any 3 faults | `TypeOK`, `Accounted`, `ImplementsAuditTrail` |
| `events_liveness` | 1 server, 1 event, maxRetries 1, 2 of insert, update, crash | `SettledOnce`, `NotificationsBounded`, `EventuallySettled` |
| `events_duplicate_rows` | 2 servers, no faults | violation of `OneRowPerEvent` |
| `events_disconnect_loses` | 1 server, 1 disconnect | violation of `NeverLost` |
| `sessions_safety` | 2 goroutines, 3 pairs, clock to 3, access tokens live 1 and refresh tokens 2, all faults | `TypeOK`, `SignedOutStaysOut`, `ReplayOnlyByOverlap`, `OneLivePerLogin`, `LogoutEndsLogin` |
| `sessions_double_mint` | 2 goroutines, no faults | violation of `SingleUse` |
| `accounts_safety` | 3 goroutines, 1 client, limit 2, window 2, clock to 2, 1 email, 2 ids of users and of the default role, all faults | `TypeOK`, `AtMostLimit`, `OrphansExplained`, `OneAccountPerEmail`, `RolelessExplained`, `StaysOff` |

Why the bounds are enough. In `RBACService` a stale entry takes one reader, one
writer and one write; the second write lets a deleted name come back under a
new id, or a second change overtake the first. Users do not interact except through
the fan-out, for which two are enough. In `Gateway` the second write is the one that
a user makes who owes a permission to the first; three writes were run as well
(4.9 million states) and show nothing else. In `Outbox` two transactions contend for a
row while the third holds the other; four ids allow assign, revoke, assign with
one lost to a rollback. In `EventPipeline` two relays and one event give the
double publish, and `MaxRetries` stands for the 3 of the code: 1 leaves a retry that
succeeds and one that meets the limit. Events meet only in the order of a batch and of
the wire, and no property is about that order. The invariants of `events_liveness`
were checked as well with two rows, which make a batch (7.8 million states), and with any
three of all six faults (8.2 million): they hold; section 4 proves them for all. With two
servers they are false, as `events_duplicate_rows` shows. In `Sessions` three pairs give a login and two
rotations of it, a replay with two winners, or two logins one of which is rotated; that
access tokens live shorter than refresh tokens is how the code is configured, and
`sessions_double_mint` has them live equally long. In `Accounts` two ids of users let
two Signups with one email collide, and a second id lets the default role come back; the third
goroutine takes the counter past its limit while two are in between their commands;
with a window of 2 and a clock up to 2 there is a boundary to cross and an expiry to
meet in either window.

Deadlock is not checked where the modelled work runs out (all events settled, all
ids drawn); in the other runs it is, and there is none.

Fairness. `RBACService`: a goroutine that has started a call is scheduled
until it returns, and keys with an expiry expire; nobody has to issue a request,
and no fault has to happen or to stop. `EventPipeline`: the relay's ticker and the
consumers' goroutines run, the broker reads and delivers, and a dead
process is started again (Kubernetes does); faults are bounded by `MaxFaults`,
so they end. Liveness is stated for the faults that the process survives or is
restarted after: with a broken connection it is false, as `main` connects once. The other modules state
safety only.

Observations that have no run of their own, but are in the models:

- A DEL that Redis does not carry out leaves a revoked permission allowed until the entry
  expires (`InvalidateFails`, the first cause in `Explained`), while the comment at
  `internal/rbac/service.go:141-145` says that an outage of Redis "degrades latency,
  never correctness".
- The key `user:{u}:permissions:empty` is written and never read (`AuthorizeMiss`), so
  a user without permissions costs a query every time.
- After a broken connection a process publishes nothing more until it is restarted
  (`Disconnect`, `BootAlone`).
- The last holder of assign_role can lose it (`RemoveRoleFromUser`, `DeleteRole`,
  `DeletePermission`), and then no gate of the RBAC routes opens again.
- Signup may leave a user without the default role (`CutShort`, `AssignDefault` on a role that
  was deleted), and no retry repairs it, because the email is taken by then, whereas
  README.md says that signup assigns the developer role. `RolelessExplained` lists the
  ways; none of them is a race of two signups.
- The default role is assigned without an invalidation (`SignupAssigns`), so it may take
  effect for a user only when an earlier cache entry expires.
- The loser of two Signups with one email gets the error of the UNIQUE constraint, which the
  handler answers with 500 and not with "email_taken" (`CreateUser`).
- An update of the profile that began before an operator deactivated the user
  activates the user again (`UpdateWrites`; `StaysOff` says that only such an update does).
- Refresh does not look at is_active, so a deactivated user stays signed in as long as
  the tokens are refreshed. No document says otherwise.
- A counter of the rate limiter whose EXPIRE was lost stays in Redis for good
  (`OrphansExplained`). It blocks nobody after its window, as no window comes back.
- The payload of `role.revoked` has the user who lost the role as its only user, which the
  audit consumer records as the actor.

## 4. Proofs

`RBACServiceProofs` proves, for any sets of users, ids, names and goroutines and
any bound on writes, under `NameOfAssumption` (every id has a name) and
`RBACAssumption` (the initial rows refer to initial roles and permissions, and the
ids of roles and permissions are different):

- `TypeCorrect`: `Spec => []TypeOK`. One lemma per group of actions; the cascades
  (`WithoutRoleUR`, `WithoutRoleRP`, `WithoutPermRP`) carry the foreign keys.
- `StalenessIsExplained`: `Spec => []StalenessExplained`. It is inductive given the
  types. Two facts carry it: a change leaves the permissions of everybody as
  they were except those it owes an invalidation (`OtherUsersKeep`,
  `NonHoldersKeep`, `DeleteRoleKeeps`, `DeletePermissionKeeps`), and a user who is owed
  one stays owed until the DEL. The fan-out is the delicate case: holders are read
  after the commit, so a user who loses the role in between is no longer in the
  list, but the removal itself then owes the DEL.
- `AnswersWereOnceTrue`: `Spec => []AnswersOnceTrue`, from the inductive
  `AnswersInv`: `AnswersOnceTrue` and `HistoryIsCurrent`, which says that `past[u]`
  contains what Postgres gives now. Without the second conjunct a read
  could return a set that `past` does not know.
- `ServiceImplementsAuthorization`: `Spec => ImplementsAuthorization`, from the types alone.
  A lemma per abstract step says what it needs of the three mapped variables (`Looks`,
  `ShowsIt`, `CatchesUp`, `Changes`, `Takes`), a lemma per kind of change what the concrete
  step does to them (`CallMoves`, `EntryMoves`, `WritesChange`), and `NextContract` joins
  them. A hit and the SELECT are `Look`, a Set that reaches Redis is `Show`, a DEL and an expiry are
  `CatchUp`, the reply and a cut request are `Take`, every commit is a `Change`; the rest stutters.

`GatewayProofs` proves, with `GatewayAssumption` (the demanded names are names)
in addition:

- `GatewayImplementsService`: `GatewaySpec => Spec`. Each request step is a step of the
  service or none, so the theorems above hold behind the gate.
- `GatewayTypeCorrect`: the request and the service call inside it agree.
- `RevocationsShutTheGate` and `OnlyTheAllowedChange`: `RevokedIsRefused` and
  `ChangesByTheAllowed`, from the inductive `GateInv`, which adds what is known of a
  gate that is about to open. `StalenessExplained` gives the grounds of an answer that
  comes from the cache, `AnswersOnceTrue` that the actor once had the permission, and
  `HistoryGrows` that this stays so until the handler commits.

`OutboxProofs` proves, for any numbers of transactions, rows and ids, under
`OutboxAssumption`:

- `OutboxTypeCorrect`: `Spec => []TypeOK`.
- `EventsReplayTheTable`: `Spec => []ChangesReplay`. The inductive invariant `IInv` adds four
  facts to it: an id is given out once (`IdsOnce`), a row is locked by one effective
  change at a time (`OneChanges`), a statement that changes the table would still
  do so until its transaction ends (`ChangesHold`), and the ids of a row's
  events are above those already committed while the lock is held (`LockedIdsGrow`).
  The last is why the order of ids is the order of the changes: an id is drawn
  after the lock is taken and before it is given back. `IInv` was checked with TLC first.

`SignupAssigns` is covered by the theorems about the service and its routes: it owes an invalidation that nobody will
issue, so it is one of the causes that `Explained` lists, and it is why
`OnlyTheAllowedChange` excepts changes that satisfy `OnlyDefaultRoles`.

`RateLimitProofs` and `AccountsProofs` prove, for any limit, window and bound of the
clock, any sets of users, emails, clients and goroutines, under `RateLimitAssumption` and
`AccountsAssumption` (the seeded id is an id):

- `AccountsTypeCorrect`: `Spec => []TypeOK`. To be inductive it takes `TaskUsers` (the user
  whom a Signup or an update is about has a row), on which the foreign keys rest.
- `LimitHolds`: `Spec => []AtMostLimit`, by `LimitInv`: a request concerns a window that has
  begun (`KeysHaveBegun`), an expiry never comes before the end of the key's window
  (`LivesItsWindow`: EXPIRE counts from the time it is carried out), and until then the
  counter is not behind what was admitted (`CountsAdmitted`).
- `OrphansAreExplained`: `Spec => []OrphansExplained`, inductive with the types.
- `EmailsAreUnique`: `Spec => []OneAccountPerEmail`. All actions but `CreateUser` keep who
  has which email (`EmailsStand`).
- `DeactivatedStaysOff`: `Spec => []StaysOff`, by `OffInv`: of a user in `off` no update
  that read the row as active is under way.
- `MissingRoleIsExplained`: `Spec => []RolelessExplained`, by `RoleInv`, which adds `SeededOnce`:
  once deleted the seeded role does not come back, since ids do not; while it is there it
  is the only developer role, and a Signup about to assign assigns that one.

`SessionsProofs` proves, for any finite sets of goroutines and token pairs, any
lifetimes and any bound of the clock, under `SessionsAssumption`:

- `TypeCorrect`: `Spec => []TypeOK`.
- `SignedOutTokensStayOut`: `Spec => []SignedOutStaysOut`, by `OutInv`: a Logout about to store
  what it measured will store an expiry that is not before that of the token,
  because the clock only moves on in between.
- `ReplaysOverlap`, `OneLiveToken`, `LogoutEndsTheLogin`: `ReplayOnlyByOverlap`, `OneLivePerLogin` and
  `LogoutEndsLogin`, by one inductive invariant, `FamilyInv`. It says that parents and logins
  of tokens are tokens (`Descent`); that a Refresh about to issue has revoked
  (`ReissueRevoked`); that a login none of whose tokens was exchanged twice has one token
  that was not exchanged (`OneLeaf`), so that it is a chain and only its end can be
  alive; and that no Refresh is left of a token that a Logout revoked (`EndedForGood`).
  `ReplayOnlyByOverlap` is inductive because a Refresh leaves `Rotating(t)` in the step in which
  its child comes in, and nobody joins once t is revoked.

`EventPipelineProofs` proves, for any finite set of events, any servers, batch size, limit
of retries and bound on faults, under `PipelineAssumption`:

- `NothingInvented`: `Spec => [](TypesInv /\ ToldInv)`. `TypesInv` is `TypeOK` without the
  bookkeeping (processes, `again`, `faults`), with what a consumer owes the broker (`Owed`): a delivery in hand
  or settled by a frame that was not read is unacked, so an ack never settles what was
  not delivered. `ToldInv` says that rows of a batch, frames, queued copies and messages in
  hand are of committed events.
- `PipelineImplementsTrail`: `Spec => ImplementsAuditTrail`, from the two. Every step but
  `CommitEvent` and `HandleAudit` is a stutter of `AuditTrail`.
- `EventsAccounted`: `Spec => []Accounted`, by `KeptInv`. A row is marked as sent only when its
  message is on the wire or was read (`MarksKept`); an ack is sent, or about to be, only when the
  event is recorded or a copy with one retry more is before it on the same wire
  (`HandsGrounded`, `AcksGrounded`). So when the last copy with some number of retries
  goes, an outcome or a copy with more retries is there (`LastCopy`), and a frame lost with its
  connection takes the ack behind it along.

`EventCountsProofs` goes on from there and counts, under the same assumption:

- `PipelineTypes`: `Spec => []TypeOK`, by `CountsInv`, which adds the bookkeeping to `TypesInv`.
- `PipelineSettlesOnce` and `PipelineBoundsNotifications`: `Spec => []SettledOnce` and
  `Spec => []NotificationsBounded`, for one replica (`Server = {s}`), any faults, any finite
  set of events and any limit of retries. The argument is a double-entry account. Of every
  message it counts the copies that may still become something (`Copies`: ready, or delivered
  and open; `Pubs`: on the wire), and of every event the publish that is to come
  (`ToCome`). `Open` is the delicate one: on a working connection an unacked delivery
  counts until its ack is written or about to be, since the connection's loss brings it
  back; on a dead one, whose deliveries come back and are paid for by `again`, only what its
  handler may still do with it counts, and a nack not yet read. `NextLedger` says that every step of the
  program makes one of six entries: a row is published (`Starts`), a message reaches
  its queues (`Routes`), a copy goes on with one retry more (`Resends`), ends as a row or
  a dead letter (`Ends`) or as a notification (`Notices`), or copies are lost, or come again
  and `again` pays for them (`Thins`). `Balanced`, that outcomes and copies together stay within the
  bounds, is then preserved by each entry (`StartsBalance`, ...). For notifications a copy with
  r retries weighs what it may still cost: maxRetries - r in audit.queue, one more on the wire.
  Two facts about one replica are needed besides: the rows of its batch differ and are not
  sent yet (`BatchOK`), so a row is not published twice unless `again` counts it; and
  notifications are never republished or rejected (`NoNacks`).
  The sums over retries are cardinalities of sets of pairs (`Tokens`), so the facts about
  them (`SumAdd`, `SumPlus`, `WeightedLe`) follow from those about finite sets, without
  an induction.

Only model-checked: liveness (`EventuallyFresh`, `EventuallySettled`), which is out of the proof
system's reach. Every other property of the passing runs is a theorem.

## 5. Not modelled

- Analytics: the bindings of its queue match no event that the code produces.
- Configuration, logging, metrics, tracing, the form of answers and errors: input and
  output without state that a property could be about.
- Queries that only fill an answer (the lists of users, roles, permissions and audit
  rows, and their paging), and `RoleRepository.DetachPermission`, which nobody calls.
- The columns of an audit row. Which payload field becomes the actor is an observation above.
- Cryptography and randomness: signatures, hashes and passwords are taken to hold, and tokens,
  jtis and UUIDs never to repeat.
- Clocks that disagree. Each module has one clock or none.
- `proto` (contracts of services that do not exist yet), the dashboard, and deployment, of
  which only the two replicas matter here.

## 6. Plan

Every component that keeps state is modelled, and every property of the passing runs but
liveness is a theorem. What is left is the staleness bounded by the expiry: a clock in the
cache, and in `Authorization` a bound on how long `shown` may lag behind `granted` once
nothing writes it.
