# Formal models of poc-plattform-kit

TLA+ specifications of the platform's own logic: the NestJS API host
(`apps/api`), the pillars it composes (`pillars/*`), the generated client and the
settings page of the web application that call it, and the e-mail provider. Every module names in
its header the TypeScript it translates. TLC checks the modules on small
instances; TLAPS proves the theorems listed below for every value of the
constants.

## 1. The system

The API runs zero to two replicas (docs/architecture/overview.md) that share a
SQL database, an OpenFGA store and Service Bus topics, and no lock. An operation
that spans more than one database statement, or a statement and a call to
OpenFGA, Microsoft Graph or Service Bus, therefore interleaves with itself on
the other replica, and a crash may cut it short anywhere. That is what the
models are about.

| Component (source) | State | Operations | Talks to | Hard part | What makes it correct |
| --- | --- | --- | --- | --- | --- |
| Outbox drainer (`apps/api/src/messaging`) | six outbox tables (`claimId`, `claimedAt`, `processedAt`, `failedAt`); one drain in flight per replica | timer, claim, send, mark, quarantine, release | rows of every pillar, Service Bus | claim leases, takeovers, crashes, lost acknowledgements | at-least-once delivery; a drain within its lease owns its rows; duplicates only from faults |
| Permissions service (`pillars/permissions/src/permissions.service.ts`) | OpenFGA tuples | check, one-time consumption, grant, revoke | OpenFGA | a check is up to four requests, each racing others | a one-time marker is won once; clean-up spares other grants |
| Access requests (`access-request.service.ts`) | `AccessRequest` rows, audit, outbox | create, expire, approve, deny, compensate | permissions service, manager chain | saga over table and OpenFGA | decisions final and announced once; approval owned; grant and row agree |
| Role assignments (`role-assignment-command.service.ts`) | assignment rows, tenant revision, command log, outbox | PUT, DELETE, replay, synchronize, reconcile | OpenFGA | idempotency keys, optimistic revision, late synchronization | one command per revision; the last owner stays; synced means true |
| Tenant groups (`tenant-group.service.ts`) | group, membership rows, outbox | add, remove, delete group, reconcile | OpenFGA | write order of row and tuple, passes racing requests | events tell rows; settled rows agree with OpenFGA |
| Tenant invitations (`tenant-invitation.service.ts`) | invitation rows | sweep and create, revoke | outbox | sweep, duplicate check and insert are three statements | a conflict is real; an invitation leaves pending once |
| Tenants (`tenant.service.ts`) | tenant, slug, owner membership | create, update | outbox | slug and quota races | quota of the self-service route; a refused slug was taken |
| Manager chain (`manager-chain.service.ts`) | TTL cache | resolve | Graph | entries age apart, walks interleave | a chain ends for a reason, without cycles |
| E-mail sending (`forward-email.provider.ts`) | none | send with retries | Forward Email | lost answers, timeouts, cancellation | copies only for lost answers, bounded attempts |
| Contact name change (`contact-name-change.ts`) | in-memory store and outbox | change name, dispatch | a publisher | overlapping dispatches and transactions | entries published in order |
| Authentication and tenancy (`apps/api/src/single-sign-on`, `permissions`, `pillars/tenant/src/tenancy*`) | user rows, throttler hits | route, throttle, authenticate, resolve tenant, authorize | permissions service, Entra | six layers that decide one after the other | only entitled callers are served |
| Generated client (`packages/api-client`) | client's tenant, cached answers | 32 calls | the API | client, controllers and manifest are kept apart; the cache key lacks the tenant | a call reaches its handler; a key names its rows |
| Access administration reads (`apps/api/src/access-administration`) | none | list page by page | tenants, groups, assignments, OpenFGA | five sources read at different moments | nobody missed or told twice; rights neither hidden nor invented |
| Tenant settings page (`apps/web/src/features/tenant-settings`) | query cache, draft | look up, edit, save | the client | late answers and refetches | a save is a draft of what is shown |
| Web bearer session | token cache in a module | acquire, sign out | Entra | acquisition racing sign-out | no token after sign-out |

The remaining parts (other web pages, audit and reporting stubs, forms, DTO mapping, database
package, branding, host plumbing, marketing site, scaffolds, infrastructure,
scripts) keep no protocol of their own. `PROJECT.json` lists every component
with its status, and under "hazards" the lines where the hard behaviours bite.

## 2. Modules

`OpenFgaStore` is the shared model of OpenFGA: a set of tuples and Write
requests that are all or nothing, refused when they write a tuple that exists
or delete one that does not (`PermissionsService.openFgaWrite` and its callers
rely on both). `PermissionGrants`, `AccessRequests`, `RoleAssignments` and
`TenantGroups` extend it. `Def_Something` next to a definition `Def` is a faulty
variant of it, kept to show that a property notices that mistake; nothing but
that use refers to it.

### OutboxDelivery and OutboxDrainer
`OutboxDelivery` is the contract of the transactional outbox, without replicas,
claims or leases: a committed event is on its topic before it counts as
published, and only an event that does not parse is set aside; rows in
`Promised` are settled in the end. `OutboxDrainer` is
`OutboxDrainerService.drainOnce` with `PrismaOutboxStore`: `StartDrain` (the
timer, `inFlight`), `FindCandidates` (the query), `ClaimRow` (one conditional
UPDATE per candidate), `Quarantine` / `Send` / `MarkPublished` /
`ReleaseAndAbort` (the loop of `drainSources` and its error path), `SourceDone`
(next table). `Crash`, `Restart`, `DrainError`, `SendRefused`, `SendRejected`
and `SendUnacknowledged` are the environment. Instants are kept as ages
(`claimAge`, `age`), which decide the same comparisons and stay bounded. A
replica stands for the claim id it drew, because it has one drain in flight and
drops the id when that ends. Messages are "parses" or "does not" and "accepted"
or "never accepted" (`Malformed`, `Rejected`).

### PermissionGrants
`check` is `StartCheck`, `CheckAction`, `CheckMarker`, `Consume`, `Cleanup`: one
action per OpenFGA request. `Grant` and `Revoke` are one request each. `Expire`
is the condition on a temporary tuple. `Abandon`, `ConsumeUnacknowledged` and
`CleanupRefused` are unanswered or refused requests and dying replicas.
`origin`, `written`, `issued`, `consumed`, `allowed` and `revoked` are history.
`GrantLifecycle` is the contract: per coordinate one value, none, durable,
one-time or claimed, and the four ways it may move. `Lifecycle` reads that value
off the tuples: an action tuple beside a marker is a one-time grant, one without
is durable, or claimed if it was written as a one-time grant (`Standing` in
`OpenFgaStore`).

### AccessRequests
One action per statement, transaction or OpenFGA request of `create`, `approve`
and `deny`: `FindPending`, `Insert`; `RequirePendingDecision`, `MarkExpired`,
`Claim`, `Grant`, `Finalize`, `Revoke`, `RollbackApproving`; `Deny`.
`ConsumeMarker` and `CleanUp` are the checks of `PermissionGrants` seen from
here. Who may decide (the manager chain and the tenant's administrators) is a
free choice, so the properties hold whatever it answers. `lost`, `compensated`,
`spent` and `origin` are history. `AccessContract` extends `GrantLifecycle` with the
requests: asked, then denied, lapsed or approved once, with a grant given for an
undecided request only, and no claims, calls, compensating steps or faults.
`Contract` maps approving to pending, keeps the decider of approvals and denials
only, and says for which request each standing tuple was written.

### RoleAssignments
`StartCommand`, `LookUp` (the recorded command of the Idempotency-Key),
`Transact` (the serializable transaction: recheck of the key, If-Match, last
owner, `Store`), `ReadRow`, `SetTenantRole`, `Recheck`, `MarkRow` (synchronize),
`StartPass`, `NextRow` (reconcilePending of the minute timer). The model is one
tenant. `OwnersBy` is whom the last-owner check counts: the people whom a
`TenantMembership` makes owner (`MemberOwners`), users with an owner assignment and
the synced members of groups with one (`Humans`); memberships and group members are
fixed while the commands run. Where somebody is owner by membership the check lets
every assignment go. `TenantService.create` (199-205) gives every tenant it makes
such a membership and nothing deletes it, so the check decides only for tenants that
came into being otherwise. `Inherited` are assignments whose role the principal also has
through another tuple: infra/openfga/model.fga makes the check after a refused
write say yes for those. History: who is `behind` has read a row, or taken its flag
from a command, that a later command changed; `stale` are the assignments whose
tuple was written, or whose row was marked, by one that was behind.

### TenantGroups
One group and its memberships. `Create` and `Update` (a rename) are one transaction each. An addition writes the row, then the tuple
(`Insert`, `AddTuple`, `RecordSyncResult`); a removal reads the row, asks
whether the group is an owner, revokes the tuple if the row was synced, marks
the row pending and deletes it (`StartRemove`, `GuardOwner`, `RevokeTuple`,
`Unmark`, `DeleteRow`); deleting the group does this for the rows listed as
synced and then deletes all rows (`ListMembers`, `NextMember`, `DeleteGroup`);
`StartPass` and `NextRow` are reconcilePending. `SetOwner` is a role command for
the group elsewhere.

### ApiClient and RequestPipeline
`ApiClient` has one definition per generated function: method, path, operation,
declared status, and, for a hook that reads, when it runs and under which key its
answer is cached. Identifiers go into the path as they are, without encoding, so an
identifier is the sequence of its segments, of any number; `WholeCalls` are the calls
whose identifiers have one. `RequestPipeline` takes a call through the client and the host:
`CustomFetch` (URL and headers are read before the token is awaited), `Arrive`
(session, TenancyMiddleware, routing in the order the controllers are registered,
throttler), `Authenticate`, `Persist` (the user upsert), `Guard` (RolesGuard,
PermissionsGuard with the manifest), `Handle` (ClaimTenancyInterceptor and the
service's own checks; an owner is one by membership or, for changes of owner access,
in OpenFGA), `Replay`, `Receive` (the query cache). `world` is who is
signed in and what rights are stored; it is free over fourteen sign-ins and does not
change while requests run. What a handler does with its rows is left to the
other modules.

### TenantLifecycle
A creation is `Create`, then per attempt `CountOwned` (self-service only, the
snapshot of a serializable transaction) and `Commit`, `SlugConflict` or
`SerializationFailure`. An invitation is `Invite`, `Sweep`, `FindPending`,
`InsertInvitation`; a revocation `Revoke`, `CommitRevoke`. `swept` and
`responses` are history.

### ManagerChain
A walk is `getManagerChain`, then per link `Look` (cache), `Fetch` or `FetchFails`
(Graph) and `Store`. `Reorganise` is the directory, `Age` the clock; `ever` is
history.

### ForwardEmailSend
`send`, `Attempt`, `Accepted`, `ErrorStatus`, `TransportFailure`, `Abort` (the timer
or the caller), `Backoff`; `ProviderAccepts` and `Cancel` are the environment.
`unheard` (acceptances whose answer did not arrive as one) and `late` (attempts begun after the
caller's cancellation) are history.

### ContactNameChange
`changeName` takes the transaction's copy of all contacts, `CommitChange` puts it
back whole, `FailChange` drops it; `dispatchPending` lists the entries, `Publish`,
`PublishFails` and `markProcessed` work through them. The list is in the order of the
entries, so the set `left` of those still ahead and its least element say the same.

### TenantSettings
The page's handlers (`handleLookup`, `Edit`, `handleNameSubmit`) and the effect that
fills the draft, over a small model of `useQuery` (`Answer`, `AnswerIsError`,
`Refetch`, paused queries included). `OthersSave` is another administrator. The
settings form is modelled; the form of the name has the same draft.

### AccessAdministration
A page is `MayRead`, `listMemberships` (cursor and limit), four reads in any order
(`openFgaRead` page by page, `openFgaReadFails` when one is refused: all its tuples
are then left out) and `RespondPage`. `TenantChanges` are members joining and synced
group memberships, assignments and their tuples coming and going meanwhile. User ids
are cuids, lower case, for which the sort of line 82 and the comparison of line 84
of the service order alike; for ids of mixed case they would not, and a page could
skip users.

## 3. What TLC checks

MC modules add the symmetry sets and the table layout. Each run's bounds are in
its cfg.

| Run | Bounds | Shows |
| --- | --- | --- |
| `outbox_safety` | 2 replicas, 3 rows in 2 tables, batch 2, lease 1, drains up to 2 ticks, 1 lost outcome, 1 refused send | types; `OutcomeIsTrue`: published rows are on the topic, quarantined ones malformed; `LeaseHeld`: within the lease no one takes a row; `SettledIsFinal`; every step is a step of `OutboxDelivery` |
| `outbox_live` | as above, drains within the lease, row 3 never accepted | `DuplicatesArePaidFor`: copies beyond the first are at most the crashes and lost answers; `ImplementsDeliveryLive`: the contract's liveness for all rows ahead of the rejected one |
| `grants` | 2 checks, 2 coordinates, 2 one-time grants each, 1 fault | a marker is claimed at most once; no more one-time tuples outlive their markers than there were faults (`ResidueIsPaidFor`); every step is a step of `GrantLifecycle` (`ImplementsLifecycle`): the clean-up clears only a claimed grant, and nothing removes a durable one |
| `request_safety` | 2 calls, 2 requests for one coordinate, 1 approver (who may act twice at once), 2 failures (the compensation of a failed finalize may fail itself), 1 crash | audit and outbox tell the status, claims exclusive, a one-time grant has its request; each fault costs at most one approved request its grant (`ApprovedIsGranted`), each crash strands at most one in approving (`ApprovingIsOwned`); every step is a step of `AccessContract` (`ImplementsContract`), so decisions are final |
| `role_safety` | 2 calls, 1 pass, 2 owner assignments, 3 keys, 1 unanswered request | one command and one event per revision, recorded commands never change, and the events alone tell which assignments the table has (`OneCommandPerRevision`); no step takes the last owner unless somebody who was behind wrote or marked an owner (`LastOwnerStays`); a synced row is true unless somebody who was behind wrote its tuple or marked it (`SyncedIsTrue`), and a third command may change a row back meanwhile |
| `role_live` | 1 call, 1 pass, 1 owner beside one by membership, 1 inherited role, 2 faults, 1 crash | every row whose role is not inherited is synced in the end |
| `group_safety` | 2 requests, 1 pass, 1 user, 2 rows, 1 rename, 2 failures (outages, lost answers, crashes) | events tell exactly which rows exist and the group's name until its deletion; synced rows had their own write accepted; where nothing raced or was lost, table and OpenFGA agree once everybody is done |
| `pipeline` | every call of the client with every combination of 2 tenants, an item, empty identifiers and identifiers of several segments, beside a second request; 14 sign-ins; throttle of 1 | calls reach their handler, and one with a slash in an identifier a handler that a call with plain identifiers reaches as well; an answer is filed under a key that names its rows although the tenant header changes; only entitled callers are served |
| `platform` | each of the parts below alone | |
| - creations | 3 creations by 2 users, 2 names, 2 attempts, quota 1 | `QuotaHolds`; a slug is refused only when every candidate was taken (`ConflictIsReal`) |
| - invitations | 3 invitations and 2 revocations of one address, lifetime 1, clock to 2 | `ConflictIsReal`, `LeavesPendingOnce` |
| - chains | 2 walks over 4 employees of whom 3 have a manager at first, 1 reorganisation, depth 2, lifetime 1 | `ChainEndsForAReason` |
| - mail | 2 retries | `CopiesArePaidFor` |
| - renames | 3 renames, 2 dispatches, 1 failure | `PublishedInOrder` |
| - settings | 2 tenants, 2 versions, 2 saves | `SavesWhatIsShown` |
| - access | 3 users (1 without a row of its own), 1 group, 2 assignments, pages of 1, 2 changes | `PagesTellTheTenant` |

Why these bounds are enough to be interesting: two replicas (the deployment's
maximum) with drains longer than the lease make takeovers, stale marks and
stale releases happen; a batch of 2 over 3 rows in 2 tables makes the abort of
a batch and the skipping of later tables happen; two calls on one row or one
coordinate, together with one or two failures and (where the code has one)
a reconciliation pass, produce every pairwise race, and the mutants show that
each property can fail within its run. The parts of `platform` share no state, so
their interleavings with each other add nothing; exploring each alone is what keeps
the run small. Three creations are what a limit of one needs for a racing pair behind
a taken slug; four employees and a depth of two let a walk be cut off below the top;
pages of one user over three make two page boundaries. The proofs below remove the
bounds from every safety property.

Bounds in guards: `MaxCopies`, `MaxLosses`, `MaxRefusals`, `MaxDrain`
(OutboxDrainer), `MaxIssued`, `MaxAllowed`, `MaxFaults` (PermissionGrants),
`MaxFaults`, `MaxCrashes` (AccessRequests, RoleAssignments), `MaxRows`,
`MaxUpdates`, `MaxFailures` (TenantGroups), `Limit` with the requests in flight (RequestPipeline),
`MaxClock`, `MaxAttempts` (TenantLifecycle), `MaxTime`, `MaxMoves` (ManagerChain),
`MaxRetries` (ForwardEmailSend), `MaxFailures` (ContactNameChange), `MaxVersion`,
`MaxSaves` (TenantSettings), `MaxChanges` (AccessAdministration). Finitely many
`Request`s and `Idempotency` keys bound the rest: only a fresh key can change
the revision.

### Runs that end in a counterexample
Three runs confront the code with what the repository says of it.

* `one_time_once` (`OneTimeSingleUse`): two checks of one one-time grant are both
  allowed. The second reads the action tuple before the first's clean-up
  (permissions.service.ts:320) and the marker after the first deleted it (312),
  and takes the grant for a permanent one (307-308).
* `role_owner` (`TenantKeepsOwner`): a late update by id alone
  (role-assignment-command.service.ts:361) marks a re-assigned owner synced whose
  tuple is gone; the last-owner check counts it and the last real owner goes, where
  no membership makes anybody owner.
* `group_orphan` (`RemovedIsRevoked`): a removal that read its row before it was
  synced deletes the row and leaves the tuple (tenant-group.service.ts:267).

### Known behaviour without a run
The models contain these; no comment, test or document of the repository
promises otherwise, except where the entry says so, or a run above already
shows the cause.

* Revoke names the marker and the action tuple in one all-or-nothing request
  (permissions.service.ts:236), so a permanent or temporary grant, which has no
  marker, is never deleted, against pillars/permissions/README.md:19.
* Two creates that both find no pending request both insert
  (access-request.service.ts:136), against the conflict that
  access-request.controller.ts:39 documents.
* A permanent approval whose finalizing fails keeps its tuple: the compensation
  is that revoke. `OneTimeGrantIsBacked` is therefore about one-time grants.
* A crash between claim and finalize leaves a request approving for good;
  `ApprovingIsOwned` shows that each crash strands one at most, and nothing else any.
* A grant whose reply was lost is reported as not given. The request is pending again,
  the grant stands for nobody, and OpenFGA refuses every approval of the coordinate
  until it is used; `OneTimeGrantIsBacked` exempts such coordinates (`lost`).
* A compensation deletes whatever one-time grant stands for its coordinate, also one
  written since for another request, which is then approved without it;
  `ApprovedIsGranted` bounds how many.
* A drain that outruns its lease shares rows with the replica that takes them over,
  and both may send them without any fault. How often is bounded by nothing in the
  code; `outbox_safety` shows that neither a settled row nor the contract suffers, and
  `DuplicatesArePaidFor` counts copies for drains within the lease.
* A refetch or late answer replaces the draft on the settings page, and what was typed
  is lost; `SavesWhatIsShown` says that what is saved is never of another tenant or
  version.
* An identifier with a slash reaches another route than its function was generated
  for: `t1/groups`, typed for a tenant on the settings page, is answered with that
  tenant's groups, and `g1/members/x` for a group removes a member where the function
  was to delete a group. `ReachesItsHandler` bounds this by what calls with plain
  identifiers reach, `OnlyEntitled` shows that the handler checks the caller as ever.
* Deleting a group removes rows added after its members were listed, and a removal
  racing an addition deletes a row (`group_orphan`): both leave the tuple, and
  `SettledIsExact` exempts the user (`muddled`).
* Rows behind one the bus never accepts, and later tables, get no turn;
  `OutboxDrainer!Unblocked` names the rows that are promised delivery.
* Revoking a role that is also inherited is never recorded as synced.
* A group addition whose answer was lost fails on every retry
  (`addTenantGroupMember` does not check after a refusal), so the row stays
  failed while the user is a member; `muddled` exempts it from `SettledIsExact`.
* The owner role may be given to a group between the check and the removal, so
  docs/permissions.md:42 holds only while no role command races with it.
* An expired temporary tuple blocks later grants of its coordinate.
* Two concurrent renames over the in-memory contact store: the later commit puts its
  whole copy back and reverts the other, also when it is of another contact.
* A timeout of an e-mail attempt is marked retryable and not retried, and a
  cancellation during the backoff reaches the caller as the signal's own reason.
* A page of the access listing combines rows and tuples read at different moments,
  so a group role can appear that nobody ever had at once, and its
  `consistencyVersion` may be of a later state than its assignments
  (dto/access-administration-response.dto.ts:63 calls it the versions used to build
  the projection). A failed OpenFGA read is answered like an empty one.

## 4. Fairness

* `OutboxDrainer!Spec`: weak fairness of each replica's timer, of its drain's
  next step, of its restart, and of the clock. `setInterval` fires again and
  again, an awaited database or bus call settles, the platform restarts a
  replica. Sends get no fairness of their own: a replica may always be overtaken
  by the clock, and refusals and losses are bounded, as outages end.
* `RoleAssignments!FairSpec`: weak fairness of each call that has begun and of
  each reconciliation pass (the minute timer).
  Nothing makes a client send a command. Failures are bounded, so a pass
  eventually runs without one.
* All other runs check safety under specifications without fairness.

## 5. What is proved

Every invariant and every safety action property of the passing runs is a theorem
of its specification, and so are the refinements: the drainer implements the safety
part of `OutboxDelivery`, the permissions service `GrantLifecycle`, the access
requests `AccessContract`. The theorems hold for any number of replicas, rows, calls,
requests, coordinates, users and failures: the constants are arbitrary under the
named assumptions of the modules.

| Assumption | Says of the code |
| --- | --- |
| `RowAssumption`, `WorkerAssumption`, `BoundAssumption` (OutboxDrainer) | rows are numbered and each is in one table; a message never accepted parses; batch, lease and bounds are numbers; "none" is no replica |
| `GrantAssumption`, `RequestAssumption` | requests ask for grant types there are; what is permitted by role is a coordinate; "none" is none of the things stored; the bounds are numbers |
| `RoleAssumption`, `GroupAssumption` | requests are no reconciliation passes; owners and inherited roles are assignments, each owner with the people it makes owners; "none" is none of the things stored |
| `LifecycleAssumption` | attempts, the limit of self-service tenants and the lifetime of an invitation are positive; every name has a slug |
| `ChainAssumption`, `MaxRetriesAssumption`, `ContactAssumption`, `SettingsAssumption` | depth, lifetime and bounds are numbers; "nobody" is no employee |
| `AccessAssumption` | users are finitely many and ordered; pages have at least one entry |
| `IdentifierAssumption` | an identifier is a sequence of at least one segment |
| `PipelineAssumption`, `NoneIsNoOperation` | finitely many requests, each offered calls of the client; a user entry is a user; "none" is no operation or right |

* `OutboxDrainerProofs`. The inductive invariant `Inv` is the type invariant,
  `MemoryInv` (a drain at rest holds nothing; a row at "sent" has a copy; a claim
  is on an unsettled row), `RowInv` (columns are set in order), `OutcomeIsTrue`
  and `LeaseHeld`. `LeaseHeld` needs the ages: a takeover requires a claim older
  than the lease, and the claims of a drain are exactly as old as the drain. From
  it: `TypeCorrect`, `OutcomeCorrect`, `LeaseCorrect`, `NoSharing`,
  `SettledCorrect`. `DuplicatesCorrect` adds `CopyInv`: copies are at most the
  losses, plus one that is covered by a mark made or about to be made.
  `Refinement` shows that every step maps to a step of `OutboxDelivery` or a
  stutter.
* `PermissionGrantsProofs`. `StoreInv` (a marker stands only beside its one-time
  tuple; a check that cleans up still has that tuple, so no one can have written
  the coordinate anew), `CountInv` and `ResidueInv` (the tuples without a marker whom
  nobody cleans up are at most the faults: each fault adds one, no other step does)
  give `TypeCorrect`,
  `ConsumeCorrect`, `CleanupCorrect`, `ResidueCorrect`. `LifecycleRefinement` maps
  each action to a move of its coordinate or a stutter; `StoreInv` is why the
  clean-up finds a claimed grant. `SerialUse` is the claim that `one_time_once` refutes,
  under the circumstances in which it is true: if no two checks of a coordinate
  are ever under way together and nothing fails, a coordinate that is not permitted
  by role and only had one-time grants is allowed at most once per grant. Its
  invariant, `UseInv`, says that a grant whose marker stands, or that a check has
  found or claimed (`Reserved`), has not been counted as allowed yet.
* `AccessRequestsProofs`. `CallInv` ties what a call remembers to an existing row;
  with it `EventsCorrect`, `ClaimCorrect`, `DecisionCorrect`. `GrantInv` ties
  table and OpenFGA: `StoreInv` (whose a tuple is), `ApprovalInv` (what an
  approval in progress has written), `AgreeInv` (the two properties row by row),
  giving `BackedCorrect` and `GrantedCorrect`. `GrantedCorrect` also counts: with
  `LossInv`, compensations under way and approvals without their grant are together
  at most the failures, since a failed finalization begins one and a revocation turns
  it into the other. `OwnedCorrect` follows from exclusive claims and `StrandInv`:
  only a crash takes a call from its row. `ContractRefinement` goes by the two halves of the contract's
  state: what a statement or transaction does to the requests (`ContractRows`), and
  what a request to OpenFGA does to the grants (`ContractStore`), with `KindInv` (what
  has a marker, or is being cleaned up, was written as one-time). `GrantsKeepLifecycle`
  follows, since a step of the contract moves one coordinate or none.
* `RoleAssignmentsProofs`. `SyncedIsTrue` says nothing of work in progress, so a
  step that marks a row could break it. `SyncInv` adds what a worker knows:
  whoever is not behind has the flag its row still has (`KnowsFlag`), and past an
  accepted write OpenFGA has it too, unless the assignment is stale
  (`HasWritten`). `KnowsFlag` needs that a pass has every row once (`WorkInv`) and
  that what is in hand has a row (`RowInv`). `NumberInv` (revisions are given out
  in order, and the events tell the table) carries `OneCommandPerRevision`. `LastOwnerStays` needs
  `OwnerInv`: while OpenFGA has an owner, so has what table and OpenFGA agree on, so
  that the deletions still to come leave one; the check secures it, because an owner
  it counts is synced, and with `SyncInv` has its tuple. Theorems: `TypeCorrect`, `OwnerCorrect`, `SyncedCorrect`,
  `RevisionCorrect`, and `OwnerKept`: as long as no owner assignment is stale and
  the table counts on an owner, OpenFGA has one, so a late write or mark is the only
  cause of what `role_owner` shows.
* `TenantGroupsProofs`. `SettledIsExact` speaks of the moments when nobody works on
  a user. Its invariant, `SettleInv`, says for every user not `muddled` that tuple
  and row agree or one worker stands between its request and its record, and that
  every worker's row in hand or on its list is the row of the table (`Fits`).
  `WrittenInv` ties a worker at "ok" to an accepted write. `EventInv` restates
  `EventsTellRows` by positions in the outbox: the last event about a user is an
  addition exactly when there is a row, every removal directly follows an addition,
  a deletion is the last word about the group. Theorems: `TypeCorrect`,
  `EventsCorrect`, `WrittenCorrect`, `SettledCorrect`, and `UnracedRemovalRevokes`,
  which bounds what `group_orphan` shows: a tuple outlives its row only for a user
  whom a race, a lost answer or an ill-timed crash met.
* `TenantLifecycleProofs`. `QuotaHolds` needs that what a transaction counted is
  still there and leaves room, which the conflict of two serializable transactions
  secures; `ConflictIsReal` that every candidate before the present one is taken
  (`CreationInv`) and that a pending row a sweep has met had not expired
  (`InvitingInv`); `LeavesPendingOnce` that the request told of a revocation is
  one, and only of a revoked row (`RowInv`). Theorems: `LifecycleTypeCorrect`,
  `QuotaCorrect`, `ConflictCorrect`, `LeavesCorrect`.
* `PlatformProofs` has the five small components, each with its own invariant.
  `ChainInv`: a fresh cache entry was a line of the directory, and a walk's line
  is a path of such lines without repetition (`ChainCorrect`). `SendInv`: between
  attempts the copies are those of the unheard attempts (`CopiesCorrect`).
  `RenameInv`: what stands before an entry that a dispatch still has was published
  or is left to this dispatch too (`OrderCorrect`). `SettingsInv`: the effect has
  run for what is shown and left a draft of it (`SavesCorrect`). `AccessInv`: the
  cursor stands behind everybody on a page and before nobody it skipped
  (`CursorInv`, `UsersInv`), and what was read stood meanwhile (`SeenInv`)
  (`PagesCorrect`). `PlatformRunsComponents` shows that a behaviour of
  `MCPlatform` is one of each component, so that the run explores what these
  theorems are about; `PlatformTypeCorrect` follows.
* `RequestPipelineProofs`. First the tables: no two routes take one request
  (`OneRoute`), and every call of the client whose identifiers are single segments is
  covered by its own route (`CallsFit`, `WholeCallsFit`), from which
  `CallTakesItsRoute`; whatever a path with longer identifiers looks like, the route
  that takes it has a call with plain identifiers that sends the same
  (`RouteHasItsCall`); a path that ends in an empty
  identifier loses it and leads nowhere, unless the call is disabled or reads a
  list (`NoShorterRoute`). Then the request: `PipelineInv` says what a request
  has passed at each place (`Good`: its route, the caller, both guards, and, once
  answered, no more than its entitlement), that a cached answer tells what its call
  and the sign-in determine (`AnswersInv`), and that the throttler counts at most
  the requests that arrived. `ChecksEntitle` shows that the checks of guards,
  interceptor and service together imply the entitlement, and `OneKeyOneAnswer`
  that calls with one key are told the same. Theorems: `PipelineTypeCorrect`,
  `HandlersServeTheEntitled`, `CacheTellsTheKey`, `CallsReachTheirHandlers`. The
  routes, the manifest and the calls of the client are those of the source; the
  sign-ins, the rights, the filters and the identifiers, of any number of segments, are
  arbitrary.

Only model-checked: liveness under fairness (`ImplementsDeliveryLive`,
`EventuallySynced`), which the prover does not reach, and the three counterexamples.
`CleanupCorrect` and `DecisionCorrect` are theorems without a run of their own: the
runs check refinements that cover what they are about.
Modules with theorems have no recursive operator, so no theorem needs an induction
over data.

## 6. What is left

* Liveness (`ImplementsDeliveryLive`, `EventuallySynced`) stays with TLC: the prover
  reaches neither `ENABLED` nor weak fairness, so nothing about it holds beyond the
  bounds of `outbox_live` and `role_live`.
* The memberships of a group and the tuples they stand for could get a contract like
  `AccessContract`; `SettledIsExact` says what it would have to promise, and the
  races of section 3 what it could not.
* The composition of a handled request (`RequestPipeline`) with what its handler
  does to the rows: the modules meet at the handler's name only.

## 7. What is not modelled

`PROJECT.json` gives the reason per component. In short: other pages, stubs and
formatting have no state protocol; reads and lists change nothing; start-up,
deployment and repository scripts run outside the system; the bearer session
depends on what MSAL allows to overlap.

Left out within the modelled components:

* the wording and mapping of messages, the Azure token cache of
  `PermissionsService`, header validation;
* who may manage a group or decide a request: a free choice in the modules of those
  components, decided in `RequestPipeline`;
* updates of a group that keep its name;
* in the client: response types, refresh options, identifiers that hold
  `?`, `#`, dot segments or percent escapes, an answer that reaches the cache
  after a newer one of the same key, and the setter of the access token, which
  nothing calls;
* in the settings page: the draft of the name, and the moment a query without
  observers is dropped from the cache;
* in the tenant workspace page: "load more" appends a page that was asked for under
  an older search text;
* in the access listing: user rows that appear during a read.
