# lazyFGA: models, checks and proofs

lazyFGA is an authorization server in front of OpenFGA. Admins draw a model, publish it,
name the questions applications may ask ("policies"), grant roles and connect identity
providers; applications ask one endpoint for decisions. The Go API (`src/apps/api`) keeps its
own tables in Postgres and everything about tuples and models in one OpenFGA store. No
operation spans both in one transaction, most handlers are several SQL statements without
one, and several API processes may run: this is where the difficult behaviour is, and what
the modules here are about.

## The system's parts

| part | state it keeps | operations | what makes it correct |
|---|---|---|---|
| boot (`app/app.go`) | `storeReady`, the tries | migrate, find or create the store, record it, bind the client; retry, degrade or exit | the schema comes before the store, the recorded store before any client; every boot ends |
| migrator (`db/migrator.go`) | Drizzle's journal table, the advisory lock | apply what is missing | each migration once, whoever boots |
| gateway (`openfga/gateway.go`) | store id and client of the process | Bootstrap, Check, Read, Write, WriteAuthorizationModel | nothing goes to OpenFGA without a client; calls are pinned where it matters |
| publish (`modules/model`) | `model_version` rows, the pointer in `instance_config` | publish, list, read, diff | row and pointer appear together, no 201 without a row, no orphan without a trace |
| policies (`modules/policy`) | `policy` rows | create, edit, delete | one policy per (permission, resourceType), each offered by a published model |
| evaluation (`modules/pdp`) | none | evaluate, batch, explain | an answer is made under one published model, an error says what it means |
| grants (`modules/permission`) | tuples in OpenFGA | grant, revoke, two listings | grants fit the published model; idempotent |
| identity sync (`modules/idp`) | connections and rules; tuples in OpenFGA | webhook; CRUD of connections and rules | an event acknowledged is an event done; rules are owned and fit their connection |
| audit (`audit`, `modules/auditread`) | `audit_log` rows | record, page through | a record tells a change that happened |
| tokens (`modules/auth`, `httpx/auth.go`) | `service_token` rows | issue, list, revoke, authenticate | a revoked token authenticates nobody |
| contract, compiler | none | decode and validate bodies; ModelIR to DSL, conditions to CEL | agree with the TypeScript twins |
| model editor (`apps/web`, `packages/shared`, `packages/compiler`) | the model, what is selected, whether it is read-only | edits of types, relations, roles, permissions and conditions; import and export of DSL | no edit leaves a reference to what is gone; what is exported comes back as it was |
| demo CLI, other web panels | none | call the API | outside the server |

How they interact. Every request handler reads and writes Postgres through its module's
repository and OpenFGA through the one gateway. Publishing writes OpenFGA, then Postgres.
Policies, evaluation and grants read the published model through `CurrentVersion`, and pass
its id to OpenFGA (pinning); the webhook does not, so OpenFGA validates its writes against
the newest model it holds, published or not. All modules hand records to the audit recorder,
which inserts each in a goroutine of its own.

What is hard: two systems and no transaction, so partial failures and lost answers; handlers
of several statements, so stale reads between them; several processes booting, dying and
waiting for the same lock or row; an identity provider that delivers again. PROJECT.json
lists these hazards line by line, with the properties that are about each.

## The plan

| step | modules | state |
|---|---|---|
| 1. publishing, and what it promises to the rest | `PublishedModel`, `ModelPublish` | modelled, checked, proved |
| 2. policies and decisions on top of the published model | `PolicyStore`, `Evaluation` | modelled, checked, proved |
| 3. the boot everything rests on | `Bootstrap` | modelled, checked, proved |
| 4. tuples: identity sync, its configuration, grants | `IdpConfig`, `TupleSync` | modelled, checked, proved |
| 5. explain: the search for a witness beside writers of tuples | `Explain` | modelled, checked, proved |
| 6. tokens and authentication | `AuthTokens` | modelled, checked, proved |
| 7. what is collected in pages beside writers: the audit log, the listing of grants | `AuditLog`, `GrantListing` | modelled, checked, proved |
| 8. pure algorithms against reference definitions: conditions, models, diff, grants, signatures, the mapping engine | `ConditionContract`, `ModelContract`, `ModelDiff`, `GrantContract`, `WebhookSignature`, `EventMapping` | modelled, checked; all but the conditions proved |
| 9. the editor of models in the browser | `ModelEditor` | modelled, checked, proved |

`PublishedModel` is the abstract specification: one atomic action `Publish`. `ModelPublish`
implements it (refinement by `published <- versions`); `PolicyStore`, and through it
`Evaluation`, extends it, and `TupleSync` instantiates it. So the decision path and the
tuple path are checked against what the publish handler is shown to implement, and not
against the handler's ten steps once more. Further abstract specifications worth stating: a
set of tuples as what grants and revokes promise, and a log as what paging promises.

## The modules

Every operator that stands for code is listed in PROJECT.json under `map`, with its lines.
Definitions whose comment says "Seeded bug" are not part of any specification: each is a
plausible mistake in the definition that follows it, kept so that one can see the property
that notices it (PROJECT.json, `mutants`).

**PublishedModel.** `current` and `published`: the pointer and the rows of `model_version`,
as every other module sees them through `CurrentVersion`.

**ModelPublish.** `POST /model` on several processes. One action per step of `publishModel`
and `InsertVersion`: reject (422), write the model to OpenFGA (done, failed, or done with the
answer lost), BEGIN and INSERT, UPDATE of the pointer (which takes the singleton row's lock),
COMMIT (done, or done with the answer lost), the record and the answer. `Crash` takes a process
and everything it runs at any point; Postgres then rolls its transactions back. `created_at`
is the time the transaction began, which is what `ListVersions` sorts by. A model is named
by the request that writes it, as a request writes at most one.

**PolicyStore.** `POST`, `PUT`, `DELETE /policies`: a session per admin request, one step per
statement (look up, look up again, merge, clash, target, write, record). A merge
happens in the step that reads the row it merges with. `BreaksUnique` is the UNIQUE
constraint. The INSERT, the UPDATE and the DELETE are single statements that commit by themselves.
`Fail` is a failure before any change; `AnswerLost` and `DeleteAnswerLost` are the statement that takes
effect while its answer is lost, upon which the caller gets a 500 and no record is written; `RecordLost`
is a death of the process between change and record. `trail` is the balance of the log for each id, its
creations less its deletions, and `None` once a change of the id went unrecorded.

**Evaluation.** `evaluate`: read the model, read the policy, Check with the model read
first. What OpenFGA decides is open (allow or deny), since no property here depends on it;
whether the pinned model defines the relation is not.

**Bootstrap.** `App.bootstrap` of processes that share one Postgres and one OpenFGA. The
migrator's steps outside the transaction (look, create) and inside it (lock, read, commit);
the gateway's candidate, lookup, creation, upsert and binding; `withRetry` around each half,
with its bounded tries, degraded mode and exit. `CREATE ... IF NOT EXISTS` is modelled as
Postgres runs it, a look and then an insertion into a catalogue with unique indexes.
`StoreNotFound` is always possible at the lookup because `storeExists` takes any error for
absence.

**IdpConfig.** The tables `idp_connection` and `idp_mapping_rule`, and the requests that edit
them. What a PUT on a rule has read, and whether it was checked, stays in `editor` until its
UPDATE. A template stands for event type, predicates and tuple template together; a rule's
fit with a preset is the set of attributes the preset produces.

**TupleSync.** The webhook and the grants together, as both change the same tuples. A
delivery is admitted by the connection as it is then, reads the rules later, and
applies the effects of the matching ones in the order of priority, each in one call.
Effects of one priority come in any order: `ORDER BY priority` does not say more. `Answer` is
what a call of the gateway returns, `Absorbed`, `Transient` and `Hopeless` are the three verdicts
of `ClassifyWriteError`. A call that fails on the way may or may not have had its effect
(`Ambiguous`). A grant validates against the published model and pins it; the webhook's
writes are checked by `latest`. OpenFGA's write and the handing over of its record are two steps, with
the reply in between: a delivery and a request wait at "record" while others may change the same
tuple. `trail` is the balance of the log for each tuple, its writes less its deletions, and `None` once a
change of the tuple went unrecorded (a call that failed on the way, a record that failed, a restart).
Publishing appears as its two writes. A delivery of the same event may start whenever the IdP likes,
also after its 200.

**Explain.** `context.reason`: after the deciding Check, `findWitness` and
`classifyRoleStep`, one action per call of OpenFGA, with the recursion as a stack of frames
and `OthersWrite` between any two calls. The type of an object is what its permission is
granted by and inherits from. `ever` remembers what was stored at some time since the
question; no action reads it.

**ConditionContract.** A condition of a posted model from its JSON to its CEL text: the shape
check (`NodeShape`), the decoder (`DecodeNode`), which decides for itself whether a node is a
group, the static rules (`ConditionErrors`) and the rendering (`NodeToCel`). The reference is
the truth value of the document, comparison by comparison.

**ModelContract.** `ValidateModelIR` rule by rule, `EmitDsl` as the relations it defines, and
OpenFGA's own check of a model: every reference defined, every relation with an entry point, and
its limits. OpenFGA's rules on names are kept apart from the code's: `Malformed` are the names it
does not read, `BadName` those that `ident.go:9` and the reserved words refuse, `TooLong` those beyond OpenFGA's
lengths, of which the code knows nothing. A permission's relation has a limit for its name with `can_`.

**ModelDiff.** `DiffModels` on two stored models; it extends `ModelContract` for their shape.
The reference is the set of facts that one model has and the other lacks. Two stored models
are valid ones. A name that turns from a group into a resource type or back is excepted
(`KindKept`): the code says nothing of it, as nothing of conditions and a group's members.

**GrantContract.** The body of a grant or a revoke, its validation against the model, and what
OpenFGA takes under the DSL of the same model. A condition comes with a context, which the code
passes on as it is (`permission/routes.go:181`): whether it fits the condition (`Fitting`), and whether
a subject or a resource is too long (`Oversized`), only OpenFGA finds out.

**GrantListing.** Both listings of `GET /grants`, page by page, type by type, while others grant
and revoke. `steady` and `seen` remember what was held all the while, and at some time. A row
that is read keeps the number of its page, so that a tuple told twice is told apart. A page
that is full may have a token though nothing is left.

**AuthTokens.** Calls with a header, from `RequireRole` to their answer: lookup, handler and
`TouchLastUsed` are steps of their own. The endpoints that create, list and revoke tokens are
among the handlers. A call remembers which tokens its caller could know to be revoked when it
arrived (`late`).

**AuditLog.** Records between the begin and the commit of their INSERT, and an admin who
pages. A record's time is taken at the begin, so records appear behind a reader's cursor.
Times are half milliseconds, as the column rounds and the cursor cuts off. LIKE is defined by
the pairs of positions of text and pattern up to which both fit (`Like`), the only function of
its kind, as the provers see through no other recursion.

**Lists.** Sorting and filtering of lists by definitions the provers can open, for the modules
above and below that are proved about.

**WebhookSignature, EventMapping.** `VerifyWebhookSignature` over the presets' specs and three
others of the tests, with digests as free constructors and secrets that decode and that do not
(`hmacKey` then has the empty key); then `ExtractEvent`, `matchRule` and
`renderTuple`. `EventMapping` begins with the connection's row and admits through `Verify`.
What recurs in the code, a path taken key by key and placeholders filled one after the other, is a
recursive function, so that the provers can follow it; `JsonValues` are the bodies and all that is
in them.
`TupleSync` starts where it ends: at the effects of an admitted event's matching rules.

**ModelEditor.** The web application's model store: every operation of `edit.ts` as an operator
on a model, called as the canvas, the matrix and the condition panel call it, and `parseDslToIr`
on the types and relations that `EmitDsl` of `ModelContract` gives. The derived state (DSL text,
errors) is a function of the model and is left out. Two things to know: a box of the matrix
writes a role's subjects anew, without the conditions they had (`BuildRefs`); and the one kind of
reference that edits leave hanging is an inheritance over a parent type that has no permission of the
name. Removing or renaming the permission there brings it about (`edit.ts:211` says that nothing
refers to a permission's name), and so do connecting a parent and turning the inheritance on; the
validation reports it (`PARENT_MISSING_PERMISSION`), so it is for the user to repair, and
`EditsLeaveNoOrphan` leaves it out. Names that are whole numbers, whose order as keys of an
object is not that of the text, are excluded (`NoWholeNumbers`).

**MC modules.** `MCModelPublish`, `MCEvaluation`, `MCBootstrap`, `MCTupleSync`, `MCRequests`, `MCExplain` give the
constants small values and bound what is unbounded. Two of them have a variable `scenario`,
chosen at the start and never changed: it selects which of two groups of actors is at work,
so that one run covers two instances that would be too large as one. `MCRequests` does the
same with `part` for the eleven parts of step 5 to 9. They share no variable and call one another
only as operators, so nothing is lost by looking at one part in a behavior.

## The runs

| run | expected | what it shows |
|---|---|---|
| `publish` | pass | three publishes (one invalid), two processes, one crash; 140,320 states |
| `publish_newest` | violation of `NewestIsCurrent` | the pointer need not be the first of the version list |
| `evaluation` | pass | two models, two policies, two admins at one time; and the same admins one by one beside an evaluation; 120,964 states |
| `boot` | pass | two processes, one with a configured store, two migrations, two tries, one crash; 191,115 states |
| `boot_store` | violation of `StoreIsKept` | one failed GetStore replaces the instance's store |
| `boot_race` | violation of `NoBootLosesRace` | two first boots, and the loser of the race for the bookkeeping table exits |
| `sync` | pass | two events, one delivery at a time, a grant or revoke, a publish and one fault; and two edits of connections and rules beside the deliveries; 58,639 states |
| `sync_unbound` | violation of `NothingIsDropped` | an event that comes before the client is bound is answered 200 and lost |
| `sync_redelivery` | violation of `RedeliveryIsHarmless` | an event delivered again restores what a later event removed |
| `idp_orphan` | violation of `NoOrphanItem` | two PUTs, each checked against a stale rule, leave `{{item}}` unbound |
| `requests` | pass | the parts of step 5 to 9, one in a behavior, eleven groups of behaviors; 348,461 states |
| `explain_depth` | violation of `CleanWitnessIsFound` | a resource reached first over the longer branch is not searched again over the shorter one, so a path within the depth is missed |

The seven violations are disagreements between the code and a sentence of the repository's own
documents or comments; PROJECT.json quotes the sentence under `findings`.

What the properties of the passing runs say:

- publish: `PointerIsSet` (the UPDATE never misses its row), `AcknowledgedIsDurable`, `OrphansAreExplained` (every model
  without a row is accounted for), `ImplementsPublishedModel` (refinement), `EveryPublishEnds`.
- evaluation: `UniqueTargets`, `TargetsWerePublished`, `OnlyEditsRetarget` (a create that lost
  its race does not take over the row), `PoliciesAreRecorded` (the log accounts for every policy, but
  for an id one of whose changes lost its answer or its record),
  `UnknownRelationIsSkew` (the integrity issue is always a model replaced under a policy),
  `DecisionUnderOneModel`.
- boot: `AppliedOnce`, `RowBeforeClient`, `EveryBootEnds`.
- requests: `ExplanationNamesStoredTuples` (each tuple named was stored since the question, and
  they link up), `QuietDecisionIsExplained` (complete when nothing moves, unless the hierarchy
  is deeper than the search), `EveryExplanationEnds` (also on cycles),
  `AcceptedConditionMeansItsTree`, `ValidModelIsAccepted` (a model that passes the validation is refused
  by OpenFGA exactly when it is beyond a limit of OpenFGA's or has groups that contain only each
  other), `ValidGrantIsWritable` (a grant that passes is refused only for a context that does not fit
  its condition or for the length of an id, and nothing assignable is refused),
  `DiffTellsEveryChange`, `ListingMissesNothing`, `RevocationIsFinal` (whoever comes after a 204 is not
  served, and finds the token listed as revoked), `PagingIsExact`, `AcceptedIsAuthentic`
  (accepted exactly when signed and recent; a secret that does not decode where the spec wants base64
  counts as none, whatever the comment at `signature.go:173` says), `RenderedTupleSaysItsRule`,
  `EditsLeaveNoOrphan` (no group, role, parent type, parent relation or condition is referred to
  that is not there; inherited permissions that the parent type lacks are left to the validation) and `ImportRestoresTheModel` (a valid model's DSL is read back as that model,
  editable, with everything in its order, unless a resource type looks like a group).
- sync: `RulesAreOwned`, `UncheckedEditsAreLost`, `GrantsFitPublished`,
  `NothingIsDroppedOnceBound` (a 200 is final, but for what the latest model refuses),
  `RecordsAreChanges` (the log accounts for every tuple whose changes were all answered and recorded,
  whoever else changed it between an answer and its record), and
  `EventIsAcknowledged`.

### Bounds, and why they are enough

- Two publishes already race for the row and its lock; the third is there so that one may
  fail validation, or wait behind two others. Two processes, so that one dies and the other
  goes on. `CrashBound = 1`: a death affects nobody's state but the rolled-back transaction's,
  so a second one repeats the first with fewer requests.
- Two admins and two policies: a clash needs two. Two models, of which the first offers what
  the second does not: a publish can add a target or take one away, depending on the order.
- Two boots, `Latest = 2` migrations (one pending and one applied differ), `Attempts = 2` (a
  retry, and a last try) instead of 8. `Store` has an id more than the boots can create, so
  that running out of ids never hides a behaviour.
- `MCTupleSync`: the configuration starts with one connection and three rules, which the admin
  requests of the scenario "edits" change (`EditBound = 2`; two concurrent edits of one rule
  in `idp_orphan`); the scenario "traffic" has `FaultBound = 1` restarts, outages or lost
  deliveries, two models of which only the second accepts the granted tuple, so a webhook
  meets an orphan model. `IdpConfig`'s tables could begin empty as well; it would only
  add the edits that fill them. One delivery at a time in the run: several deliveries are in
  the proofs, and a delivery overtaken by another is one that is lost and comes again.

- `MCRequests`, explain: a diamond of parents with a chain and a cycle below, of which every
  subset of the tuples is a start; `MaxDepth = 2`, so that paths within and beyond the depth
  exist, and one write by others. Listings: pages of one tuple, three places, two models that
  differ in what is assignable. Tokens: two calls and one token, as every hazard is about what
  a second call sees of the first; the proof has any number. Audit: three records within a
  clock of two half milliseconds, pages of one; negative and fractional limits. Conditions: nodes up
  to three levels deep with each kind of mistake, models and grants over a small vocabulary
  with reserved and repeated names, grants with contexts that fit and do not, names, ids and a number of types beyond the limits,
  signatures at both ends of the tolerance and one beyond, with secrets that decode and one that does not,
  event bodies with each JSON kind in each place. Editor: from a sample with a self-parent, an
  inherited permission, a group in itself and a condition on both a group and a role, up to three edits
  (`EditsBound`): a name, a relation that uses it, and its removal. Five texts to import, three
  of which the editor opens read-only, each for another reason.

### Fairness

- `ModelPublish`, `Bootstrap`: weak fairness of each handler's own next step. Go runs its goroutine
  and a call returns, with an answer or an error; Postgres grants a lock that is free. No
  failure is assumed to happen, so nothing is saved by a convenient error: in
  `EveryPublishEnds` the row lock is freed by its holder or by the holder's death, in
  `EveryBootEnds` the advisory lock by the commit or the rollback.
- `Explain`: weak fairness of the request's next call; the others need not write, and may write
  no more than `ChangeBound` times only in the run (`EveryExplanationEnds` does not rest on it:
  the search is bounded by its stack and its visited set).
- `TupleSync`: weak fairness of a delivery's handler, of OpenFGA coming back from an outage,
  and strong fairness of the delivery of an event that is not acknowledged, as the IdP sends
  it until it gets a 2xx and a handler takes it each time the connection admits it. Outages, restarts and lost deliveries are finite
  (`FaultBound`); with infinitely many no retry helps. The binding of the client is not
  assumed: a process that stays degraded acknowledges too, which is what `sync_unbound` shows
  to be wrong.

`CHECK_DEADLOCK FALSE` in all configurations: requests, crashes and edits are bounded, so
these systems come to rest.

## The proofs

TLAPS checks, for every value of the constants that the named assumptions allow:

| module | proved |
|---|---|
| `ModelPublish_proofs` | `TypeOK`, the three invariants of the run, `VersionsAreWritten` (no row without its model), and that every step is a step of `PublishedModel` or a stutter |
| `Evaluation_proofs` | `TypeOK` (with that of `PolicyStore`), the five invariants of policies and evaluations, and the action property `OnlyEditsRetarget` |
| `Bootstrap_proofs` | `TypeOK`, `AppliedOnce`, `RowBeforeClient`, and `MigratedFirst` (no process reads or writes `instance_config` before the whole schema is there) |
| `TupleSync_proofs` | `TypeOK`, the four invariants, `RecordsAreChanges` among them, and the action property `NothingIsDroppedOnceBound` |
| `Requests_proofs` | tokens: `TokenTypeOK` and `RevocationIsFinal`; audit log: `AuditTypeOK` and `PagingIsExact`; signatures: `AcceptedIsAuthentic`; mapping: `RenderedTupleSaysItsRule` |
| `Model_proofs` | publishing: `ValidModelIsAccepted`; diff: `DiffTellsEveryChange`; grants: `ValidGrantIsWritable`; listing: `ListingTypeOK` and `ListingMissesNothing`; editor: `EditorTypeOK`, `EditsLeaveNoOrphan` and `ImportRestoresTheModel` |
| `Lists_proofs` | lemmas only: what a sorted, a filtered and a flattened list contain and in which order, that a filter takes a joined list apart again, what comes of putting texts for the items of a text, and what is reached in rounds |
| `Explain_proofs` | `ExplainTypeOK`, with the bound of the stack, `ExplanationNamesStoredTuples` and `QuietDecisionIsExplained` |

All follow one scheme: an invariant `IInv` that the initial states satisfy and every step
keeps, with one step of the proof per action, and the theorems as consequences. What has to be added to
the properties to make them inductive is the same everywhere: where a handler stands tells
what it has done.

- ModelPublish: a stage implies whether the model is written and the row committed
  (`ModelFollowsStage`, `VersionFollowsStage`), the holder of the row lock is the one
  transaction that is past its UPDATE (`LockFollowsStage`), and whoever has a client finds the
  singleton row (`ConfigFirst`), which is why the UPDATE never misses.
- Evaluation: sessions hold well-formed targets and, once past the check, a target that a
  published model offers (`Validated`); rows are never removed from `published`, so this
  stays true although the model checked against may be replaced before the write. An evaluation's pin was
  published when it began (`EvaluationsArePinned`).
- Bootstrap: the holder of the advisory lock is the only process between reading the journal and
  committing (`LockFollowsStage`), so what it found missing is still missing
  (`PendingIsMissing`); either no migration is applied or all are (`Blank \/ Migrated`).
- TupleSync: the configuration has an invariant of its own (`ConfigInv`), to which a rule's
  fixed connection is added (`EditsHaveRules`): a rule that is still stored when its PUT looks for the
  connection has a stored connection, so an unchecked edit is of a rule that is gone, and ids
  do not come back. For the tuples, a request in progress holds a tuple that the model
  it pinned allows, and that model stays published (`InProgress`). `RecordsAreChanges` is inductive as it
  stands, with the handlers that wait for their record counted in: an answered change adds one to them, its
  record moves that one to the log. The action property follows because an effect leaves a delivery that
  goes on only by one of four steps, and each of them settles it.
- AuthTokens: what holds of a call by itself (`CallStands`): it has changed a row that is there, what
  its caller had been told is so, and nothing it could know to be revoked has let it in. Rows
  only go forward (`RowsGrow`), so this survives the steps of other calls; and a row is revoked
  by one call (`OneRevokes`).
- Explain: every frame was entered by a tuple of the frame below it, and every parent that
  waits was read from such a tuple (`StackStands`); the groups that wait were read with the
  role at the top. All of it is about `ever`, which only grows, and so it outlives the writes
  of others. The path is the stack, read from the bottom, when the search is told.
  While nothing is written (`QuietInv`, which TLC checked on the run's instance before it was proved): every
  resource that was visited either is on the stack or was tried with all its roles and has all its
  parents visited (`Progress`), and a frame below the top accounts for the parents it still has to
  enter. So when the search comes back to the root empty-handed, the resources it visited
  are closed under parents and none has the role; what Check allows is a least fixpoint
  (`AllowedWithin`) and misses all of them, the root too. Unless the depth guard turned away a
  parent that was not visited: then the stack and that parent are the chain that is too deep (`TooDeepIsDeep`).
- GrantListing: of the type being read, everything steady up to the place of the token is on a
  page (`ReadStands`); of the types no longer on the list, everything steady is told
  (`EntriesStand`), which needs that no type is on the list twice; and the row of a steady tuple
  is the one that is held, on one page (`RowsStand`). A tuple that is revoked and granted again
  is no longer steady, so the writes of others disturb none of it (`ReadsOn`).
- AuditLog: what is shown is in the order of time, all of it is in the log and fits the
  question, and everything that was there at the start and fits is shown or comes after the last one shown
  (`ReaderStands`). That a cursor cuts off half milliseconds does no harm because the column has
  none: all stored times are whole milliseconds, which is part of the invariant. What a
  query finds is what was asked for (`FilterIsWanted`) because LIKE with an escaped prefix is
  that prefix (`LikeIsPrefix`), by induction over the text and over the pattern.
- ModelDiff: the names of a valid model are unique (`ValidNames`), so a type, a role and
  a permission stand for one record each; then both sides of `DiffTellsEveryChange` are
  compared kind by kind (`RolesOfKind`, `GrantsOfKind` and their like).
- ModelContract: the compiled types and the relations of each have names of their own, allowed ones
  (`TypeNamesStand`, `RelationNamesStand`), and what a relation refers to is there (`ResourceStands`),
  so that only the entry points are left (`AcceptedWhenEntered`). OpenFGA's entered relations and
  the groups that have users are each the least set its step does not leave: rounds that only add
  to a finite set settle after as many as it has elements (`RoundsSettle`). Each is therefore in the other
  (`UsersEnter`, `EnteredHasUsers`): a set that one step does not leave gives one for the other.
- GrantContract: the relations `EmitDsl` defines for a valid model are its roles, parents,
  permissions and "member" of each group, once each (`RelationsOfResource`, `RelationOfGroup`); so
  OpenFGA takes a tuple exactly when one of the assignable references is for it (`TakenFits`), and
  that is what the rules on subjects and conditions have found (`OkFits`).
- ModelEditor: the invariant (`EditorInv`) is that an editable model has its shape and is sound: what
  the validation reports of orphans is restated as what refers to what, type by type (`ModelSound`;
  `ModelSoundMeans` says it is the same), so that an edit can be judged by the types it touches. Every
  operation of `edit.ts` keeps that (`Keeps`, one lemma per operation): those inside one
  resource type because its name, and what other types may rely on, stay (`EditKeeps`); those that
  change references everywhere because they change them all in the same way
  (`RefsThroughSound`); the deletion of a type because what referred to it goes with it, up to the permissions that
  inherit over a relation that has lost its last parent type (`DisconnectedSound`,
  `RemoveTypeSound`). An import needs no such argument, as only a text without errors is editable, but what
  it reads has the shape of a model (`ParsedIsModel`).
- ModelEditor's import: what `EmitDsl` writes for a reference, a parent, a role, a permission reads back
  as that (`SubjectsBack`, `ParentBack`, `PermissionBack`). The three kinds of relations exclude each other in
  a type that is `Readable`, as every resource type of a valid model is (`KindsOut`,
  `ValidIsReadable`): parents and roles differ in their subjects because no type is named "user", permissions
  in having a union because none is granted to no role. So the filters of `parseDslToIr` take
  the relations apart as they were put together (`ThoseMiddle`), and likewise the types into groups and
  resource types (`ModelBack`), for only a type with no relation but "member" is taken for a group, which a
  valid resource type without permissions alone can be (`NotAGroup`).
- WebhookSignature: a digest tells the key and the text it was made with, as digests are free
  constructors; and from a text that a preset's template yields one can read off which
  template it was, the body, and the time and the id if they are in it (`TextsTell`), as no time looks like a
  placeholder. Keys tell the secret, or that there is none, and whether it was decoded (`KeysTell`).
- EventMapping: what is rendered is a function of the body and the rules the delivery came with
  (`MappingInv`), so all of it is about what the functions return. An event has texts where
  templates look for them (`ExtractTyped`), as every path through a body leads to a part of it, to
  nothing or to a length (`PathStays`). The placeholders are filled one after the other, each in all
  that has become of the text so far; that this is filling them at once, as long as no value
  looks like a placeholder, follows by induction over those filled (`FillStep`), because to put texts for
  the items of a text and then for those of the result is to do both in one (`SpreadTwice`). What a
  template begins with up to its colon has no placeholder and stays (`SubstituteKeepsHead`). How many
  tuples a rule renders is counted in the flattened list of all of them (`PiecesCounted`).

Assumptions on constants are named (`GrantListingAssumption`, `ExplainAssumption`, `TokenAssumption`, `PublishAssumption`, `ModelAssumption`,
`PolicyAssumption`, `MappingAssumption`, `BootstrapAssumption`, `IdpAssumption`, `SyncAssumption`, `AuditAssumption`): they say that
the marks (`None`, `Keep`, `Blank`, `Gone`) are different from real values, give the
constant functions their types, that a published model names every type once, and, in `SyncAssumption`, that a template that refers to
`{{item}}` does not render without one. TLC evaluates each of them.

`ExplainAssumption` says that objects and groups are finitely many and the permission is
defined for the resource asked about, `TokenAssumption` that the other things a header may hold are
no tokens. `StoredAssumption` and `GrantAssumption` say that stored models have passed the validation, as publishing
sees to it, and that the identifiers a grant may not have are among the names a model may not
have. `ModelContractAssumption` gives the models their shape, says that "member" and "user" are well-formed
names, that "none", which stands for the empty string, is not (in `from` it marks the operand that has
none, so a relation of that name could not be told from it), that different permissions have different relations (`can_` is put before the name),
that what OpenFGA cannot read `ident.go` refuses, a good permission with its `can_` included, and that "user" and
"member" are within OpenFGA's lengths; which other names are, it leaves open.
`EditorAssumption` says that names are strings, no type is named "", and texts are documents of types with
relations; `NoWholeNumbers`, that no relation or condition has a name that JavaScript takes for an index (no proof needs
it: the model's lists have no keys; it says for which names the model is the code's); `DraftsAssumption`, that the models a user begins with have none of the errors that edits
are shown not to bring about.

`SignatureAssumption` says most: a spec is put together as the presets are (what it signs is to be
had, a secret has a prefix exactly where it is base64); secrets are not empty and have
different texts; a value in a header that is a digest was made by someone with one of the secrets or with
none, over what one of the specs signs; no placeholder is a number, and no id of a delivery is the
placeholder `{body}`. The last two exclude headers for which the replacing of placeholders one after
the other (`signature.go:229`) could sign another text than the sender's. The other three specs of `requests`,
which the tests use and no preset has, are put together in this way too.

`MappingAssumption` says that `JsonValues` has the parts of its members and that scalars have texts,
that rules have their types, and that a placeholder is one character that neither an identifier nor a type prefix may
have, other than the colon. The provers do not know that a literal is a string: `"user"`, the subject type
of the presets, is therefore named among the characters of texts (`Char`) beside `STRING`.

Only model-checked: the liveness properties (`EveryPublishEnds`, `EveryBootEnds`,
`EventIsAcknowledged`, `EveryExplanationEnds`), which are beyond the prover;
`AcceptedConditionMeansItsTree` (`ConditionContract` has RECURSIVE operators, which a module with theorems
must not reach); and the violations. `RequestsTypeOK` is proved conjunct by conjunct, one for each part with a
state of its own.

## What is not modelled, and why

- OpenFGA's evaluation of a Check, conditions and contextual data: OpenFGA's own work; the
  code passes them through.
- The batch evaluation, which runs the evaluation once per item, and the reasons of a denial,
  which come from the model alone.
- The JSON shape of groups, resources, roles and permissions in `model_decode.go`; keys that
  differ in case and null values, which Go's decoder treats as other keys do or as absent. Where
  a document has keys of the other kind of node besides its own, the property of conditions is
  stated for those that decode (`SurplusKeysFit`).
- The audit records of deliveries that change nothing (`idp.tuple.skip`, `idp.tuple.error`,
  `idp.webhook.no_events`) and of configuration edits: no property is about them yet.
- The text of the DSL (spacing, the conditions' parameter lists), the texts of numbers and
  times, and the TypeScript twins of the Go contract and compiler: held together in the repository by golden files.
- The demo's seeding and the web application's other panels: sequential clients of the API. Of
  the editor: the inside of a condition, positions on the canvas, texts that are no DSL (they
  leave the model as it is), and DSL the editor has no form for beyond the five texts.
- Routing, body limits, configuration, health of the database, shutdown: input and output
  without shared state. The user interface: rendering.
