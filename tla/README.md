# A TLA+ model of the Project Context Server

The Project Context Server (`pcs`) keeps, for several AI agents and people at once, the
curated context of software projects: requirements with contracts and evidence, plans of
tasks that agents claim and complete, and a code index. A Python server answers agents over
MCP and browsers over HTTP; there are two web clients in TypeScript, the dashboard (`src/web`)
and the control panel (`src/pcs-control-panel-project`). This directory models the parts of
both sides in which concurrent actors, failures and ordering decide whether what is stored,
or shown, is right. It contains the TLA+ modules, the TLC configurations that check them on
small instances, and proofs, checked by TLAPS, of the most important parts for every size.

Paths are relative to the repository's `src/`. Shorthands: *server* is `server/src/pcs/`, *web*
is `web/src/`, *panel* is `pcs-control-panel-project/artifacts/pcs-control-panel/src/`, and
*generated* is `pcs-control-panel-project/lib/api-client-react/src/generated/api.ts`.

## Inventory of the system

| Component | State it keeps | Operations | Talks to |
|---|---|---|---|
| **Planning service** *server*`planning/service.py` | plans, tasks, dependency edges, claim token hashes, leases, events | create, activate, archive, complete a plan; add tasks and dependencies; claim, heartbeat, release, set status, complete; list, get, history | adapters; agents and browsers hold the tokens |
| **Requirements file sync** *server*`requirements/service.py`, `parser.py`, `template.py` | requirement rows, `requirements_sync_state` (next key, status snapshot), `requirements.md` in the repository | sync; write-through after every requirement change | people editing the file; context store |
| **Requirement contracts** *server*`requirements/contracts.py` | invariants, acceptance criteria, append-only revisions | create, update, delete of both | evidence is bound to revisions |
| **Evidence and close gate** *server*`requirements/evidence.py` | append-only evidence, violations | record, list, flag, resolve, evaluate the gate | git in the project's repository; `set_requirement_status` |
| **HTTP adapters** *server*`web_api/` | none | one service call per transaction; routes | services; both web clients |
| **Dashboard** *web* | one query cache, the route, what is open | 10 hooks with queries and mutations, refresh, the code map's locate | HTTP adapters |
| **Control panel** *panel* | one query cache, claim tokens in `localStorage`, dialogs, the page | the generated client, pages with queries and mutations, the plans page, the task graph, the code map tree | HTTP adapters |
| **Code map** *server*`codemap/service.py`, *web* and *panel* `lib/codemap.ts` | the graph a browser has merged | one tier of a project's files and imports; merge, locate, open | index |
| Context store *server*`context/service.py` | projects, entries, entry revisions | register, add, update, resolve, delete, set status, delete project | everything |
| Briefing, export, compliance | none | read-only reports | store, index, AI provider |
| Code index and watchers *server*`index/` | files, chunks, symbols, edges, one status row per project; one watcher task per project | reindex, status, watch | working tree, git, embedding provider |
| Search, guide | a cached guide | queries | index |
| AI settings *server*`ai_settings.py` | provider sections, encrypted secrets | load, update | providers |
| Plan draft generator *server*`planning/generator.py` | none | propose a draft | AI provider |
| Token savings, database layer, deployment, mock-up sandbox | measurements; the tables; none | | |

### What is hard

* **Interleaving.** Every process (one MCP server per agent, one HTTP server) talks to one
  PostgreSQL. Each operation is one transaction (*server*`db/base.py` `session_scope`); writers
  lock the project row (or the plan row) `FOR UPDATE`, readers do not lock and run several
  statements under READ COMMITTED.
* **Failure.** An agent crashes with a lease; a response with the only copy of a token is lost;
  the server stops between replacing `requirements.md` and committing; the directory is
  read-only; git cannot be read; a browser's call fails before or after it was served.
* **Things outside the database that move.** The clock, the file people edit, the worktree and
  HEAD of the repository while the gate asks git about them, the index under an open code map.
* **Ordering.** The last prerequisite of a join; a merge right after a change it does not know
  of; revisions ordered by the start of their transactions; an invalidation next to a fetch that
  read the old rows; answers merged in the order they happen to arrive.
* **Callbacks.** A browser's callbacks run in the closure of some rendering, or not at all once
  the component is gone or its hook has a newer call.

### What makes each component correct

* Planning: a task is worked on by at most one holder, only after its prerequisites, and an
  active plan does not get stuck by itself; the log explains every change.
* Sync: ids are unique and never reused, nothing is archived that nobody removed, file and
  store agree after a sync, a second sync is idle, the store owns the status.
* Gate: a requirement becomes done only on a contract that is met at that moment, what is
  listed is what decides, and no history makes done unreachable.
* Plans page: a token stays with the task it was issued for, no card stays disabled for ever,
  and the page offers what the server admits.
* Query caches: what a user has just done is visible or marked stale, and data of one project
  are never taken for fresh data of another.
* Code map: the merged graph is a graph, shows what was loaded, and a locate ends at its file.

The hazards, each at its line, are listed in `PROJECT.json`.

## Modules

| Module | Models | Source |
|---|---|---|
| `PlanTasks` | plans, tasks, dependencies, claims and leases; clients with their tokens, lost responses, crashes, the clock | *server*`planning/service.py` |
| `DagExecution` | abstract: an acyclic graph of tasks started after their prerequisites | none: what the planning service promises |
| `PlanLiveness` | fairness and progress of `PlanTasks` | *server*`planning/service.py` |
| `PlanAudit` | `PlanTasks` with the event history of every operation | `_append_task_event` and its callers |
| `PlanRead` | `list_ready_tasks` and `get_plan` statement by statement beside the writers | the two reads |
| `PlanClaim` | `claim_task` statement by statement, with the lock on the plan row and the session's objects, beside other claims and all other operations | `claim_task` |
| `PlanCalls` | composes `PlanRead` and `PlanClaim`: reads among the atomic operations, claims among the others | as those |
| `Kahn` | `_check_acyclic` step by step; `layoutDag`, the drawing of an accepted graph | *server*`planning/service.py:250`, *panel*`lib/planTasks.ts:107` |
| `PanelPlans` | composes `PlanTasks` with the browser: tabs, cached plans, tokens, dialogs, calls and answers | *panel*`pages/Plans.tsx`, `components/plans/`, `lib/planTasks.ts`, the client's `custom-fetch.ts` |
| `ServerApi` | the routes of the server, and which kinds of data each reads and writes | *server*`web_api/` |
| `QueryClient` | queries, keys, filters, places and operations: what the tables of both clients are written in | both clients, TanStack Query |
| `WebQueries` | the requests, queries, mutations and views of the dashboard | *web*`api/`, `hooks/`, `views/`, `components/` |
| `PanelApi`, `PanelQueries` | the generated client; the queries and operations of the panel's pages | *generated*; *panel*`App.tsx`, `pages/` |
| `QueryCache` | one cached query among navigation, fetches and operations | TanStack Query as both clients use it |
| `CodeMapGraph` | a tier of the code map at the server, and the merge and the search in both clients | *server*`codemap/service.py`, `lib/codemap.ts` of both |
| `CodeMap` | the code map view (locates) and the code map page (tree) over an index that is rebuilt | *web*`views/CodeMapView.tsx`, `lib/codemapDoc.ts`, *panel*`App.tsx` |
| `RequirementsSync` | the file, the rows and their merge; requests that write through, edits, crashes | *server*`requirements/service.py` |
| `CloseGate` | contracts, evidence, violations and the gate, with git moving | *server*`requirements/contracts.py`, `evidence.py` |
| `MC...` | constants and symmetry for TLC; `MCQueryCache` also turns the two clients' tables into relations | |
| `PlanTasks_proofs`, `PlanAudit_proofs`, `PlanRead_proofs`, `PanelPlans_proofs`, `QueryCache_proofs`, `CodeMap_proofs`, `RequirementsSync_proofs`, `CloseGate_proofs` | the theorems | |

An operator named `X_Y` (for example `Unlocked_BeforeFlush`) is `X` with a bug that a change of
the code could plausibly introduce. No specification refers to it; putting it in the place of
`X` makes the property it is listed with in `PROJECT.json` fail, which shows that the property
depends on the code doing what `X` says.

### How state and actions correspond to the code: the server

**PlanTasks.** One variable per column the operations decide on; `known[a]` is the set of tokens
client `a` received and still has. Every operation locks the plan row before the reads its
decision rests on, and takes the clock after its locks, so one call is one action; `claim_task`
is two, `ClaimTask` and `ClaimTaskResponseLost`, because the token travels in the response alone. That
a claim may be one step is not assumed: `ClaimsAreAtomic` of `PlanClaim` says it and `plan_calls` checks it.
`lease[t]` is the time left, so that `lease_expires_at > now` is `lease[t] > 0` and the instant
of expiry is 0. `Tick` takes one step from every lease. Tokens are compared by hash in the code and
by identity here. The unlocking of dependents (`Unlocked`) is part of `CompleteTask`, as in the
code, where autoflush writes the completed status before the query for dependents. Titles, goals,
priorities and requirement links are left out: no guard reads them.

**PlanAudit** adds the log to each action and keeps of it what a replay would conclude (the status
the history ends with, and whether it has a gap) and which tasks the last step logged. It adds the
two operations that only log: `update_plan_task` and a status set to what it already is. Its
specification has every step of `PlanTasks`, so `plan_safety` checks both on it.

**PlanRead** puts a reader beside `PlanTasks!Next`: it stands between two of its SELECTs, any writer
may commit, and its clock reading is the one it took at its start (`list_ready_tasks` takes `now`
first).

**PlanClaim** takes the claims of `PlanTasks` apart, one record of `req` for each call under way (`Calls`;
one client may have several): `ClaimStart`, `ClaimLockPlan`, `ClaimReadTask`,
`ClaimReadDeps`, `ClaimWrite` and the commit, any of which may be the last (`ClaimEnds`). The lock on the
plan row is held by the calls past `ClaimLockPlan`; every other operation takes it first, so one that
would change a locked plan waits (`LocksRespected`). `row` is what the session holds of the task: the
query under the lock fills it only if nothing did before. The clock runs during a claim, and the lease
that is committed is shorter by that time; `ClockStep` lets no claim outlive the lease it gives
(`MIN_LEASE_SECONDS` is 30). `update_plan_task` and the other operations of `PlanAudit` that only log are not
in it: they change no column that a claim reads. `PlanCalls` puts `PlanRead` and `PlanClaim` side by side
without interleaving their statements: a claim changes nothing that others see before it commits, and a
read changes and locks nothing, so to each the other is a step of `PlanTasks` or none.

**Kahn** keeps the multigraph with multiplicities, because bulk creation does not remove duplicate
edges before the check, and takes any member of the queue next, so it holds for every list order.
`depth` and `layoutDag` are the panel's recursion with its cut at cycles, as functions (`depth` of a pair:
a task and the path it was reached on); the memo is left out, and `LayoutLeftToRight` says that it makes
no difference.

**RequirementsSync.** A request holds the project lock, reads the file, merges, replaces the file
(`os.replace`) and commits; these are three steps, with edits by people between any two and a crash
after any. A row is key, text, status and life; a block is key, text, status and whether it can be
read. A text is a title with its prose; `Parts` says what the parser makes of its rendering: a
heading line inside the prose, which the server copies as it stands, becomes a block of its own, with
the id and the status token that are found there, if any (`Split`, `Quoted`; `nested` and `quoting` in the
instance). `Refused` says which texts the store rejects and `Kept` what a refused update leaves behind. `alloc` is any allocation of keys the `next_key`
loop can make.

**CloseGate.** Contract edits, `add_violation` and status changes hold the project lock from their
first locked read to the commit and are one step. `record_evidence` and the change to done call git
while they hold it and are several (`RecordLock`, `RecordEvidence`; `BeginClose`, `EvaluateGate`,
`CommitDone`), because HEAD and the diff are two git calls and the repository moves in between.
`record_evidence` and `add_violation` read the criterion or invariant before they lock
(`RecordRead`, `FlagRead`). `rev[c]` is the criterion's latest revision in the order the code sorts
them, by transaction start; `begun[c]` remembers the revision at which the transaction of a waiting
update began. `of`, the definition a row was recorded for, is read by no action.

### How state and actions correspond to the code: the browsers

**PanelPlans** runs the plans page on top of `PlanTasks`. A call, its service, its answer and the
next fetch of the plan are separate steps (`Press`/`SubmitClaim`, `ServeCall`/`RefuseCall`/`LoseCall`,
`ReceiveCall`, `RefetchPlan`), with agents, other browsers and the clock in between (`OthersStep`,
`TimePasses`). `Offers` is what `TaskCard` computes from the cached plan; `Admits` and `IsConflict`
are the guards of the server and the codes of `planning_error_response`. `heard` is FALSE once a
callback given to `mutate()` will not run: the page was left (`LeavePlan`) or the hook has a newer
call (`Unheard`). `now` is frozen between changes of `plan.updated_at`, as the `useMemo` of
`Plans.tsx:311` freezes it, so a lease that runs out while the page is open is not shown as
reclaimable: the properties speak of tabs that show the present (`ShowsPresent`). The expired-lease
rules and the token map are written as in `planTasks.ts` and `localStorage`, one store for all tabs.

**The query caches.** `ServerApi` lists every route once with the kinds of data it reads and writes.
`WebQueries` and `PanelQueries` list every request of a client, every query with its key and request,
every view or page with the queries it shows and the operations it offers, and for every operation
what its `onSuccess` does to the cache: the filters it invalidates and the keys its answer is written
to, before or after. `MCQueryCache` joins them: an operation *changes* a query if the route of its
request writes a kind that the query's route reads; its callback *refetches* a query if one of its
filters selects the key. `QueryCache` is then the life of one query, any of them, next to every kind
of operation that touches it, while the user navigates. It keeps the version of the data at the
server, in the cache and in an answer under way, the invalidated mark, and whether the cache holds
another project's answer. Operations with the same role next to a query are represented by one, and so
are places that the query and those operations cannot tell apart.

Of TanStack Query v5 the model assumes: `invalidateQueries` selects by a prefix of the key or by a
predicate, marks what it selects, and refetches what is shown, cancelling a fetch under way only if
the query has data; `setQueryData` cancels nothing and takes the mark away, and so does a
successful fetch; a component that appears loads its query or joins the fetch under way; the panel's
query functions take the abort signal, so leaving aborts them, and the dashboard's do not; callbacks
given to `mutate()` run only while their component is mounted and their call is the hook's latest;
those given to `useMutation` always run, in the closure of the latest rendering. These definitions are
marked external in `PROJECT.json`.

`OwnWriteShows` promises an operation's effect where the operation is offered and nowhere else.
`Forgotten`, in each of the two tables, names the data that the code itself leaves out, so that the
property holds of the rest: see *Smaller disagreements*.

**CodeMapGraph and CodeMap.** `GetCodeMap` computes the nodes, boundary nodes and edges of a tier from
files and imports, as `get_code_map` does. `MergeWeb`, `MergePanel` and `locateHit` are the two
`lib/codemap.ts`. In `CodeMap` one turn of JavaScript is one step: a locate runs from one answer to its
next request (`Proceed`), carrying the graph it captured when it was started, and two may be under way;
the root query's answers seed the graph again (`RootAnswer`), tiers are cached for good (`cached`), the
server reindexes (`Reindex`). The panel's tree opens directories and selects files and hits (`Open`,
`SelectFile`, `SelectHit`). `buildCodeMapDoc` computes the paths a reader can click.

## Runs

Each run is `tlc -config X.cfg M`. All end within five minutes on two cores.

| Run | Configuration | What it shows |
|---|---|---|
| `plan_safety` | `MCPlanAudit`, `PlanAudit.cfg` | Two clients, two plans, three tasks, leases of two steps: types, lease columns, prerequisites before work, no lost wake-up, acyclic graphs inside plans, one holder per token, tasks follow their plan, the list agrees with claim, no wedge, no step around the lease of a lost token; and the history of every task replays to its status without a gap, and every change of a row is logged but for one exception. |
| `plan_liveness` | `PlanLiveness`, `PlanLiveness.cfg` | With a running clock and nothing else, every lease whose token is lost ends (`OrphanedLeaseEnds`); the service implements `DagExecution` (`ImplementsDag`); under workers that keep polling an active plan is completed, with responses lost and workers crashing on the way (`PlanDrains`). |
| `plan_calls` | `MCPlanCalls`, `PlanCalls.cfg` | Calls statement by statement. A task that `list_ready_tasks` offers was claimable when its tasks were read, and one that was claimable throughout is offered (`ListingIsASnapshot`); a completed task in a `get_plan` answer never shows an unfinished prerequisite (`CompletedViewConsistent`). Two claims race, with every other operation between two of their statements, and each commit is one atomic claim of `PlanTasks` (`ClaimsAreAtomic`), so what the other runs and the proofs say of atomic claims holds of these. |
| `kahn` | `Kahn.cfg` | The queue algorithm accepts exactly the acyclic graphs, and the panel draws every accepted one from left to right without an empty column. |
| `requirements_sync` | `MCRequirementsSync`, `RequirementsSync.cfg` | Ids given out once, and written over two blocks only where prose quotes them, archive only after removal, agreement after a sync, an idle second sync, no status changed by a merge that nobody changed. |
| `sync_update` | `MCRequirementsSync`, `RequirementsSync_update.cfg` | Finding 1 (`UpdateIsKept`). |
| `close_gate` | `MCCloseGate`, `CloseGate.cfg` | Done by way of the gate only on a contract that is met (`DoneWasVerified`), evidence that counts is for the present definition unless the last update was overtaken (`StaleUnlessOvertaken`), the ledger and the gate agree, no history wedges a criterion whose kind is not review. |
| `gate_selfreview`, `gate_order` | `MCCloseGate`, `CloseGate_selfreview.cfg`, `CloseGate_order.cfg` | Finding 2 (`EveryGateCanPass`) and finding 3 (`UpdateMakesStale`). |
| `panel_plans` | `MCPanelPlans`, `PanelPlans.cfg` | The plans page against the service: a token is kept under, and sent for, the task it was issued for (`TokensFiled`); a disabled card waits for an answer that enables it (`BusyIsAnswered`); on present data the ready filter shows what the server would list (`ReadyFilterAgrees`) and the server admits what a card offers, but for two buttons (`OfferedIsAdmitted`). |
| `client_cache` | `MCQueryCache`, `QueryCache.cfg` | Both clients: what the user has just done, or refreshed, is in the cache or marked stale (`OwnWriteShows`); the answer for one project under another one's key stays marked (`ForeignDataIsInvalid`); every request reaches exactly one handler (`CallsRouted`). At its start TLC evaluates that both clients' tables meet `TablesSound`, the hypothesis of the cache theorems. |
| `code_map` | `MCCodeMap`, `CodeMap.cfg` | Both clients: no edge without its ends (`EdgesHaveEnds`), every file of a loaded directory is reachable through a real node (`LoadedIsShown`), and a locate of a file within its reach ends at the file or at a directory marked expanded before it was loaded (`FilesAreFound`). |

### Bounds and why they are enough

* Planning: three tasks give a join, a chain and a cycle through a third task; two plans give a
  dependency across plans; two clients the race for one task; two tokens a stale and a current
  one. A used token is fresh again once nobody knows it and no row holds it, so the behaviours are
  not bounded in length. `MaxLease = 2` has an active lease, its last step and the instant of
  expiry. Temporal properties are checked without symmetry, on one plan, two tasks and one client.
  `PlanAudit.cfg` hides in its VIEW what the last step logged, which no invariant and no guard reads.
* Calls: two claims race for one of two tasks, one the other's prerequisite; leases of two steps, so that
  the clock can take one while a claim is written and not committed. One client is enough: nothing in a
  claim depends on who holds the task, and two calls of one client race like those of two.
* Kahn: three ids cover every shape in which the order of visits matters, two copies of an edge
  the duplicates; the graph need not be closed under the given nodes.
* Sync: two rows and two blocks (a third would repeat the roles of known, missing and keyless),
  keys up to 3, three acts. An act is an edit of the file or a store write; syncs and crashes are
  free. Every seeded bug shows within three acts, and so does finding 1. Five texts: two plain ones,
  one whose prose has a heading, one whose heading carries the id of the first requirement, one too long.
* Gate: one invariant and one criterion (the gate treats criteria independently), two revisions,
  two rows of evidence (an implementation and a review, or a row and its successor), one violation,
  three acts. An act is an update, a deletion, a record, a finding, a patch or a move of the
  repository; creations, resolutions, closings and aborts are free.
* Plans page: a prerequisite and its dependent, one tab, this browser and one other client, two
  tokens, a lease and a clock of one step, two calls under way (`MaxCalls`): enough for a call to
  overtake another, for a reclaim behind the page's back and for a token that has gone stale.
* Caches: three versions of the data (`MaxVersion`: the one cached, the user's, somebody else's), two
  operations under way, two projects for navigation between them. `TouchIn` and `AtIn` keep one
  operation and one place of each kind, so nothing that the module could tell apart is lost; queries
  are those of the first project, for one of the entry sections that behave alike.
* Code map: two versions of an index, four files up to four segments deep, in directories that
  import each other, one file new and one gone; two locates at a time, three in all; the loop
  bound of the code (`MaxSteps` 5). No file of the instance is deep enough to exhaust the loop; that
  it suffices for nine segments is what the theorem `EveryFileIsFound` adds.

`CHECK_DEADLOCK FALSE` appears where the system may really stop: the planning instances when all
tasks are completed or cancelled and all tokens dropped, `Kahn` when it has answered, and the browser
instances when nobody clicks any more and the bounds are used up.

### Fairness

The service has no scheduler: it acts when it is called. `ClockSpec` assumes only that time passes,
which nothing in the code can prevent. `WorkersPoll`, the premise of `PlanDrains`, adds the polling
workers that `docs/architecture.md` draws: a task that is claimable again and again is sometime
claimed with the response received, and a task whose token a client holds again and again is sometime
completed (strong fairness, since a lease may expire and be reclaimed in between), blocked tasks get
unblocked and dead tokens are dropped. Crashes, lost responses, releases and expiries may happen any
number of times, but not at every attempt for ever. No other specification states fairness, and no
other property is a liveness property; in the browsers everything may fail or never come, so `BusyIsAnswered` and `OwnWriteShows` say what is
safe: somebody is still going to answer, and what is stale is marked.

Nothing is assumed of the order in which waiting transactions get a lock. An update of a criterion
that another one overtook (began earlier, got the lock later) leaves the criterion in the history variable
`overtaken` until its next update: `StaleUnlessOvertaken` and `DoneWasVerified` say what holds for such a
criterion and for the others, and `gate_order` shows what goes wrong for it.

## What is proved

`PlanTasks_proofs` proves for every set of plans, tasks, clients and tokens and every
`MaxLease > 0` (assumption `PlanTasksAssumption`, which also says that the null values are no
members) that `IInv` is an invariant, and from it each safety property of `PlanTasks` that
`plan_safety` checks:

* `IInv` is `TypeOK /\ LeaseShape /\ GraphOK /\ PlanLifecycle /\ StartedPrereqsDone /\
  NoMissedUnlock /\ ExclusiveHolder`. The conjuncts need each other: that an active plan has no
  pending task with completed prerequisites (`NoMissedUnlock`) survives `CompleteTask` because the
  completed task is in the same plan as its dependents (`GraphOK`) and they are still pending
  (`StartedPrereqsDone`); `ExclusiveHolder` needs the token of a row to be null exactly when the row
  has no lease (`LeaseShape`). There is one lemma per conjunct, with one step per action.
* `ListAgreesWithClaim` and `NoStall` follow from `IInv`. `NoStall` looks at a pending task none of
  whose prerequisites is pending; it exists because the graph is acyclic, which `Acyclic` states over
  all non-empty sets of tasks, so no induction is needed and tasks may be infinitely many.
* `LeaseRespected`, an action property, is proved action by action (`LeaseRespectedStep`).

It also proves `Spec => ImplementsDag`: hiding leases, tokens, clients and plans, each step of
`PlanTasks` is a step of `DagExecution` or a stutter. The step from one plan's acyclic dependencies to
the acyclic whole is lemma `NoCycleAnywhere`.

The last part of the module is about `Kahn`, for every graph and every number of copies of an edge
(`KahnAssumption`: the lists of the call are finite): `DecidesAcyclic` (`TheCheckDecidesAcyclic`), and
that what the queue accepts is what the operator `Acyclic` of the guards of `PlanTasks` says
(`TheGuardIsTheCheck`). `KahnInv` says that there is a set of visited nodes which needs nothing but
itself, is acyclic and leaves to each other node, as its in-degree, the edges to unvisited nodes (`Round`).
When the queue is empty and some node was not visited, each of these has a prerequisite among them.
The sum over the edges folds along an arbitrary order; that it is the same in every order, that it
loses one edge's copies with each visited node and is zero only without edges is `SumFacts`, by counting
the copies as a set (`SumCounts`) and a least set on which two ways of summing would differ (`SumsUnique`).

`LayoutLeftToRight` (`LayoutIsLeftToRight`) is about the panel's recursion on the graphs that the check
accepts. That a function with its recursive equation exists at all is `DepthsExist`: a call passes on one
task more than it got, so a least number of free tasks for which the recursion had no solution cannot be.
In an accepted graph nothing reached from a task leads back to it (`NoReturn`), so the cut at the path
never takes effect and the column does not depend on the path (`PathDoesNotMatter`). Then a task's
column is the one after its last prerequisite (`ColumnFacts`); a task with an empty column to its left
would, if each of its prerequisites had none, have none either (`NoEmptyColumn`).

Three modules are proved on top of it, each by showing that its own steps are steps of `PlanTasks` or
leave its variables alone, so that `IInv` and the facts above carry over:

* `PlanAudit_proofs`: `HistoryReplays`, with the log's shape and `IInv` (a claim, a reclaim and an
  expiry log what the row says only because a lease exists exactly for a claimed task), and the action
  properties `MutationsLogged` and `OrphanedLeaseSilent`; the last, that the history of a task whose active
  lease nobody can use does not grow, has no run. `AuditAssumption` says that the set of tasks is
  finite, because a new task logs one event per dependency.
* `PlanRead_proofs`: `ListingIsASnapshot` and `CompletedViewConsistent`. The inductive invariant `ReadInv`
  adds to `IInv` what a reader that stands between two statements has seen (`ListingInv`,
  `GettingInv`). That the two reads of `get_plan` fit together rests on `StepsAreOneWay`: no writer takes a
  task out of a plan, and none makes a completed or started task pending, so what the first read saw
  can only have moved on when the second reads.
* `PanelPlans_proofs`: `TokensFiled`, `BusyIsAnswered`, `ReadyFilterAgrees` and `OfferedIsAdmitted`. First
  `ThePageIsAClient`: the composition implements `PlanTasks!Spec`'s next-state relation, whatever
  tabs and calls do. `PanelInv` adds to `IInv` the types of the browser's state, `TokensFiled` and
  `BusyIsAnswered`, and for the last two that all tasks are of the plan shown (`OnePlan`) and that the
  absolute expiry a card compares with its clock says what the lease says (`ExpiryAgrees`).

`QueryCache_proofs` proves `OwnWriteShows` and `ForeignDataIsInvalid` for every client whose tables satisfy
`TablesSound`: a callback invalidates or amends all it promises, what is written before the
invalidation is invalidated, what is written after it belongs to the project on the screen, and what is
written under another project is invalidated for good. This hypothesis is about finite tables and is not taken on trust: `MCQueryCache` assumes it of the
dashboard's and the panel's tables, so TLC evaluates it at the start of `client_cache`. `CacheInv`
adds the order in which data become old (`NothingOlder`) and where they came from (`ForeignOrigin`).

`RequirementsSync_proofs` proves, for all texts, statuses, parsers (`Parts`) and bounds, every property
that `requirements_sync` checks. The inductive invariant has two parts. `SyncInv`, from which
`KeysUnique` (`IdsAreNeverReused`) and `ArchivedWasRemoved` (`NothingArchivedUnasked`) follow, is about ids:

* rows, and the rows about to be committed, are numbered without repetition below their counters, and
  a full merge writes no id twice but those that the prose of an appended row quotes (`RepeatsOnly`,
  `QuotedBy`; nothing is assumed of what prose holds). This needs that `next_key` counts strictly upwards and skips what
  file *and* rows hold (`MergeFacts`), and that what is appended to the file are other rows than those in
  it; the order of appended pieces is settled by lemmas on ranks in finite chains (`ChainRanks`).
* the snapshot names only ids below the counter (`Below`), and never claims more than the file has:
  a live row that the snapshot names is in the file, or somebody removed it (`Covers`). This is stated
  for the committed state and for what will be committed, in each phase of a request, because a crash
  keeps one and a commit the other while people edit the file under both.

`FileInv` is about content, and rests on `SyncInv`:

* a full merge makes rows, file and snapshot `Agreed`, whatever they were before (`MergeAgrees`): each
  live row has its block, each readable block its row or the row whose prose it was split off (that such a
  block may carry an id is why `Agreed` speaks of `Split` and not of missing ids), and the snapshot names only live rows and says
  their status. The cases are those of a row (`RowShown`) and of a block (`OutBlock`): created, matched,
  written from a row, split off a row's prose, or left alone. From this `CleanAgrees`
  (`CleanFilesAgree`), and `SecondSyncIdle` (`SyncIsIdempotent`), because a merge of agreeing sides finds
  nothing to create, key, append or change (`AgreedStays`, `SnapStays`).
* a status token that differs from the snapshot was written by somebody else (`Faithful`), against
  the committed snapshot until the file is replaced and against the coming one after that. A merge
  takes a status from the file only if its token differs from the snapshot (`StatusFromToken`), so
  the rows about to be committed keep every other status (`StatusKept`), which gives the action
  property `StoreOwnsStatus` (`TheStoreOwnsStatus`).

`CloseGate_proofs` proves for every set of invariants, criteria, authors, commits, worktrees and
definitions and all bounds (`KindAssumption`, `DefinitionAssumption`, `GateBounds`, and
`CommitAssumption`: an unreadable HEAD is not a commit):

* `GateTypeOK`, inductive as it stands, one lemma per conjunct. That the revisions of a criterion's
  rows never decrease along the ledger (`EvidenceFits`) rests on `RevisionsGrow`.
* `LedgerAgreesWithGate` follows from it: a row listed as verified is the one `_latest` picks
  (`VerifiedIsLatest`), since a later row of its slot would supersede it. That a last row exists is
  `LastExists`, by well-founded descent.
* `GateCanPass`: the rows supplied last are the last of their criterion and kind for the present
  revision (`LastPassedStands`), and no two required criteria share one. The ledger they make is a sequence
  because only finitely many criteria were ever created (`FinitelyManyExist`), which is proved, not
  assumed: `Crits` may be infinite.
* `StaleUnlessOvertaken` (`UpdateStales`), inductive together with `GateTypeOK` (`Fresh`): an update that is
  not overtaken appends the largest revision there is, so no row names it, and an overtaken one is
  remembered. No order of locks is assumed; `UpdateMakesStale`, without the exception, is finding 3.
* `DoneWasVerified` (`DoneVerified`), without a condition on locks or order: between the gate and the
  commit nobody else writes what the gate read (`PassedGateHolds`), because everybody else waits for the
  project lock; of the repository nothing is assumed. That the rows it rests on are for the present
  definitions, unless overtaken, comes from `StaleUnlessOvertaken`. Two ways around it are not the gate's
  doing and are described under *Smaller disagreements*: PATCH, and evidence from a clean worktree.

`CodeMap_proofs` proves, for every repository in every number of versions, every set of locates and
all bounds (`PathsAreSequences`: paths are non-empty sequences of segments):

* `EdgesHaveEnds` and `LoadedIsShown`. The inductive invariant is `GoodMap`: both are true of the
  graph on the screen *and* of the one each locate carries along, because a locate puts a graph on the
  screen that other steps never saw. Each merge keeps `Good` for itself: a tier brings the ends of its
  own edges, only the edges of the removed directory's node lose an end, and for a file below the
  directory that goes the tier has a longer real node, as long as all tiers are of one version.
* `FilesAreFound` (`EveryFileIsFound`), for files that `WithinReach` names: at most `2 * MaxSteps - 1`
  segments, and no version of the index has a directory where another has a file. A file of one
  segment more may be missed (TLC shows it), and a directory that is a file in another version costs
  the locate steps. The inductive invariant `FindMap` says
  of a locate that has asked *n* times that it asks for a directory above its file with at least
  *2n + 1* segments (`OnItsWay`), since each answer shows two segments more (`AnswerShowsTheWay`); that every
  node is a named path or a directory above one (`Proper`), so that the nearest node on the way to a file
  is a directory (`OnTheWay`), and one that can be expanded unless it was marked so unloaded, because
  `Good` shows something nearer below a loaded one (`ProceedFinds`). In the panel's tree, where only
  shown directories are opened, an expanded one is always loaded (`ExpandedIsLoaded`, which needs
  `AboveIsLoaded`), so a hit selects the file itself (`HitIsFound`). `BoundsAreNumbers`: there is a version
  of the index, and the loop's bound is a number.

Only model-checked: `ClaimsAreAtomic`; liveness (`OrphanedLeaseEnds`, `PlanDrains`), which this prover
does not do, and `CallsRouted`, because the two clients' tables are one instance by nature and TLC visits all of them.
No module declares a recursive operator.

## Findings

1. **An update of a requirement's text undoes itself** (`sync_update`). `update_requirement` stores
   the new text and then writes through; `_merge` (*server*`requirements/service.py:432`) sees the
   block of the file differ from the row and puts the file's old text back in the same transaction.
2. **A criterion of kind review can never pass an independent review** (`gate_selfreview`,
   *server*`requirements/evidence.py:942`): implementation and review are the same row.
3. **Revisions are ordered by transaction start** (`gate_order`, *server*`requirements/evidence.py:501`):
   an update that waited for the lock while another one began and committed leaves that one's revision
   the latest, and evidence recorded in between stays current for a definition it was not given for.

### Smaller disagreements met on the way

On the server, each visible in the modules:

* Prose that looks like a heading locks the requirements file (*server*`requirements/template.py:56`). A
  detail is copied into the file verbatim. A line `### R-001 — x` in it is parsed as the block of R-001; when
  R-001 has a block already, or is the id the new requirement gets, the server has written a file with
  one id over two blocks, and every later sync of the project reports the duplicate and applies nothing
  (`parser.py:39`). `KeysUnique` names this exception, and no other: without it TLC finds such a file in
  the instance of `requirements_sync`.
* PATCH asks no gate (*server*`web_api/routes.py:270`): an entry patched with `requirement_status` done becomes
  done, while `docs/architecture.md:95` calls the gate the sole path. `DoneWasVerified` excepts `PatchEntry`.
* Evidence from a clean worktree counts in a dirty one (*server*`requirements/evidence.py:583`): in a clean
  worktree any supplied fingerprint is stored unchecked and the row is verified; once the worktree has
  the changes of that fingerprint, the row is fresh and the gate opens on it, which
  `tasks/T19-evidence-quality.md:30` rules out. HEAD and the diff are read by two git calls, so a commit
  between them has the same effect. `DoneWasVerified` speaks of what the gate reads and does not rule it out.
* A deleted requirement comes back: the merge reads the rows without the deleted ones, so the block
  of the deleted row is unknown and is created anew under a fresh id (`service.py:307`).
* `archive_plan` (`planning/service.py:630`) erases the claimant of completed tasks and logs nothing
  for them, while FR48 (`REQUIREMENTS.md:549`) says that every mutation appends an event.
  `MutationsLogged` names the exception.
* `get_plan` reads tasks and dependencies in two statements, so a dependency may name a task that is
  not in the answer; `planning/handoff.py:160` takes that to be impossible.
* `docs/mcp-reference.md:149` permits completion without a token once the lease has expired; the
  code does so only from `in_review` (`planning/service.py:1800`).

In the browsers:

* Plans page: the card offers Release for a task in review, and Complete for one without an active
  lease, and the server refuses both (`OfferedInVain`); any 409 throws the stored token away, a valid
  one included (`Plans.tsx:98`); an answer that comes after the page was left is not heard, and its
  claim token is lost; the AI draft dialog can be closed while its plan is being created.
* Keys that nothing has: the panel's Resolve invalidates `/sections`, its reindex `/index-status`
  (*panel*`App.tsx:413`, `590`). Left out: the briefing after an entry is added (`405`), the compliance
  report after a requirement changes, in both clients; the status lines of the project list.
  *web*`hooks/useProjects.ts:40` appends to the list right after invalidating it, which takes the mark
  away. AI settings are written to the cache without cancelling a fetch that may carry older ones.
  All of these are in `Forgotten`.
* The web's hook callbacks write the answer for one project under the key of the one the user has
  moved on to; the invalidation that follows is what saves it (`ForeignDataIsInvalid`).
* Code map of the dashboard: a locate merges onto the graph it captured before its requests, so it
  undoes a re-seed or another locate; five steps suffice for files of nine segments (`WithinReach`), and a deeper
  one may end without a word; clicking a
  top-level directory of the document removes its node and ends in "not in the current map", while
  `CodeMapView.tsx` says that any path opens in the inspector (the panel's copy of the function was
  repaired); a tier, once cached, is not fetched again after Refresh; opening a boundary stub marks
  every directory above it as expanded, so a file elsewhere below settles on the directory (named in
  `FilesAreFound`). Code map of the panel: a directory that is open while the root is seeded again
  stays empty, and after a reindex a hit in an open directory selects the directory.

## Not modelled

* Wording, sizes and formatting: headlines, details, redaction, token budgets, rendered Markdown,
  styling, toasts, drafts typed into forms.
* Clock skew between processes: one clock here. Every check of a lease is made by one process under
  the row lock, so skew lengthens or shortens leases and cannot make two checks disagree; a list and a
  claim served by different processes may.
* In `PlanTasks`: titles, goals, requirement links, and the order and plan filter of `list_ready_tasks`.
* In `RequirementsSync`: files, blocker and extra words of a status token (the merge carries them over
  unchanged), priority, links and entry revisions; an edit of the file between the read and the replace
  is lost there as in the code, without a property of its own.
* In `CloseGate`: keys and sort orders, the verification of file and test references, `manual-pending`
  as a result of its own (it counts as not passed), hidden parent requirements, and the counts of
  `summarize_close_gate`.
* In `PanelPlans`: more than one plan per tab, the heartbeats and releases of other clients (to this
  browser they look like a longer lease or a task held by others), and the clipboard's wait in
  `copyPrompt`, which is folded into the answer.
* In `QueryCache`: structural sharing and garbage collection of the cache; parsing of answers.
* In `CodeMap`: the busy caption, a change of project, metrics and overlay, the cut at `MAX_CHILDREN`,
  nodes of external packages, the guide.
* Code index and watchers. `reindex` decides incremental or full from a status row loaded before it
  waits for the lock (`index/service.py:377`); a failing one sets its error state in the transaction that
  rolls back (`:444`); `start_all` may start a watcher for a project deleted meanwhile
  (`index/watch.py:69`), and `delete_project` stops it before its own commit (`context/service.py:389`).
  None is covered by a property.
* Compliance, briefing, export, search and token savings only read; the plan draft generator stores
  nothing; AI settings are one locked merge. Migrations, deployment, the mock-up sandbox and the
  generated validators have no behaviour of their own to check.

## Plan

Done, in this order: `PlanTasks`, `DagExecution`, `PlanLiveness`, their proofs, `PlanAudit`, `PlanRead`,
`PlanClaim` and `PlanCalls`, `Kahn`, `RequirementsSync`, `CloseGate` and its proofs, `PanelPlans`, the caches of the two clients, the
code map and its proofs, the proofs of `PlanAudit`, `PlanRead`, `PanelPlans`, `QueryCache` and
`RequirementsSync`, those of the cycle check and of the layout, and that locates find their files. What would come next:

1. `CodeIndex`: `reindex` full and incremental with its status row, a working tree that changes under
   it, roll-back of failures, and the watchers against project deletion. Abstract specification: the
   index converges to the tree once the tree rests.
2. `ContextStore`: entries with append-only revisions, projects with registration and teardown.
   Property: the revisions replay to the row; a project's rows are gone or all there.
3. Compliance as operators checked against the ledger of `CloseGate`; the guide cache keyed by the
   index commit.
