# rust-bot-bundle in TLA+

A verification development kept beside the code of rust-bot-bundle: TLA+ modules
of its core, TLC configurations that check them on small instances, and proofs
that TLAPS checks for every value of the constants. `PROJECT.json` lists the
runs, the mutants that every checked property must catch, the lines of source
behind every definition, the findings, the hazards and the theorems.

File names below are relative to `src/rust-bot-plugin/src/plugin/`, unless they
begin with `src/`.

## 1. The system

A host loads plugins. A plugin runs agents, each under a manager of its own. The
agents fetch governance data of Cosmos blockchains, classify proposals, and write
HTML pages. They share one embedded database and meet nowhere else.

| Component | State | Operations | Talks to |
|---|---|---|---|
| Plugin host, `src/rust-bot/src/main.rs` | map of active plugins, two sled databases | load, hot reload and removal of `.so` files | the plugin's `init`, `start`, `stop`, `shutdown` |
| Plugin lifecycle, `src/rust-bot-plugin/src/lib.rs` | statics: runtime, sled handles, cancellation flag | `init`, `start`, `stop`, `shutdown` | one AgentManager per agent |
| AgentManager, `interface/mod.rs` | join set, delay queue, task registry, agent, four async locks; the shared cancellation flag | two loops: the queue loop spawns, the tasks loop collects | its agent's `get_tasks`, and retry delays |
| AgentStore, `interface/agent/mod.rs` | cursors in the store | `get_next_key`, `set_next_key`, `get_next_index`, `set_next_index` | FallbackEntryStore |
| FallbackEntryStore, `store/fallback_entry_store/mod.rs` | per key: an index and a history of revisions | `get`, `insert`, `insert_if_not_exists`, `remove_all`, `contains_key`, iterators, `watch_prefix` | SledStore |
| SledStore, `store/sled_store/mod.rs` | a sled tree, a prefix | `get`, `insert`, `remove`, `scan_prefix`, `watch_prefix` | sled |
| GovernanceProposalFetchAgent, ValidatorsAgent | a cursor per chain and status, kept in the store | a page per run | a chain, the store |
| TallyResultsAgent | an index per chain, kept in the store | a loop over the proposals in their voting period | a chain, the store |
| ParamsAgent, PoolAgent | none | a query and an insert per run | a chain, the store |
| FraudDetectionAgent | none | reacts to the events of proposals | a classifier at a Unix socket, the store |
| GovernanceProposalViewAgent, ProposalsApi | none | reacts to every governance event: writes a page, stores the view | the store, the file system |
| ChainRegistryAgent, DummyAgent | a registry in memory; none | reads the registry; fails at random | the other agents' `get_tasks` |

What is hard to get right, and hard to test:

* **Store.** `insert` is a read, two writes and a clean-up, none of them in a
  transaction, called from many threads; readers walk a history that the clean-up
  removes under them; the revision number wraps; sled operations fail, and the
  process dies between any two of them.
* **Manager.** Two loops share four locks, each keeping one for a whole
  iteration; a task wanders from the join set through a batch, the delay queue and
  the registry back to the join set and may be lost, or doubled, at any place; tasks
  panic; stop comes at any moment.
* **Fetches.** A page is saved item by item before the cursor moves; tasks of two
  statuses write the same keys; queries are refused.
* **Pipeline.** Events are sent before the index makes an entry visible; the view
  agent watches what it inserts; views take the place of proposals; queues of
  events are bounded.
* **Tally results.** One cursor for all proposals of a chain, which come into sight
  and leave it by what other agents insert.
* **Host.** A plugin is shut down and loaded again while its old library is open; the
  events of the directory come late and name a file otherwise than its listing; the
  image of a plugin keeps its statics as long as it is there.

## 2. The modules

| Module | Models | In |
|---|---|---|
| `EntryRegister` | what the store promises the owner of a key (abstract) | - |
| `FallbackEntryStore` | one key, one action per sled operation | `store/` |
| `FallbackEntryStoreReads` | the same with a history of what readers could see | `store/` |
| `TaskRunner` | what the manager promises a task (abstract) | - |
| `AgentManager` | `AgentManager::run`, one action per section between two awaits | `interface/mod.rs` |
| `PagedFetch` | the paged fetches with their cursors | `fetch/mod.rs`, `validators/mod.rs`, `agent/mod.rs` |
| `ProposalPipeline` | fetch, tally, parameters, classification and views, joined by the store's events | the agents |
| `TallyResults` | the loop over the proposals of a chain with its index | `tally_results/mod.rs`, `agent/mod.rs` |
| `PluginHost` | the bot, its directory of plugins, and what the loader has of them | `src/rust-bot/src/main.rs`, `src/rust-bot-plugin/src/lib.rs` |
| `MCFallbackEntryStore`, `MCPagedFetch`, `MCProposalPipeline`, `MCTallyResults`, `MCPluginHost` | values of constants for TLC | - |
| `FallbackEntryStore_proofs`, `FallbackEntryStore_refinement`, `FallbackEntryStoreReads_proofs`, `AgentManager_proofs`, `PagedFetch_proofs`, `ProposalPipeline_proofs`, `TallyResults_proofs`, `PluginHost_proofs` | the theorems | - |

The modules build on each other by what each one shows: `PagedFetch` takes a key
of the store for the register that `FallbackEntryStore` implements, and takes from
`AgentManager` that no task runs twice at a time and that every task is run
again (as long as the manager is not in the deadlock of `manager_deadlock`);
`ProposalPipeline` refines the key to the two writes of an insert, whose
order its readers can tell, and leaves the history out. `TallyResults` takes the
proposals in sight for a set that changes at any moment: what changes it is
`ProposalPipeline`. `PluginHost` starts and ends the agents, whose life in between is
`AgentManager`'s.

### FallbackEntryStore

One key, since no method touches two. `revIndex` is the value under
`rev_index_<key>`, `revs[i]` the one under `key_<key>_rev_<i>`. A thread has the
local variables of the method it is in: `pc` (the next sled operation), `op`,
`data`, `idx` (`next_index`, `max_index`, `index`) and `cur` (the loop variable).
Every read or write of sled is an action: `GetIndex`, `GetEntry` (get), `NextIndex`,
`Wipe`, `PutEntry`, `PutIndex` (insert), `FindOk`, `Trim` (clean-up), `MaxIndex`,
`DropEntry`, `DropIndex` (remove_all), `ListKey` (contains_key and the iterators).
`insert_if_not_exists` is `GetIndex`, `GetEntry` and, unless `Answer` says "same",
the steps of insert. `MaxRev` stands for `u64::MAX`. `SledError` ends the method at
any step in `FailingCalls`, except where the code goes on; `Flush` and `Crash` are
sled's periodic flush and its recovery of a prefix of the writes. What is left out: the
count that `remove_all` returns, which is one more than the index and overflows at `u64::MAX`
(a panic of a debug build, 0 otherwise), after everything has been removed.

### AgentManager

`lock[l]` is the queue of the loops that hold or await the tokio lock `l`, the holder
first. `at` gives the point of each loop. `running` and `finished` are the join set,
`batch`, `result`, `expired` and `fns` the locals of the loops that carry tasks,
`delayQueue`, `registry` and `retryDelay` what they say. `Finish`, `FallDue`, `Learn`
and `Stop` are the surroundings: a task completes, a delay passes, the chain registry
gets known, the host stops the plugin. Time is left out: delays are kept as values
and pass at any moment. `Life` maps the places of a task to `TaskRunner`: ready, running,
ended, waiting, due, and ready again with the outcome of the last run on record.

### PagedFetch

A list is a task: a status of proposals, or the validators. `list` is the chain,
`saved` and `cursor` the store, `disk` what is flushed; `at`, `from`, `page` and
`next` are the locals of a run. `Start` reads the cursor, `Answer` and `Refuse` are
the two ends of the query, `Save` the loop over the page, `Finish` the three ways in
which the cursor moves. An item is its number, which is also its place in the pages,
and a chain cuts its pages anywhere. The tasks of the lists in `Failing` meet store
operations that fail, at any step. `found` and `late` are history variables.

### ProposalPipeline

`entry[k]` is what a reader finds under a key, `fresh[k]` the entry above the index,
written and announced but not yet visible, `listed` the keys with an index. `job[k]`
is the agent that writes the key. Events go to `vQueue` and `fQueue` in the step that
writes the entry, as in sled. `TakeView` dispatches (`Renewed`), `ShowView` writes the
page, `SameView`, `PutView` and `IndexView` are the `insert_if_not_exists` of the view.
`InsertFails` is an insert whose error ends the task: that of a classification takes
the subscription with it, and the events in it. `ViewFails`, and a page that cannot
be written in `ShowView`, are only logged. `ExportPanics` and `AnswerPanics` are the panics
of the fraud detection, when its CSV file cannot be opened, written or flushed and when the
classifier answers with no probability at all: a task that panics is not run again
(`manager_lost`), so that there is no `SubscribeFraud` after one. A record may have reached the
file before the panic.

What the surroundings do is a `setting`, which each behaviour chooses from `Settings` and
never changes: how far the proposal and the parameters go, whether fetches are minutes
apart, whose insert fails once or whether the fraud detection panics, which proposals have a
spam likelihood when they have ended (`rated`: those that `spam_likelihood` of the external
crate knows one of; only they are exported) or tally results that the chain gives out
(`tallied`), whether subscriptions come late.

What it takes for granted:

* Of every writer in `faulty` one insert fails, all others succeed; two inserts of a
  key take the order of their entries. What else may happen is `FallbackEntryStore`'s.
* A view does not decode as a proposal. Both are serialised without type names
  (bincode), as types of quite different shape.
* sled 0.34 gives every subscriber a bounded channel and an insert waits for room
  (`Room`, external). The real channel takes 1024 events.
* Parameters, pool and validators are one key, because they are dispatched alike.
* A classification is asked for once per text, and a proposal's text does not change.
* A proposal has a spam likelihood at its end or has none, whenever it is fetched.
* A tally is fetched once: of later ones the pipeline can tell no more than of the
  parameters.

### TallyResults

`shown` is what `get_proposals_by` lists, `cursor` the index in the store, `todo`, `cur`
and `answer` the locals of a run: the rest of the list, the proposal asked for and
the chain's answer. `Start` lists, `Ask` (`Answered`, `Refused`) is the query, `Mark`
writes the cursor, `Save` the result. `StartUnread` and `CutShort` are a cursor that
cannot be read and a run that ends early. `Appear` and `Vanish` are inserts of other agents,
at any moment and in any order, so that the module assumes nothing of them. `due` is
a history variable.

### PluginHost

`disk` is the directory, `events` what the watcher has not handled yet, `plugins` the map
of active plugins. `at`, `cur` and `again` are where the bot is with the plugin that it
opens: the steps of `Open`, `Initialise`, `Start` and `Insert` are those of the loop of the
listing and of the watcher's callback, each under the same mutex. `image` is what the
loader has: version, open handles, and the statics of the plugin. What is assumed of it:

* `dlopen` gives a path that is open already the same image, whatever the file
  holds by then; a path of another spelling and a file moved into its place another one.
* `dlclose` of the last handle unloads the image, or leaves it, with its statics, when
  threads or thread-local destructors hold it: `Close` allows both.
* A file that is there is a whole plugin. The build moves a whole file into its place; one
  that is copied could be met half-written, which panics at the same line as a file that
  is gone.
* One change of a file is one or two events (a file that is moved comes in one, one
  that is copied in several), and events keep their order.

`sameNames` says whether the watcher's paths are those of the listing: with the
directory that `main` names, they are not, because the watcher makes it absolute.
`logger` is the feature `EnvLogger`. `dead` is a bot that has panicked: in the listing the
process ends; in the callback the watcher's thread ends and leaves the mutex poisoned.
`missed` is a history variable.

## 3. The runs

Bounds are in the `.cfg` files; all of them are constants of the modules.

| Run | Shows | Bounds, and why they are enough |
|---|---|---|
| `store_owner` | a key implements `EntryRegister`; calls do what they report; the history is trimmed; a reader among the steps of the writer gets what the key held during its call | a writer, a reader, two successes and an error, revisions 0..3: the number wraps, the wipe and the clean-up remove more than one revision, and errors lie above a success; what looks at the tree may fail, and so may `remove_all` half way: the failures under which all seven properties hold |
| `store_faults` | the same contract when operations fail and the process dies | a writer, revisions 0..2; a failure or a crash at any step, any number of them |
| `manager_liveness` | tasks are run again and again, completed ones removed, stop ends the loops; no deadlock | one task, for which there is no deadlock; see `manager_deadlock` |
| `manager_panics` | the manager is a `TaskRunner`; no task runs twice at a time, none is lost on its way, delays fit, nothing is left behind | two tasks that differ in everything the constants tell apart: one panics, one blocks and is learnt later |
| `manager_lost` (violation) | a panicked task stays pending | one task |
| `manager_deadlock` (violation) | the loops wait for each other | three tasks, so that one falls due while a batch of others is handled |
| `fetch` | no item is skipped; a pass is completed; store and chain agree in the end | two lists, of which one meets failing operations, two items, so that a page may break off inside the list; a crash |
| `pipeline` | pages agree with the stored views and catch up; classified once; reviewed in the end; the view agent's own events end | one proposal with two versions, the last of which is its end; nine settings (`MCProposalPipeline`): parameters that change, a failing insert of each of three agents, a page that is not written, a proposal without a spam likelihood, a panic of the fraud detection, two fetches at any time with views of one second, and late subscriptions (with a failing classification or no likelihood, no tallies); queues that never fill |
| `pipeline_hidden` (violation) | results renew nothing behind a view | one proposal, nothing fails |
| `tally` | no pass goes by a proposal; the last tally is stored | three proposals, so that one fails between two others; two votes, so that a tally gets old; one run cut short |
| `host` | agents run once under a name and can be shut down; the active plugins become those of the directory | two plugins, three changes of their files, so that one is put, removed and put back, all four settings, two starts of the bot |
| `host_restart` (violation) | a plugin that changes is not restarted | one plugin |

Proposals of one chain meet in the pipeline only in the queues, in the list of
proposals that new parameters renew, and in the task of the fraud detection, which a failure
or a panic ends for all of them. None of these lets one proposal change what is stored of
the other, and what ends the task costs a proposal no more when it comes from another
than when it comes from itself; one proposal is therefore enough for what the runs ask.

`CHECK_DEADLOCK FALSE` stands where the system may stop: in the manager's runs
with a task that blocks or a deadlock that is the finding, in the pipeline once the
bound on fetches is reached, and for the host, which waits for events when there are none
and stops when it has panicked.

Operators marked "Fault:" in the modules are no part of the model. Each is a
plausible bug in the definition that it would replace, and the property named with it
in `PROJECT.json` must fail when it does.

### Fairness

* `AgentManager`: weak fairness of either loop (the runtime polls what is ready), of
  the completion of tasks that do not block, and of the passing of delays. None of
  `Stop`, `Learn` or any failure.
* `PagedFetch`: weak fairness of a run's steps. That runs go on coming is not the fetch's own
  doing but the manager's, and holds as long as its two loops do not deadlock:
  `KeepsRunning` is checked with one task, for which they do not, and `manager_deadlock`
  shows that with several they may. What is shown here, in the pipeline and of the
  tallies under fairness is to be read under that condition. Strong fairness of the chain's answers, because a chain that refuses
  some queries answers others. None of `Arrive`, `Flush` or `Crash`.
* `ProposalPipeline`: weak fairness of every task (`FraudTask`, `ViewTask`,
  the inserts of the others), each of which does one thing after the other; strong fairness of
  `FetchProposal`, which stands for a fetch every few minutes. `patient` in a setting says
  that a fetch does not come before the events of the one before have been taken:
  minutes pass in between. Both on the condition above. None of `FetchTally`,
  `FetchParams`, any failure or panic.
* `TallyResults`: weak fairness of a run's steps, on the same condition; strong fairness of the chain's
  answer for every proposal, as above. None of `Appear`, `Vanish`, `Vote` or any fault.
* `PluginHost`: weak fairness of what the bot does (`Run`): its thread goes on, and the
  watcher is called for every event. None of changes to files or of `Reboot`.

## 4. What is proved

All theorems hold for any values of the constants that satisfy the named
assumptions of the modules (`DataAssumption`, `RevAssumption`, `ProcAssumption`,
`TasksAssumption`, `DelayAssumption`, `ItemsAssumption`, `ListsAssumption`,
`PipelineAssumption`, `HostAssumption`, ...). Every safety invariant and every action
property of a passing run, and both refinements, are stated by a theorem; those about the
contents of a key need one or two assumptions more, which are named where they stand.

### The store

* `TypeCorrect` (`FallbackEntryStore_proofs`). The type invariant, strengthened by
  the bound of the loop of `remove_all` (`DropBound`).
* `WritesSettle` and `Refinement` (`FallbackEntryStore_refinement`), under
  `SingleOwner`: one writer, any readers, sled operations that fail anywhere but in the
  scan of the clean-up, crashes anywhere. The invariant `StoreInv` says, per place
  in the code, what the writer knows: `Wiping` (nothing is left above the loop),
  `Putting` (the revision written is the next one, invisible before its index),
  `Trimming` (the loop stays below the last success), `Dropping` (the index goes last),
  and `Settled`. `IsEntryRegister` needs it, because a step at `PutIndex` is a `Put`
  of the register only if what the index will name is the writer's own entry. Every
  step maps to a step of `EntryRegister` or a stutter (`Simulated`).
* `SameSettles` and `RegularReads` (`FallbackEntryStoreReads_proofs`), under `SingleOwner` and
  `IndexSucceeds` (the index can be written, and the process does not die). An index that
  cannot be written, or is lost with the process, leaves an entry at revision 0 that `get`
  finds without an index, so that neither property holds then (section 5). `FirstInv`
  says that there is no such entry. `SeenInv` says that every reader in a call has been given
  to see what the key holds and what it is about to hold (`SeenNow`), and, before, whatever its
  scan may still end at, among revisions that the owner adds and removes (`SeenAhead`).
* `TrimsHistory` (there too), under `SingleOwner` and `SweepsSucceed`: the wipe, the
  clean-up and the write of an index do not fail, and the process does not die. Each of
  these leaves revisions at which a later clean-up does not look. Everything else may
  fail: a lost write of an entry, or a `remove_all` that stops half way or before the
  index, is trimmed with the rest. `HistInv` describes the whole tree at every place of the
  writer: `TidyIn` between calls (no gap below the index and errors above the first
  revision, or nothing at all), `WrittenIn` when the entry is there and its index may be, `TrimmingIn` in the
  clean-up, `TrimmedIn` after an insert. The wrap of the index is part of it: the wipe
  before revision 0 leaves the tree empty.
* `IndexedExists` (there too), under `WritesSucceed`, which is `SweepsSucceed` and neither
  the write of an entry nor the removal of an index fails: after a wipe, or after the
  entries of `remove_all`, the old index names nothing. `WholeInv` says that the entry of
  the index is there between calls and until `remove_all` has come to it.

### The manager

All of them for any tasks, with panics, reads of the task list that fail, and stops.

* `RunsAlone`, `DelaysFit`, `DelaysGrow`. `FlightInv` follows a task from place to place:
  each place has it once (`Distinct`), no two do (`Distinct`, `RunningAlone`), what is in
  a place is pending (`FlightPending`), and what is about to be spawned is in none
  (`Fresh`). It does not need the locks. `DelaysGrow` says that only a success of the task
  itself shortens its retry delay, so no failure does. `DelayInv` adds the range of the retry
  delay, and that it has been reset when a success is entered.
* `ManagerTypes`. Its hard part is the locks: that a loop is never twice in the queue of
  one lock. `LockInv` ties the queues to the steps of the loops: which locks
  a loop at a step has asked for, and which of them it must have been given by then.
* `NothingLost`. `CarryInv` says at which steps a loop carries a result, so that none is
  overwritten, and that the join set is shut down only after a stop; `Carried` is the property
  in terms of the places.
* `EndsEmpty`, by `QueueDoneEmpty`: only the queue loop spawns, and it empties the join
  set after its last chance to.
* `RunsTasks`: the manager implements `TaskRunner`. By `FlightInv` every place that a task is in
  says what its life is (`LifeFacts`), and each action moves one task, or the tasks that are
  spawned or dropped together, along it. `RunnerInv` adds what that needs: nothing that
  is about to be spawned is pending, even when it was lost before, and what the queue loop has
  taken out of the delay queue was due.

### The fetches, the tallies

* `SkipsNothing`, `PassesComplete` (`PagedFetch_proofs`). `SkipInv` states the property of every
  place that a cursor may be in: the store, the disk, the locals of a run, and, with
  what is still on the page, the next cursor (`StoreSafe`, `DiskSafe`, `FromSafe`,
  `PageSafe`). `ForwardInv` adds that a task holds the cursor that the store holds, and
  that its next page lies behind it.
  `PassesComplete` speaks of the lists outside `Failing`, whatever happens in the others:
  the code begins at the beginning when it cannot read its cursor.
  `FetchTypes` is part of `SkipInv`.
* `TallyTypes`, `TalliesNothingPassed` (`TallyResults_proofs`), for any proposals, votes and
  faults. A failure moves the cursor to the proposal it met; that this passes nothing over
  rests on the list being taken in order (`First`) and on its containing, while the run goes
  on, all that is due (`DueListed`). The second holds at the start because the cursor was
  below all of it: the property is part of its own induction.

### The pipeline

For any proposals, versions, settings and sizes of the queues.

* `PipelineTypes`. `PipeTypes` gives every key the entries of its kind, and every job
  and event those of its key.
* `ClassifiesOnce`. `FraudInv`: where a classification is stored, nothing is under way for it,
  and none ever waits above its index, whatever else happens in the pipeline, failures and
  panics included.
* `PagesTellTheStore`. `PagesAgree` speaks of moments at which nothing is under way, no insert
  has failed and subscriptions were in time. `AgreeInv` says of all other moments what is still to
  come: the newest version of a proposal is in the queue of the view agent, in the
  last event that announces it (`LastSays`), in the view that is to be stored, or on the
  page (`ToldAt`, `ViewerAt`), and an entry above the index has somebody to move it
  (`FreshAt`). It has the same antecedent, which is true as long as it stays so
  (`FailuresStay`): what has failed is never taken for not having failed.

### The host

* `HostTypes`, `HostOneSet` (`PluginHost_proofs`), for any plugins, changes of files, settings
  and starts of the bot. `OneSet` needs that no handle is open without an image
  (`NoHandles`), that no agents run in the image that is being opened (`Quiet`), and
  that a plugin of the listing is not active before its turn (`Unstarted`).

### What stays with TLC

Liveness (`KeepsRunning`, `CompletedRemoved`, `StopEnds`, `Agrees`, `FallsQuiet`,
`PagesCatchUp`, `Reviewed`, `CatchesUp`, `Follows`) and ENABLED are out of the prover's
reach. The four runs that expect a violation show a counterexample each.

## 5. What was found

* `manager_lost`: the iterator that should mark panicked tasks is never consumed. A
  task that panicked is pending forever and never run again.
* `manager_deadlock`: the tasks loop holds the join set and the agent and awaits the
  delay queue; the queue loop holds the delay queue and awaits the agent or the join
  set.
* `pipeline_hidden`: a view is stored under the key of its proposal. Until the proposal is
  fetched again, classifications and tallies find no proposal to renew, and the tally
  agent finds none to ask about.
* `host_restart`: a plugin whose file changes is shut down, opened again and started; but
  its old library is still open, so that the loader returns the old image, whose runtime the
  shutdown has taken. Nothing runs, and nothing is reported. (With the feature
  `EnvLogger` the image sets its logger a second time and panics instead.)

Limits of the code that the models show and that no document denies, each next to its
hazard in `PROJECT.json`:

* With two `Writers`, two inserts in parallel take the same revision, and an error
  may overwrite a success: what is proved of a key is proved of its only writer. Most
  keys have one (a task per key, `RunsAlone`); that of a proposal has several.
* With `findOk` in `FailingCalls`, a failed read in the clean-up makes it remove the
  last success.
* A clean-up that failed half way leaves revisions below a gap, which no later one
  removes; they are never read.
* After an insert that stopped between entry and index, `get` finds revision 0
  while `contains_key` and the iterators do not, and inserting the same again
  changes nothing.
* `GetOk` may report that there is no success, when another is added and the one it looks
  for is trimmed during its loop; what it does return is right (`ReadsAreRegular`).
* With `late` in the setting, a proposal inserted before the view agent subscribes, and not
  changed since, has no page.
* With `QueueSize = 2` and fetches at any time, the view agent fills its own queue and
  then waits for room in it, and every insert with it.
* When a view cannot be stored, what it was to show may miss the page (`PagesCatchUp`).
* A tally cursor above every proposal in sight is removed by nothing but the answer for
  a proposal that comes into sight above it (`Starving`). Votes after the last tally of a
  proposal that has ended are never fetched.
* The key of a tally joins the name of the chain and the number without a separator:
  names that end in a digit may collide.
* A file that changes between the listing and the watch is not noticed (`missed`). One that is
  gone when the event of its change is handled makes the watcher panic, for good (`dead`).
* The watcher's names are absolute, those of the listing are not (`sameNames`): a plugin
  that was listed and changes runs twice, and one that is removed goes on.
* Blocking tasks outlive the second that a shutdown gives them, and use the image after
  its library is closed.
* An agent that finds no chain registry when it starts has no tasks until the bot is started
  again.
* A failed classification is never tried again: `ClassifiedOnce` holds of failed ones too.
* After a panic of the fraud detection (`ExportPanics`, `AnswerPanics`) nothing is classified or
  exported until the bot is started again; `Reviewed` excepts it. A proposal that ends without a
  spam likelihood is never exported.

## 6. What is not modelled, and the plan

Not modelled because it is I/O or formatting: the HTML template, the contents of the CSV
file of the fraud detection, the Unix socket, reading the chain registry's files, the build
script but for the move of a plugin into its place. DummyAgent keeps no state and
fails at random, which is `Finish` of `AgentManager`. The agents of the parameters and the
pool are one query and one insert each (`FetchParams`). The chain and its gRPC client (an
external crate) are what `Answer`, `Refuse` and `Submit` say.

Partly modelled: the view agent's panic when the directory of the pages cannot be created,
after which its task is lost (`manager_lost`), is left out of the pipeline; so is a stop or
a crash of the plugin, which `PluginHost` has without the agents.

Done, in the order of importance: the store and its refinement; the manager; the
paged fetch; the pipeline and its failures; the tally results; the host.

Next, in this order:

1. Proofs: what a proposal's page is when an insert has failed.
2. The pipeline on the store of `FallbackEntryStore`: a restart between entry and
   index, and between an insert and its view.
3. An abstract mirror of the chain, implemented by `PagedFetch`.
