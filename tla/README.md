# A TLA+ verification project for vstutils

vstutils is a framework for Django applications: a REST API with bulk requests
and change notifications, celery tasks, locks kept in a cache, management
commands that start and supervise the services, and a Vue front end. This
directory holds TLA+ models of the parts of it where several processes,
threads or callbacks meet, the TLC configurations that check them, and
theorems that the TLA+ proof system checks.

Every definition is translated from the source; `PROJECT.json` maps each one
to its lines. A comment above each property says which behaviour of the code it
is about. Operators that a comment calls *a mutant* are plausible bugs, written
next to the definition they would replace. They take no part in any
specification: they record which mistake breaks which property.

## 1. Inventory

### Parts that are modelled

| part | source | state it keeps | operations |
|---|---|---|---|
| Cache lock | `vstutils/utils.py`: `KVExchanger`, `Lock` | a key with a payload and a lifetime in the locks cache; `self.id` of each `Lock` object | `send`, `prolong`, `delete`, `Lock.__init__`, `__exit__`, `__del__` |
| Migration | `management/commands/_base.py`: `DockerCommand.migrate` | attempts, databases done, the local name `lock` | the retry loop, one subprocess per database |
| Beat scheduler | `celery_beat_scheduler.py` | the heap of the process, `scheduler_lock` | `tick`, `close`, the discarding first tick |
| Unique tasks | `tasks.py`: `TaskMeta` | calls, messages, workers | the wrappers around `apply_async` and `run` |
| Notifications | `models/cent_notify.py`, `middleware.py`, `api/endpoint.py` | `Notificator.queue`, open transactions | signal handler, `asend`, `clear_messages`, the bulk endpoint's POST and PUT |
| Web command | `management/commands/_base.py`: `run_process`, `management/commands/web.py` | `process`, `should_exit`, tasks and signal handlers of the loop | start, restart, stop, escalation, cancellation |
| Bulk endpoint | `api/endpoint.py` | results, variables and transaction of a request | POST, PUT, PATCH, references to earlier results, failed commits |
| Conditional requests | `models/base.py`, `api/base.py`, `utils.py`; in the front end `bulk.ts`, `QuerySet.ts`, `store/page.ts` | tags in the etag cache, responses in the browser's | renewal by the save signals, `check_etag`, `finalize_response`, 304, If-Match, 412 |
| Nested querysets | `models/queryset.py` | rows of the recursive query, `accumulated` | `get_parents`, `get_children`, with and without a recursive query |
| Subprocess executor | `utils.py`: `Executor`, `UnhandledExecutor` | `output`, the process, two coroutines | `execute`, `aexecute`, hooks, reader, working handler |
| Auto-update | `frontend_src/vstutils/autoupdate/`, `bulk.ts`, `store/page.ts`, `store/helpers.ts` | subscriptions, batches, timer, requests on their way, page stores | subscribe, publication, batch, timer round, answers, removal |
| Edit page | `store/page.ts`, `models/sandbox.ts`, `QuerySet.ts`, `fetch-values.ts`, the foreign key field | shown values, marks of what was typed, saves on their way | load, reload, edit, save, overwrite, cancel, leave, look-up of a key |

How they interact: migration, beat and unique tasks are three users of the same
lock, and each uses it differently (a `with` statement in a retry loop, an
attribute held for the life of a process, one lock for callers and workers). The
web command starts the processes that serve requests and run tasks. Requests of
one process share its `Notificator`; through Centrifugo the messages reach the
front end's auto-update, which asks for the changed objects by bulk requests. The
bulk endpoint serves them; an edit page saves through it, with the tag of the
data it shows. Notifications and the endpoint model the same requests from two
sides: `Notifications` keeps of a request only its transaction and its messages,
`BulkEndpoint` only its operations.

Which behaviours are hard, and what would make each part correct:

* **Cache lock.** `add`, a random sleep and `get` are separate cache calls of
  many processes; the default cache (a file cache, `settings.py:1049`) has no
  atomic `add`; the delete of a release does not look at the payload, and after a
  `with` statement or a call of `release` it is done a second time when the object
  is destroyed; the key expires under a slow holder; a
  process can be killed between storing the key and knowing that it holds it.
  Correct means: one holder, whose payload stays under the key; a locker that was
  refused removes nothing; every attempt returns or raises; an orphaned key goes.
* **Migration.** The name `lock` outlives the `with` statement, so the object of
  one attempt dies in the middle of the next. Correct means: one node migrates at
  a time, a node that has finished leaves no key, every node's start ends.
* **Beat.** The lock is taken once and then only touched. Correct means: one
  leader, failover after a death or a shutdown, no due task lost by a leader.
* **Unique tasks.** Caller and worker compete for one lock. Correct means: one
  run at a time, no key left by calls and runs that return or raise, a message
  dropped only for the reason that is given.
* **Notifications.** All requests of a process share one queue, which a failed
  POST clears and any response publishes; messages are queued before the
  transaction is committed. Correct means: clients end up with what the database
  holds, nothing waits for the next request, a rolled-back POST is silent.
* **Web command.** Signals, crashes and cancellation hit `run_process` at any
  await; two services share one handler. Correct means: no orphaned child, no end
  that nobody asked for, crashed children replaced, SIGTERM and SIGHUP obeyed.

* **Bulk endpoint.** Threads share a list of results and a table of names, a
  transaction stops at the first failure, a commit can fail, and a view that
  answers with an error keeps what it has written unless the whole request is undone
  (`atomic()` undoes for an exception only). Correct means: a POST writes everything
  or nothing, what an answer calls saved is saved, a reference gets the result it
  names, requests that lock each other's rows end.
* **Conditional requests.** Tag, data and transaction of a save are three things in
  three places, nothing is locked between the comparison of a tag and the save it
  allows, and the receivers that would renew the tags when a related row is saved are
  weakly referenced and collected. Correct means: a stored response with a current
  tag is current, and no save overwrites what its user has not seen.
* **Nested querysets.** Parents may form cycles and diamonds, and there are two
  implementations. Correct means: they end, return the whole subtree and agree.
* **Executor.** The process, the reader, the thread that writes a line and the
  collection of the exit status go on independently. Correct means: the output is
  whole when it is returned, a failure is raised, a call ends with the output.
* **Auto-update.** Publications, sleeping batches, polling and answers in any order.
  Correct means: a change that was published is shown in the end, pages do not
  stay in the loading state, the subscription tables agree.
* **Edit page.** Answers and look-ups arrive while the user types. Correct means:
  what was typed is not lost silently, what others saved is not overwritten
  unasked, the page does not stay loading.

### Parts that are not modelled

* **Tarantool drivers** (`drivers/cache.py`, `drivers/kombu.py`). Their state is in an
  external server and in kombu's virtual channel. By inspection the cache departs
  from what `VstLock` assumes of one: `add` is refused by an expired tuple until
  the server's expiry daemon has removed it, `touch` revives such a tuple, `get`
  deletes a key that never expires (its expiry is -1) and may delete a value stored
  since its look-up. The broker puts unacknowledged tasks back on close and the
  server releases them as well, so they can be delivered twice.
* **Shared decorators and `KVExchanger.get`** (`utils.py`).
  `raise_context_decorator_with_default` keeps its failure flag, and
  `model_lock_decorator` the key of the current call, on an object that all
  threads share; `get` reads and then deletes. Races of two steps that need no
  model to be seen.
* **OAuth2, registration, password reset, second factor**: handlers over one cache
  key or one row each; authorization and confirmation codes are looked up and
  removed in separate steps. The protocol is authlib's.
* **List-backed models** (`models/custom_model.py`): a data algorithm. It departs from
  Django's querysets: a second filter on a field replaces the first, `exclude`
  drops rows that lack the field, a slice of a slice counts from the start of the
  list, a filter after a slice is not refused.
* **REST views, serializers, fields, schema generation, model declarations**:
  sequential code inside one request or at declaration time: conversions of single
  values and functions of declarations, which unit tests reach.
* **User cache, web push, Celery worker command, LDAP, settings, templates,
  translations, project generator, front-end start, views and layout**:
  configuration, library calls or pure I/O.

These parts are most of the repository's lines and have no state that several
actors change, so the models cover a small share of its lines.

`PROJECT.json` lists every part with its status, and under `hazards` the places
in the code where something can go wrong that a test would hardly reach, each
with the properties that would catch it. Where the code does let it go wrong, a
property cannot hold; the hazard then has a note that says so, and section 3 says
what TLC shows instead.

## 2. Modules

    ExclusiveSection      what a lock promises
      ^ refined by
    VstLock               one lock id of the cache     VstLock_proofs
      ^ extended by
      |-- MigrationLock   migrate of several nodes     Commands_proofs
      |-- SingletonBeat   beat processes               SingletonBeat_proofs
      |-- UniqTask        callers and workers          UniqTask_proofs
    Notifications         requests of one process      Notifications_proofs
    BulkEndpoint          operations of bulk requests  RestApi_proofs
    Etags                 tags, server and browser     Etags_proofs
    DeepNested            get_parents, get_children    RestApi_proofs
    Executor              subprocesses                 Commands_proofs
    Supervisor            the web command              Commands_proofs
    AutoUpdate            pages and bulk.ts            Frontend_proofs
    EditPage              the edit page, its sandbox   Frontend_proofs

Each `MC` module adds what TLC needs: definitions of derived constants and symmetry
sets. `Commands_proofs`, `RestApi_proofs` and `Frontend_proofs` hold the theorems of
components that share no state; these components name their state and actions apart,
so that one module can extend them all. The three users of the lock compose with it by
extending `VstLock`: one of their steps is one of the lock's steps for one of their
lockers, joined with what their own code does in the same step, or leaves the lock
alone. For beat and tasks that is a theorem (`BeatUsesTheLock`, `TasksUseTheLock`), so
what is proved of the lock holds for them. A migrating node takes one step that is not
the lock's, the death of its container (below).

### VstLock

A locker is a `Lock` object, created any number of times. `value` and `ttl` are
the cache entry, `pc`, `id` and `waited` the object. Each cache call is a step.
`Add` is `cache.add` of a cache where it is atomic; `LookUp` and `Write` are the
two halves of the file cache's. `Slept` guards the check that follows the random
sleep. `Exit` and `Del` are the two releases, always two steps between which
anybody may step: `release` leaves `self.id` set, so `__del__` deletes the key again,
whoever's it is by then. `release(force_release=True)` has no caller and is left out.

So the code does not keep a lock exclusive, and the properties have to say what it
does keep. `robbed` is a history variable: the holders whose key has been deleted by a
release of somebody who has already released, or has lost the key that way (`Robbery`).
They go on inside their sections without a key. `Section`, `HolderOwnsKey` and
`Mutex` speak of the holders that are not robbed; that robbed ones are beside another
is what `OneMigrator`, `OneLeaderAlways` and `UniqueRunAlways` show (section 3).

Three constants say what the environment is like:

* `AtomicAdd`: the kind of cache.
* `SettleOutlasts`: the random sleep outlasts the write of any `add` that has
  begun. The code relies on it and cannot guarantee it.
* `Punctual`: sections are shorter than the key's lifetime, and a waiting locker
  wakes up before time goes on.

Time is relative (remaining lifetime, time waited), so no clock has to be bounded.

### MigrationLock

A node has two `Lock` objects: the one of the current attempt (`Using`) and the one
the name `lock` still refers to (`Bound`). `Bind` is the `as lock` that destroys the
latter, `Return` the end of the frame. `Killed` restarts a container at any point: the
new one has new objects, with new payloads, so a key the old one has left becomes that
of a third object, `Orphaned`, which takes no step. A failing subprocess may be any of
the databases.

### SingletonBeat

A locker is a beat process. `due` is the part of its heap whose time has come,
earliest first; celery's `is_due` is the external action `ComesDue`. `Touch` and
`Send` are the two halves of a tick of a leader. `Close` deletes the key, and
`Terminate`, the end of the process, deletes it a second time; a process that is
killed does neither.

### UniqTask

Callers and workers are the lockers of one id. `Publish` happens inside the
caller's section, as in the code. The end of a `with` statement is the lock's two
releases, `Exit` and later `Del`. `met` and `killed` are history variables for
the properties. Messages are acknowledged when they are taken, celery's default.

### Notifications

A request is a bulk request of up to `MaxOps` operations, each any number of
writes. The queue is a set of objects: messages of a batch are merged and a client
only reads the object again. `stale` is what clients show that is older than the
database. `TakeQueue` and `SwapQueue` are the two halves of the statement that
empties the queue; `AtomicSwap` says that no thread runs between them. PATCH
(parallel operations), `send()` and the temporary notificators of
`bulk_notify_clients` are not modelled.

### Supervisor

`loop[s]` is where the `run_process` of a service is, `child[s]` what its
variable `process` refers to, `handler` the service that registered its signal
handlers last (a loop has one per signal). What the event loop does between
two awaits is one step. Ctrl-C is pressed at most once: a second one in the
middle of the cleanup is not modelled.

### BulkEndpoint

A request is a program: a list of operations, each of which reads or writes a row
and may refer to the result of another by number or by name. `Validate` formats the
template, `Succeed` and `Fail` end an operation and its own transaction, `Take`
appends its result. `Fail(r, i, written)` has two cases: the view raised, and its
writes are undone, or it answered with an error, and what it had written stays, with
the operation's own transaction (PUT, PATCH) or pending in that of the request
(POST). `Commit` and `CommitFails` end a POST's transaction, `Respond` is the
answer, a step of its own: `Die` is the end of the process before or after the
commit. `Due` is where the methods differ: POST and PUT begin an operation when the
result before it is taken, PATCH whenever a thread is free. Row locks are the
database's. `used` records what a reference was replaced by.

### Etags

Both ends of a conditional request. A save is three steps: `Write`, the signal that
renews the tags (`SetTags`), and the end of the transaction. `Read` and `Respond`
are separate because `finalize_response` looks the tag up after the data have been
read. `mixed` records that a write overlapped a request, `missed` that the etag
cache failed after a save in autocommit. `Related` are the rows of
`_cache_related_labels`. `Heard` says whose saves renew tags: theirs only with
`Debug`, since otherwise their receiver, a local `partial` connected weakly
(`models/base.py:269-276`), is collected as soon as the class is made. Uuids are the
least number nobody holds, and become unused again.

### DeepNested

`Recurse` is a round of the recursive query, `Descend` a call of the recursion.
The table is any relation. The reference definition is `Below`: the smallest set
closed under the relation. Where a selected object is below another selected one
and the current ones are not asked for, the two ways differ (the recursive query
keeps it, the recursion removes it); sliced querysets are another difference (the
query applies the limits to the result, the recursion raises).

### Executor

`phase` is where a call is, `process` its process, with the return code asyncio has
collected; it may close its output before that. `reader` and `watcher` (the loop over
`working_handler`) are the two coroutines of `asyncio.gather`, `outcome` is the output
that is returned or raised with. `mixed` records the calls that shared the object's
output, `lost` the lines `write_output` failed on, which the code swallows. A call
whose process has not been collected finds None and passes, though the process may
exit with 1 afterwards: `proc.wait()` is never called. After a failure of one
coroutine the other is left to itself and the process is not killed.

### AutoUpdate

A visit is one opening of a page with a store of its own. `bulked`, `links` and
`executing` are the batch that waits behind the random sleep and the promise
chain; `collected` and `flights` are the queue of `bulk.ts` and its requests,
answered in any order; `Settling` settles the promises of an answer one after
another. `astray`, `overtaken` and `failures` are history: data that
went to a successor page (`updateData` writes to the page that is current when the
answer comes), an older answer that came last, and failed requests.

### EditPage

`shown` is what the form shows, `changed` the sandbox's marks, `typed` a history of
what the user has typed and not saved. `saves` are on their way until answered. On
the server a save is three steps, between which others save: `Compare` looks at the
tag, `GetObject` reads the row and sets on it what was sent, `Write` writes all
fields of the row, those a PATCH did not send too. The answer may be lost after
that. `moved` are the fields others have changed since the comparison. A tag here
goes with the row's version; that a tag is renewed before the commit and read after
the data is the subject of `Etags`. `raw` are keys whose object is being looked up.
Two things the code does that the properties exempt: the overwriting save is not
awaited, so the user types while it is under way and its answer unmarks that
(`under`); a late look-up replaces a newer value and marks nothing (`late`).

## 3. What the runs check

| run | instance | shows |
|---|---|---|
| `Migration_ends` | 2 nodes, 2 databases, 2 attempts, slow migrations, kills | starts end, finished nodes leave no key; of the lock: refused lockers remove nothing, attempts end, orphaned keys go |
| `Beat_leader` | 2 processes, 2 entries, 1 outage, both releases | one leader that has not been robbed, failover, nothing leaves a leader's heap but by being sent |
| `Uniq_unique` | 2 callers, 2 workers, file cache, both releases | one run at a time of those not robbed, no leaked key; of the lock: a holder that has not been robbed has its own payload under the key, and those holders implement `ExclusiveSection` |
| `Notify_serial` | 2 requests, 2 objects, 2 operations | in sync while requests do not overlap; nothing left behind in any overlap |
| `Supervisor_two` | 2 services, any signals, crashes, failed starts | no orphan, no unasked end, restarts and stops happen |
| `Etags_serial` | 2 browsers, a row and a related one, 2 saves, DEBUG off | undisturbed responses are current in the rows that are heard of while their tag is, undisturbed saves have been seen |
| `Bulk` | 2 requests of up to 3 operations, 2 rows, 2 threads, any method, errors with and without an exception | transactions, truth of answers, references, every request ends |
| `Deep` | all relations of 3 objects, all parent functions of 4 | whole subtrees, both ways agree, cycles end |
| `Exec` | 2 calls on one object, 2 lines and 1, any end of the process | whole output of calls that share nothing, calls end |
| `Live` | 2 visits, 2 objects and their list, 3 events, 2 requests on their way | published changes are shown, loading ends, tables agree |
| `Edit` | 2 fields, one a key, 3 kinds of view, 2 saves of others, 1 reload | nothing typed is lost unasked, nothing others had saved when the tag was compared is overwritten unasked, loading ends |

`StaleIsBeingRefreshed` demands a refresh of any subscribed page, one whose first load
has not shown anything yet included. Each module with state states a type invariant;
these are proved (section 4), as is `Mutex`, and the runs spend their time on the
properties above.

One run shows that the code does not do what a message of the repository says.
`Migration_retry`: a retry binds its `Lock` to the name `lock`, so the `Lock` of the
failed attempt is destroyed, and `__del__` releases a second time because
`release` never clears `self.id`. The key it deletes is the retry's, and another
node migrates beside it.

The models show more of this kind. Some of these promises are stated as
definitions that no run lists, because the code does not keep them; TLC refutes
each on a small instance:

* `OneLeaderAlways` and `UniqueRunAlways`: between the release of a lock and the end of
  its object another process is elected, or lets its worker run; the second release
  deletes that one's key, and yet another joins it. For the beat the gap is the rest of the
  shutdown after `close()`, for a task the moment between `__exit__` and `__del__`.
* `OneLeader` with `Punctual` FALSE: a leader whose ticks are further apart than the
  key's lifetime goes on sending beside the process that took the key.
* `RejectTellsTruth`: a worker that gets the message while its caller is still in
  `apply_async` is refused, drops the message for good and names another worker
  as the reason, though there is none.
* `ClientsInSync`: a failed POST clears the queue, and with it the message of
  another request, whose change is committed and never announced.
* `TermIsObeyed`: a SIGTERM that arrives while a crashed service is being started
  again is acknowledged in the log and then lost.
* `CurrentTagIsCurrentData`: a read gathers its data, a save renews the tag, and the
  response gets the new tag with the old data. It fails without any overlap too: after
  the save of a related row the tags stay as they are (with DEBUG off), while
  `doc/backend.rst:93` has the responses stay up-to-date.
* `NoBlindOverwrite`, `OthersAreAlwaysKept`: two browsers compare their tags before
  either saves, and the second undoes what the first has saved. A PATCH does so even to
  a field it did not send, since `save()` writes the row it has read.
* `FailureWritesNothing`: an operation of a PUT or PATCH writes and then answers with an
  error; its result is a failure, its writes are committed.
* `VerdictIsTrue` holds only with its exception for a return code of None: a call whose
  process fails returns its output as a success if asyncio has not collected the exit
  status when the output ends.

**Bounds.** Two nodes have four `Lock` objects, and the task run four lockers: the
second release needs one that leaves, one that enters and one that finds the lock
free. `Timeout` and `Repeat` are of the size at which a key can outlive an attempt
and an attempt can outlive a key; in `Migration_ends` a key can outlive both
attempts of a node, so that a start gives up beside the key of a killed container.
Two attempts are the first that retry, two databases the first of which one can fail
after another has succeeded. Two beat entries give an order, one outage a failover;
`MaxOutages` and `MaxOps` are the bounds on otherwise endless behaviour. Two
requests with two operations on two objects overlap in every pair of phases. The web
command has one service or two. Three operations are more than there are threads,
and the two requests write the same rows in opposite order, and any of their
operations may write and then fail; the programs refer by number, by name, to later
and to failed results. Two saves are the first of which one overwrites the other;
the tagged resource of the conditional requests is one row that shows itself and a
related one, as the list of the rows has a tag by the same code. Three objects have
every shape of cycle and diamond, four a chain long enough for a second round. Two
lines have an order. Two visits are a page and its successor, three events a change,
a failure and another change. The violation is shown on the smallest instance that
has it.

**Fairness.** Time passes however busy the lockers are, which is strong fairness
of `Tick` in `VstLock` (where `Punctual` can disable it for a while) and weak
fairness where it is always enabled. The code's own next step is weakly fair, a
choice of the user or the outside world (starting, crashing, signals, writes, the
end of a child) is not. `SingletonBeat` also assumes that a process that finds the
key free again and again adds it once, and that one that reaches the check again
and again is in time once: the naps of `Lock.__init__` are random. `Supervisor`
assumes only that the event loop runs what is ready and its timers, never that a
child ends by itself. `Notifications` assumes that requests end and clients read
what they are told to.

`BulkEndpoint` assumes that the threads and the database go on, and that it ends
deadlocks. `DeepNested` is one computation that goes on. `Executor` assumes that the
event loop runs, that hooks and `write_output` return and that the loop over
`working_handler` looks again; of the process nothing. `AutoUpdate` assumes that the
event loop runs and the server answers or the request fails, that the timer fires,
and that requests pause for the 100 ms after which `bulk.ts` sends: each new one
restarts its timer, and nothing in the code guarantees the pause. `EditPage` assumes
that each request is answered or fails and its answer handled.

Deadlock is not checked where the system really stops: the web command when it has
ended, bulk requests when they are answered, a query when it has returned, calls when
they have, a user who has left the last page.

## 4. What is proved

For every number of lockers, processes, callers, workers, requests and objects:

* **VstLock_proofs.** `TypeCorrect` and `RefusedRemovesNothing` need no assumption.
  `HolderOwnership`, `MutualExclusion` and `LockImplementsSection` assume `SoundUse`:
  sections are punctual, and the add is atomic or the sleep outlasts it. They are about
  both releases as the code makes them, hence about the holders that have not been
  robbed; that as long as nobody is robbed the section is exclusive without exception is
  `StrictExclusion`. `HolderOwnsKey` is not inductive: a late write could overwrite a
  holder. The invariant `ExclusionInv` adds that no write is under way while someone
  holds the lock (`NoLateWrite`), that `self.id` is set only by the check
  (`IdMeansVerified`) and that a stored key has time left (`StoredIsLive`). The
  refinement follows step by step: the check is `Enter`, a release or a crash of a
  holder is `Leave`, the rest stutters.
* **SingletonBeat_proofs.** `BeatUsesTheLock`: every beat step is a step of the lock.
  Hence, under `SoundUse`, `ExclusionInv`; and a leader is a holder (`LeaderHolds`):
  `SingletonLeader`. `BeatTypeCorrect` without it: entries are finitely many, so a heap of
  distinct overdue entries has room for one that is not in it.
* **UniqTask_proofs.** `TasksUseTheLock` and `UniqueRunning` the same way, and with
  them `TasksImplementSection`: callers and workers implement `ExclusiveSection`.
  `NoLeaks` needs no assumption on the environment: a key present belongs to a locker
  that is between its store and its release (`KeyHasOwner`), unless a process was
  killed. `UniqTypeCorrect`.
* **Notifications_proofs.** `NotifyTypeCorrect`; `NothingWaits`, because a queue that
  is not empty has a request before its swap (`QueueHasTaker`); `SerialSync` and
  `RefusedPostSilence` from an invariant (`SerialInv`) that follows a single request
  through its phases and says where each stale object is still known: in the open
  transaction, the queue, the batch or a message on its way.
* **Commands_proofs, web command.** `SupTypeCorrect`; `NoOrphan`, because a child
  lives only while its service waits for it or stops it (`ChildHasKeeper`);
  `EndsOnlyWhenTold`, because until a stop signal, Ctrl-C or a failed start no flag is
  set and no service returns (`Undisturbed`).
* **Commands_proofs, migration.** `MigrationTypeCorrect`, `NoKeyAfterStart` and
  `RefusedStartRemovesNothing`, for any nodes, databases, attempts, caches and
  lifetimes. That a finished node leaves no key is not inductive: its two objects
  must be shown to have been released. The invariant (`MigrationInv`) says which
  state both objects are in at each step of the node (`ObjectsFollowSteps`), that a
  stored payload is that of an object which has not been through a release
  (`StoredByLiving`), that a holder has what it takes to delete (`HolderMayDelete`) and
  that a node which tries has attempts left (`AttemptsLeft`).
* **Commands_proofs, executor.** `ExecTypeCorrect` and `WholeOutput`, for any calls
  and any output. `ExecInv` says that an unshared output is at all times the lines
  read so far, in order, without those `write_output` failed on (`OutputGrows`), that
  who has not had to share is alone (`Alone`), and that a call is judged at the end of
  its output (`ReadersFollowPhases`).
* **Etags_proofs.** `EtagTypeCorrect`, `FreshTags`, `SeenSaves`. That a current tag means
  current data is not inductive, because data are read, tagged and stored in
  separate steps and a save renews tags before it commits. The invariant adds: an
  undisturbed request is alone with the rows (`Alone`) and what it has read is still
  there (`ReadIsCurrent`); a stored response whose tag is current is right row by
  row, for the rows that are heard of, but for one whose autocommit save has not
  renewed the tags yet (`LiveIsRight`), and no open transaction is going to change one
  (`NoPending`).
* **RestApi_proofs, bulk endpoint.** All five invariants, for any programs and any
  number of threads. Per request: which operations are due, running and taken
  (`Work`), what a reference has been replaced by (`References`), and which writes are
  pending or committed (`Outcome`): all those of operations that succeeded (`Done`), and
  none but those of operations that have ended in the view (`Tried`), since an error
  may keep what was written. A step of one request changes nothing of another
  (`Frame`).
* **RestApi_proofs, nested querysets.** `WholeSubtree` and `SameAnswer` for any
  relation, infinite ones included. `Below` is closed and the smallest such set; the
  recursive query never leaves it and has expanded every row it does not still work on
  (`QueryInv`); what the recursion has accumulated has its relatives accumulated or in
  the next level (`RecursionInv`). With nothing left to do, the set is closed, hence
  all of `Below`.
* **Frontend_proofs, edit page.** `EditTypeCorrect`, `TypedIsAskedAbout` and
  `OthersSurvive`, for any fields, foreign keys and number of saves on their way. That
  what is typed is marked is kept by the answer of a save, which removes marks, only
  because a save carries all that was typed before it, as it is shown
  (`SavesCarryTyped`); that others are kept, up to the comparison of the tag and in
  every field nobody has changed since, because a tag that is the row's stands
  for the row's values, in the form, in a load and in a save (`FreshTagIsRow`), and
  because a save is made as its view demands (`SavesFollowView`).
* **Frontend_proofs, auto-update.** `AutoTypeCorrect`, `ListenersAreCounted` and
  `NoChangeIsForgotten`, for any visits, objects, changes and requests. The batch that
  waits has a link of the chain for itself, besides the one that runs
  (`BatchIsLinked`), a subscribed page is called for its own data (`OneWay`), a request
  is that of a page which has been opened and loaded (`RequestsAreOfPages`), and
  nothing shown or answered is newer than the server (`NothingFromFuture`). The answers
  of a bulk are settled one by one, by a recursive function over the requests: after
  each the page shows the newest version if any answer so far was it, or `astray` or
  `overtaken` tells why not (`SettlingKeeps`). That proof is an induction over data
  without the library's induction theorems, by the least number for which the claim
  fails (`LeastNumber`), as is that the recursive function exists (`SettlingStepwise`).

The assumptions of the theorems are those of the modules on their constants, each
evaluated by a run, and `SoundUse` where it is named. TLC checked each inductive
invariant on the instance of its component's run before it was proved.

Every invariant and action property of the passing runs is stated by a theorem. Only
model-checked are the liveness properties, which are out of the prover's reach:
`EveryAttemptEnds`, `OrphanIsFreed`, `MigrationEnds`, `Failover`, `DueIsSent`,
`ChangeIsSeen`, `TermWhileWaitingIsObeyed`, `CrashIsRepaired`, `HupIsObeyed`,
`EveryRequestEnds`, `QueryEnds`, `ExecutionEnds`, `PublishedIsShown`, `LoadingEnds` and
`FormComesBack`; and, on the smallest instances, that the code does not keep
`OneMigrator` and the definitions listed in section 3 that no run lists.

## 5. Plan

Done: the lock, its abstract specification and its three users; notifications and
the bulk endpoint; conditional requests; nested querysets; the executor; the web
command; auto-update and the edit page; theorems for every safety property of the
runs. Left:

1. Abstract specifications with refinements for components that have none: what a
   bulk transaction promises (all writes at once, or none) for `BulkEndpoint`, and a
   page that is replaced by newer data only for `AutoUpdate`.
2. The composition of `AutoUpdate` with `Notifications` (now an external publication),
   and of `EditPage` with `Etags` (now `fresh`).
3. An abstract `Cache` with expiry in the place of `VstLock`'s, and the Tarantool
   driver's departures from it.
