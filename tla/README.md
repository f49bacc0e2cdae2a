# PAIOS: specification and verification

TLA+ modules for PAIOS, the personal scheduling system in this repository
(`backend/paios`, with a relay, a launcher, an updater and desktop and mobile
clients around it).

## 1. Inventory

| component | state it keeps | operations | interacts through |
|---|---|---|---|
| domain (`backend/paios/domain`) | aggregates and their transition histories | transitions guarded by the tables in `state_machines/definitions.py` | values |
| runtime kernel (`runtime`) | Runtime State: Events, Context Windows, Recommendations, Disturbers, the Execution Context | boot, shutdown, admit_*, activate/expire_context_window, set_execution_context | synchronous event bus |
| scheduler (`scheduler`) | its cycle state, planning facts per Event, the plan, the coalesced signal | one recalculation cycle, user actions | kernel calls; one bus topic |
| planner (`scheduler/planner.py`) | none | order candidates, assign slots | called by the cycle |
| infrastructure | none | persistence sync (bus to repositories), recalculation bridge (bus to scheduler) | bus subscriptions |
| repositories | one JSON file per aggregate type | whole-file read, modify, atomic replacement | called at boot and by the sync |
| application | lifecycle flag | tick, report_disturber, propose_user_event, delegation; domain operations beside the runtime | facade over kernel, scheduler and repositories |
| daemon (`daemon`, `system/daemon_runner.py`) | a pid file, a request to stop, a loop | run, start, stop, restart | files between processes; ticks the application |
| decision engine (`decision_engine`) | none | candidates, filters, ranking over a snapshot | called by the tick |
| planning, assistant | stores of notes, journals and recurrences | text; one record at a time | application, external models |
| learning | none; no program constructs it | pure analysis of history | - |
| HTTP API | pairing tokens, settings | handlers under one domain lock | application |
| relay (`relay/paios_relay`), relay connector (`system/relay_client.py`) | queues of requests, waiters for answers, seen nonces | submit, drain, answer, time out | HTTP from both sides |
| launcher (`launcher/paios_launcher`) | a record per child process, a mutex, a sentinel file | start, poll, restart with back-off, pause, stop | processes, files, tray |
| updater, installer (`updater`, `installer`) | installed files, an archive, version.txt | check, apply, roll back, remove | files that may be in use; the launcher |
| mobile client (`frontend/mobile/lib`) | offline queue of captures; the connection in use and those on their way out | enqueue, flush; look for a path, replace, poll | HTTP, directly or through the relay |
| command line, dashboard, desktop client | none that outlives a command or a screen | | application, HTTP API |

What makes each hard, and the property that says it is right:

* **scheduling core** (scheduler, planner, kernel, bridge). One thread, but many
  orders: user actions, disturbances, ticks, time and restarts. A cycle has
  stages that read what an earlier stage or an earlier cycle left; state is kept
  twice (Execution Context and statuses, planning facts and Events, windows and
  Events). Right when one Event runs at a time, everything kept twice agrees,
  acceptances are neither lost nor doubled, and the plan holds the work there is.
* **guidance** (tick, decision engine, reflections). Reasons are made from facts
  of the last start and from Events of the moment, and offers lapse. Right when
  nothing is said twice, nothing is starved by the cap, and what the process does
  not know of the store does no harm.
* **recovery**. Each change is written by itself, and an operation makes several.
  Right when boot accepts what a crash left and finishes or forgets what was
  underway.
* **daemon as a process**. Two files are all that keeps two processes off one
  store. Right when they do, and a request ends the daemon it was made for.
* **captures** (offline queue, relay hub, connector, journal). Right when each
  capture arrives once: unreliable delivery, retries, timeouts.
* **connection of the phone**. One thread, many awaits, and a client that is
  replaced while others wait on it. Right when no request is cut, no client is
  left open, and the phone finds its way back.
* **launcher**. Crashes, restarts with a budget, operator commands in between.
* **updater and installer**. One of many files cannot be replaced, the program is
  started again meanwhile, or the run is killed.

`PROJECT.json` lists every component and, under `hazards`, each of these
difficulties at its line.

## 2. Modules

| module | what it is |
|---|---|
| `EventLifecycle` | the statuses and the edges of the four state machines of the core |
| `Planner` | the deterministic planner, over distances from now |
| `MCPlanner` | the planner against absolute time, for TLC |
| `Scheduler` | the scheduling core: scheduler, the kernel operations it calls, the application's entry points, restarts |
| `ExecutionSlot` | abstract: what the core promises about execution |
| `MCScheduler` | small instances of the core |
| `SchedulerProofs` | inductive invariant of the core and what follows from it, its plan and histories; the planner against absolute time; the core implements `ExecutionSlot` |
| `OfflineQueue` | the phone's queue of captures, its flushes, and the desktop's journal |
| `RequestDelivery` | abstract: what relay and connector promise about one request |
| `RelayHub` | the relay's rendezvous and the desktop's connector |
| `RelayHubProofs` | inductive invariant of the relay; it implements `RequestDelivery` |
| `Recovery` | the scheduling core one write at a time: crashes, failed writes, boot |
| `RecoveryProofs` | inductive invariant of store, Runtime State and writes underway, and what follows from it; the store implements `ExecutionSlot` write by write |
| `Guidance` | the tick as the decision engine fills it, what the user does with it, reflections |
| `MCGuidance` | a small world of facts for it |
| `GuidanceProofs` | inductive invariant of offers and links and what follows from it |
| `DaemonRunner` | pid file and request to stop, between daemons and commands |
| `DaemonProofs` | inductive invariant of the two files and what follows from it |
| `Launcher` | the supervisor, its operators, start and shutdown of PAIOS.exe |
| `MCLauncher` | two children and a policy |
| `LauncherProofs` | inductive invariant of the supervisor and what follows from it |
| `Upgrade` | updater, installer and uninstaller over the files of an installation |
| `UpgradeProofs` | inductive invariant of the pipeline and what follows from it |
| `PhoneConnection` | the phone's client: look, replacement, requests, closing |
| `MCPhone` | one address, three places the phone may be |
| `MobileProofs` | inductive invariants of the phone's queue and of its clients and what follows from them |

### How Scheduler corresponds to the code

*State.* `status`, `window`, `rec`, `disturber` are the aggregates in Runtime
State; an Event and the window it owns, and the Recommendation it was
materialised from, share a name. `context` is the Execution Context.
`candidates` is `Scheduler._candidates`, `plan` is `Scheduler._plan`,
`schedState` is `Scheduler._state` between cycles, and `pending` is
`Scheduler._pending` together with the signal just raised. `contextsKnown` says
whether the store held a Context at boot (Contexts are not admitted at run time).
`age` stands for the dates of a Recommendation.

*Actions.* One per public operation. The API server takes one lock around each
handler and the daemon owns its kernel, and the Scheduler refuses re-entry, so an
operation is atomic within a process. The recalculation signals it raises run as
one cycle as soon as it returns: `pending` is not `"None"` until that cycle has
run, and every operation waits for `AtRest`. The cycle (`RunCycle`) is the
composition, in the order of `_run_cycle`, of disturbance, expiry, consumption,
advancing, overtaking and planning. Consumption and window changes raise a signal
of their own, so one more cycle follows. An operation that the lifecycle refuses
after it paused the running Event is an action too (`StartRefused`,
`ResumeRefused`), and so are a cycle that raises (`CycleAborts`) and the cycles
refused afterwards (`CycleRefused`). `Restart` may come at any point between two
steps: what is stored survives, the plan and its facts do not.

*Time.* There is no clock value: the wait until a candidate's earliest start, the
start of a slot and the age of a Recommendation are kept relative to now, each
capped where no comparison of the code can tell further values apart. `Planner`
keeps candidates in a queue ordered by earliest start, so that the order of past
moments survives the cap; `MCPlanner` checks that this gives the plan the
source's sort by absolute time gives.

*Left out.* Several users (the desktop product has one, and the kernel's
per-user test of windows is the same with one), reasons and descriptions,
snapshots, completion evidence (planned and actual times), the paused kernel
(nothing in the repository pauses it). Recommendations arrive at will; which ones
the decision engine produces is the subject of `Guidance`, and what a crash leaves
between two writes of one operation that of `Recovery`.

### How OfflineQueue corresponds to the code

*State.* `stored` is the queue in the phone's preferences as the program reads it
back, `disk` the queue as the device has it: a change is visible at once and
durable later, so a kill brings `disk` back. A flush (`OfflineQueue.flush` of
`offline_queue.dart`) is a coroutine, and nothing keeps the poll and the screens
from running one each: `stage`, `entries` and `reply` are its program point, the
copy of the queue it decoded at its beginning, and what the desktop has made of
its request. `journal` is the daily log of the desktop; a capture stands for its
`client_id`. `confirmed` are the captures of which `enqueue` has returned.
`refused`, `overlapped` and `destroyed` (what was recorded when a write cut the file
short) are histories for the properties.

*Actions.* What lies between two awaits is one action: `Enqueue`, `FlushBegins`,
`Answered` (an accepted or refused entry leaves the flush's copy, which is
stored), `TurnedAway` (a 401 ends the flush), `Unanswered` (a timeout, no route,
or an error of the relay, whose `error` is a text where the client expects a
record, so that it raises too), and `Persist`, the completion of the writes under
way, after which flushes go on. On the desktop `Handles` is `_post_mobile_logs`,
under the domain lock, with the authorisation before it; `WriteFails` is a write
of `logs.json` that fails, or in the middle of which the desktop goes down. It
overwrites the file in place (`stores.py:56`): the file is as it was (`JournalKept`),
or cut short, and then it does not parse and every capture recorded before is lost
with it (`JournalCut`). A request that the phone gave up may be handled at any later
time, and its write may fail too (`HandlesLate`, `LateWriteFails`). Requests of one capture are the same, so `late` is a set. A new
pairing issues a new token, so what is on its way is then turned away.

### How RelayHub corresponds to the code

*State.* `phone` is the relay's thread of each request, `waiter` the entry of
`_pending`, `pending` the account's list, `poll` and `carried` the relay's thread
of each poll and what it drained, `connected` and `fresh` the heartbeat against
`offline_seconds`. `connector`, `current`, `batch` and `result` are the program
point of the connector's thread. A connection may break without the relay's
knowing: the loop polls again while the thread of the broken poll still waits,
and drains the queue for nobody (`OrphanEnds`). `late` are answers the connector
believes undelivered. `lingering` are requests the local API still works on after
the connector's timeout: it has one lock, which a tick may hold.

*Actions.* One per step of a thread between two points where another thread can
interfere. `await_response` looks at the event and removes the entry in two steps
(`TimesOut`, `GivesUp`): an answer may come in between and is dropped. `drained`
and `clear` are one step, under the account's condition.

*Bounds and simplifications.* One account, as the hub keeps everything per
account. `HeartbeatAges` waits until no poll waits, since a poll waits at most
`poll_seconds` (25) and the heartbeat is good for `offline_seconds` (30).
`touch` and `desktop_disconnected` have no caller. There is one loop: the connector's
`stop` joins its thread for `poll_timeout` and two seconds (`relay_client.py:131`), and
a thread that takes longer - it serves a batch - goes on beside the one that a `start`
soon after creates; two loops at once are not modelled. Tokens, the replay guard and
pairing are not modelled.

`OfflineQueue` relies on no more than `RequestDelivery` promises: a request is
executed at most once, perhaps after the phone gave it up (`HandlesLate`), an
answer comes after the execution, and a request that was turned away never
arrives. That is why the relay is shown to implement it.

### How Recovery corresponds to the code

*State.* `mem` is Runtime State with the Execution Context, `disk` the JSON files of
Events, windows, Recommendations and Disturbers. `todo` holds the writes that the
operation underway has yet to make, each with Runtime State as it is at that
moment, since the Kernel and the Scheduler change an entity, announce it, and the
persistence sync stores it before the announcement returns. `next` is the cycle
that follows. An Event made from a Recommendation is `<<r, k>>`, the k-th copy.

*Actions.* `Writes` makes the next write; `Fails` is one that raises, which ends the
operation and leaves Runtime State ahead of the files (`persistence_sync.py:49`);
`Restarts` is the end of the process and the boot that follows, which succeeds only
if `Bootable`. Each operation is the sequence of its writes in the order of the
code: a window before its Event, the Event of a Recommendation before `Consumed`.
Times, priorities and the plan are left out: a cycle may find any offer expired and
any slot due, which is more than the program does. So are archival, a paused Kernel
and several users. A file is replaced as a whole, so a write is stored or not.

### How Guidance corresponds to the code

*State.* `facts` are the resources, knowledge, projects, goals and habits in Runtime
State: read at boot and, as no operation of the runtime touches them, unchanged
until the next. `offers` are Pending Recommendations within their validity; what
lapsed is neither redundant nor acceptable. `known` and `linked` are the links from
Events to Reflections as the process and the store know them: `add_reflection` reads
and writes the stored Event, beside the copy in Runtime State. `reflections` counts the
stored Reflections of each Event, all of which `list_reflections` shows, and `strays`,
a history, those of them whose Event was not written.

*Actions.* `Tick` is `Application.tick` with `DecisionEngine.evaluate`: one
definition for each of the seven rules, `Feasible` and `Redundant` for the filters,
`Before` for the ranking. Its offers are admitted one by one, and `TicksPartly` is a
tick that ends with the process after the first of them. `Archives` writes the whole
Event as the process knows it. `add_reflection` stores the Reflection and then the
Event: `Reflects` is both writes, between which the lock of the API lets nothing else
happen, and `ReflectsPartly` the first of them only, when the second fails or the
process ends before it. Time is counted in intervals of the daemon; the
source has 60 minutes of validity and five offers a tick. Decisions about what is
accepted, due Events and disturbances are the subject of `Scheduler`: here an Event
is waiting (not begun, or abandoned), running, suspended, completed or archived.

*Left out.* The `violates_principles` filter and the historical component of the
score, because nothing in the program ever sets what they read; confidence and
explanation, which decide nothing; two ticks at one reading of the clock, which the
clock of the program does not give but which raise, as identifiers are made from
rule, subject and time; the second process that works on the same store.

### How DaemonRunner corresponds to the code

*State.* `phase` says how far each process is on its way through `run_foreground`;
`pidFile` and `stopFile` are the two files; `command` is the command of
`cli/main.py` underway, its next step and the process id it has read. `asked` and
`crowded` are histories: whom a request on file was made for, and whether the
boundary of what the files protect was crossed - a daemon was run by hand (as the
launcher does) beside another, or a command looked while a daemon had not yet
registered.

*Actions.* Every access to a file is a step of its own, in the order of the source:
a daemon erases old requests, registers, boots, loops until it sees a request,
closes the application, removes its id, then the request. `start` looks, spawns and
writes the id, `stop` asks, waits, gives up or tidies, `restart` is both, `restore`
refuses while a daemon is alive. `Dies` is a kill, `Cut` a command that is given up.
Process ids are not used again; a file is written or removed in one step.

### How Launcher corresponds to the code

*State.* One record per child, as `ManagedProcess`: `state`, `recent` (its restarts
within the window) and `due` (the delay before the next). `proc` is what a look at
the process would tell. `launcher` and `place` are the stages of `app.py`: start in
order, run, stop in reverse; `sentinel` is the file by which `--stop` asks. Moments
are ages, and delays what is left of them. `wish` and `answered` are histories.

*Actions.* `poll` one child at a time, with the restart budget and the back-off;
start, stop, pause and resume from the tray; a crash or an exit at any time; a
process that cannot be created, and one whose output file cannot be opened, which
leaves `start` before its `try` and the state as it was. The mutex is modelled by
there being one launcher; the lock file of other systems, crash reports and icons
are left out. A launcher that is killed leaves its children running, since nothing
ties them to it; the next one does not know them, which is where `DaemonRunner`
takes up.

### How Upgrade corresponds to the code

*State.* Each file of the installation is the version it is of: the launcher, the
updater, the uninstaller (only a standalone installation has one), version.txt, and
`Libs`, the files of the libraries. `Shipped` is what an installer puts there,
`Program`, the launcher and the libraries, what the archive of an update holds. `stage`, `todo` and `failed` are the program point of
updater and installer, `backup` the archive of the update, `app` the launcher, which
holds its own file open while it runs. `mishap` is the worst that happened since an
installation was last completed.

*Actions.* `UpdateEngine.apply` from the check to the restart with its rollback; the
installer's copying, file by file, with files in use that cannot be replaced (in any
order for a standalone installation; packages, launcher, updater, version.txt for a
legacy one); the health check; the stamp of version.txt; the uninstaller, which
cannot remove itself, with what it does to the data. A standalone installation
without its updater cannot be updated (`CanUpdate`). The user starts and quits the
program at any time; the updater may be killed alone, when the installer goes on
(`UpdaterKilled`), or the machine may stop (`Crash`). Registry, shortcuts, network
and checksums' arithmetic are left out: a download succeeds with the published
files, or the update is given up (no network, another digest, no room for the
archive).

### How PhoneConnection corresponds to the code

*State.* `client` is the one `AppState` sends requests over, `retired` those
replaced while something was underway, `to` where each leads. `pass` is the polling
pass (single-flight), `calling` the user's actions, `planning` the request of the
planning screen, which no counter sees. `search` is a run of
`ConnectionManager.resolve`, which keeps the settings it began with; each pass and
each saving may have one. `timer` is the periodic timer. `network` says where the
desktop answers and what the relay knows.

*Actions.* What lies between two awaits is one action, with its early returns: a
pass that is underway is joined, a failed one looks for another path, a look that
ends replaces the client and retires or closes the old one. The planning screen
shares the app's client and closes it when it is cancelled or left; `OnlyCancelCuts`
says that nothing else cuts a counted request. Other screens that send requests which
no counter sees are left out; the planning screen stands for them. A connection attempt over the relay's client
that fails in an unexpected way (`Garbled`: the relay's own errors) ends the pass
without a look. The label of the connection mode, dialogs and the wait for writes of
the cache are left out.

## 3. Runs

| run | instance | what it shows |
|---|---|---|
| `SchedulerCore` | 2 Recommendations, 1 spontaneous Event, 1 Disturber, slot and validity of one tick | the context names what runs, windows follow their Events, an acceptance becomes one Event, the plan holds the work there is |
| `SchedulerLive` | 1 Recommendation, 1 spontaneous Event, 1 Disturber, slot and validity of two ticks | liveness; the core implements the execution slot; histories follow the machines |
| `SchedulerWedge` | as `SchedulerLive`, slot and validity of one tick | a disagreement of code and documentation (below) |
| `PlannerReference` | 3 names, 2 priorities, 4 moments | the planner against its reference |
| `Recovery` | 1 Recommendation and 2 copies of its Event, 1 spontaneous Event, 1 Disturber, 2 mishaps | boot accepts what any crash leaves; nothing is pending at rest; no acceptance is lost, and none doubled but by a cut |
| `Guidance` | 2 Events of one description, 2 sets of facts, 2 offers a tick, valid for 2 intervals, 3 Reflections, 1 of them cut | nothing is proposed twice, nothing is starved by the cap, an Event has the Reflection its link tells of, and no other but those that were cut |
| `DaemonRunner` | 3 process ids, commands one after another | two daemons never share the store, and a request ends the daemon it was made for |
| `OfflineQueue` | 2 captures, 2 flushes | no capture is recorded twice; the only three ways to lose one; the queue drains while the phone is trusted |
| `RelayHub` | 2 requests, 2 polls | no request slips through, `RequestDelivery` is implemented, queued requests come to an end |
| `Phone` | 4 clients besides the first, 1 address, with a relay or without, 3 networks, 1 screen, 1 action | no request is cut, no client leaks, the phone reconnects |
| `Launcher` | 2 children, 2 restarts in a window of 2, delays 0 and 1 | no process is lost, what is down stays down, the restart budget holds, an orderly end is complete; crashes and requests are answered |
| `Upgrade` | 1 library file beside launcher, updater, uninstaller and version.txt, 2 releases, both layouts | updates are complete, launcher and libraries are never of two versions unless a run was cut or said so (nor, before a rollback, is anything else), a rollback restores what the archive holds, runs end |

Why the bounds are enough:

* *Core.* Two Events compete for the slot and for the plan, with different
  priorities and one suggested for later; one enters beside the plan; a disturbance
  comes before, between and after restarts and follow-up cycles; a slot of two ticks
  is seen before, during and after its time. A third Event adds no new kind of
  interaction to any stage of the cycle, each of which treats Events one by one or in
  pairs; `SchedulerProofs` removes the bound for the safety properties.
* *Recovery.* One Recommendation and a second copy of its Event are what a crash
  between two writes can double; a spontaneous Event and a Disturber make an
  operation pause, start and interrupt in one go. Two mishaps (`MaxMishaps`) are a
  crash, or a failed write, that meets what an earlier one left. A third copy would
  need a third mishap. `RecoveryProofs` removes both bounds.
* *Planner.* Three names are the least in which one candidate can come between two
  others, and four moments let all of them wait, be due, or have passed. The proofs
  remove the bounds.
* *Guidance.* Two Events with one description are what the redundancy filter can
  confuse; two sets of facts are before and after a start; a cap of two with a
  validity of two is less than some of the candidate sets and more than others, so
  the cap binds and lets go. `MaxReflections` is three in all, and `MaxStrays` one: a
  Reflection that was cut, its retry, and the one too many. The proofs remove these
  bounds for safety.
* *DaemonRunner.* Three process ids are a daemon that leaves, one that comes, and one
  run by hand beside them. Ids are not used again, so the system may stop when they
  are used up, and deadlock is not checked.
* *OfflineQueue, RelayHub.* Two flushes are what can overlap pairwise, and with two
  captures one can be taken before or after another, or during a flush, and the queue
  can hold both. Two polls are the connector's and that of a broken connection, one of
  which can drain what the other was woken for, with the batch of the loop and the
  queue beside them. The proofs remove these bounds for safety.
* *Phone.* Besides the first, one that a saving makes, one that a look makes
  meanwhile, and more while these wait to be closed. `Alone` is a user who does one thing at a time; the proofs do
  without it. Starts of the polling that overlap leave a second timer that nobody can
  cancel, which only multiplies passes. The phone uses up its clients, so deadlock is
  not checked. The networks are home while the relay answers but does not reach the
  desktop, home without a relay, and away, where only the relay leads home.
* *Launcher.* With two children the order of start and shutdown matters and one can
  crash while the other is stopped; a window of two with two restarts is exceeded,
  slides, and lets a restart out of it.
* *Upgrade.* A library, the launcher and the updater: one replaced, one that cannot
  be, one not tried yet; `UpgradeProofs` removes the bound. Two releases: a newer one may appear during an update.

`PlannerReference` may stop when its clock has reached the horizon and nobody
arrives or leaves, `Recovery` when mishaps and copies are used up: deadlock is not
checked there either.

*Fairness.*

* *Core.* `WF` of the three ways a cycle ends, since the cycle runs in the thread
  that raised the signal, before anything else; `SF` of `Tick` and `TimePasses`,
  because the daemon ticks at each interval and the clock advances whatever the user
  does, although each waits for the cycle underway. Nothing is assumed of the user, of
  disturbances or of the decision engine. Two properties assume that restarts cease;
  `OffersAreSettled` does not.
* *Guidance.* `WF` of `Tick`. `NothingStarves` speaks of times in which nothing but
  ticks happens, and of candidates that `Cap * Validity` covers; the source has five
  offers a tick and sixty intervals.
* *DaemonRunner.* `WF` of a daemon in its loop looking for the request.
* *OfflineQueue.* `SF` of `Persist`, of a flush beginning, of one being handled and of
  one being answered, since the poll flushes every few seconds whatever restarts and
  failures come between, and `WF` of a flush ending at its deadline; no particular
  flush is favoured.
* *RelayHub.* Waits and polls have timeouts, the connector's loop goes on, and the
  local API ends what it began; nothing is assumed of phones asking, answers that are
  late, or restarts.
* *Phone.* The periodic timer ticks (`SF`, because the bound on clients may disable
  it for a while), a pass ends as each of its requests has a timeout, what the desktop
  answers arrives (`SF`), and looks, savings and actions end. One wait has no timeout
  in the code, `authenticate`: here the operating system is trusted to end it.
* *Launcher.* The launcher's own thread: it starts, looks at each child every second,
  and stops in order; the clock runs. Nothing is assumed of children or operators.
* *Upgrade.* `WF` of the pipeline's next step: network and processes have timeouts.

### Where code and documentation disagree

`SchedulerWedge` is the one that stops the system: TLC finds it violated. A
disturbance that meets a *resumed* Event expires its window and then raises, because
Resumed has no edge to Interrupted; the Scheduler is left in `Scheduling` and refuses
every cycle until a restart.

The others are visible in the models, without a run of their own:

* *Windows of resumed Events.* `user_resumed` activates no window, so the running
  Event may have none that is Active (`Scheduler`).
* *Overtaking.* The priority of an Event that began is forgotten; after a disturbance,
  a due Event of lower priority overtakes it.
* *Restarts forget the plan.* Suggested times and priorities are gone after a restart,
  and an Event planned for later is planned from now.
* *Nothing is Skipped.* Slots are planned anew from now at each tick, so an Event at
  the head of the plan that nobody starts stays there.
* *Captures.* One taken while a flush waits for an answer is overwritten by the
  flush's own copy of the queue; a valid one is dropped when the desktop cannot write
  or cannot parse its journal; and a write of the journal that is cut short loses all
  that was recorded before (`LostOnlyByRefusalOverlapOrCut` names the three).
* *"Restart recovers it"* (`docs/implementation/APPLICATION_LAYER_REPORT.md:98`). Not
  after a write of a pause that failed, followed by a start that was tried again: two
  Events are stored as Started, and boot raises from then on (the premise `~ahead` of
  `BootsUnlessAhead`).
* *"Once linked, cannot be replaced"* (`domain/entities/event.py:296`).
  `add_reflection` links the stored Event, the process keeps its own copy, and
  `archive_event` writes that copy: the link is gone and a second Reflection is
  allowed (the second disjunct of `LinkTells`). A failure, or the end of the process,
  between the two writes of `add_reflection` leaves a Reflection that is listed but not
  linked, and trying again stores another (`ReflectsPartly`; `strays` counts them). Until a restart the reflect rule also goes on
  proposing an Event that has its Reflection.
* *"It will exit at its next tick"* (`system/daemon_runner.py:209`). Not if the
  request was made while the daemon was starting: the daemon erases requests it finds
  when it registers.
* *"Crashed, restart pending"* (`supervisor.py:45`). A start that cannot open its
  output file leaves `start` before its `try`: the child stays crashed with no restart
  due.
* *The answer "keep"*. The uninstaller passes the answer to its question as
  `remove_user_data`, and only `--keep-data` as `keep_data`; a legacy installation,
  whose data is inside it, is removed with the data although the answer was to keep
  it (`installer/__main__.py:141`; `RELEASE_GUIDE.md:149`; `RemovesData` in
  `Upgrade`).
* *version.txt after a rollback* is not restored, as the archive holds the program
  only: the next check may find nothing to update (the premise of
  `VersionTrueUnlessRolledBack`).
* *"Previous installation restored"* (`updater/engine.py:194`). The archive holds the
  launcher and its libraries; the updater and the uninstaller are replaced with them
  and stay new, or cut short, after which a standalone installation may have no updater
  to try again with (`WholeUnlessUnfinished` says of them only what holds until a
  rollback).
* *"With no user intervention"* (`connection_manager.dart:2`). The relay's own errors
  are texts where the client expects records, which raises; the pass goes offline
  without looking for another path, again at each poll, although the desktop may
  answer on the local network (the premise of `Reconnects`).
* *The heartbeat* is refreshed only when a poll begins and the connector does not poll
  while it serves a batch, so a desktop that is busy with long requests is reported
  to phones as offline.
* *"Newest first"* (`system/backup.py:71`). Of two backups of one second the older
  sorts first, and pruning may remove the newer.

Limits of the code that the models show and no documentation denies: a crash between
the storing of an Event and that of Consumed gives a second Event after boot; one
between the storing of an Active window and that of its Event's start makes every
later start of that Event raise; an exception out of the launcher's `start_all`
leaves the children it had started; the children of a launcher that is killed go on,
and the next launcher starts a second daemon; a `start` that raises leaves its pid
file; a `restart` whose stop times out ends with nothing running; a restore that is
interrupted leaves part of a store that boots; and a restore looks for a daemon, not
for the API server.

## 4. Proofs

Each proof has an inductive invariant, of which the properties of the runs are a part
or a consequence; type invariants are conjuncts of it.

**Core.** For all sets of Recommendations, Events and Disturbers, all priorities,
leads, validities and slot lengths, under `IdentityAssumption`, `OfferAssumption`,
`SlotAssumption` and `FiniteAssumption`, which say no more than that names differ,
numbers are natural, and Recommendations and Events are finitely many:

* `Invariance`: `IInv` is an invariant. It is the conjunction of the core's types
  with `AtMostOneRunning`, `ContextNamesRunning`, `OneActiveWindow`,
  `WindowFollowsEvent` and `MaterialisedOnce`. None of these is inductive alone:
  `user_paused` takes the Event out of the Execution Context, which empties it
  only if the context names that Event; a start pauses *the* running Event, which
  makes room only if there is one; a consumed Recommendation becomes Scheduled
  with an unused window only if it had not been admitted before. The lemmas
  `PauseRunningFacts`, `ActivateFacts`, `CloseFacts` and `CycleFacts` say what the
  shared helpers and a whole cycle do to one Event; each action has a lemma.
* `ContextAgrees`, `Windows` and `Materialisation` follow from it, and so do
  `Exclusion` (at most one Event runs) and `Chain` (when the cycle of a disturbance
  has run, nothing runs, the windows of what ran are expired and the Disturber is
  resolved), which no run repeats.
* `Histories`: every status changes along an edge of its machine, or as a restart or
  a whole cycle composes such edges; `Paths` lists the compositions a cycle can make.
* `Plans` and `TypeCorrect`: at rest the plan holds the work there is, and every
  variable, plan and candidates included, keeps its type. `PlanServesWork` speaks of
  rest only, so what makes it inductive is who disturbs it: an operation that changes
  what is plannable owes a cycle (`pending`) or leaves the Scheduler unable to run one,
  and only a cycle plans (`OwingPlans`, `StepPlans`). That a cycle's plan has a slot for
  each plannable Event and no other is `ReplannedIs`, from what the planner does to any
  queue (`PlanSchedules`): sorting keeps every candidate once (`OrderedSorts`), and
  placing passes none over (`CursorAdvances`, `SlotsFollow`).
* `SortedByMoments` and `NoTimeUnused`, of the planner against absolute time, for any
  finite set of names and any horizon (`NamesAssumption`, `ClockAssumption`,
  `SlotAssumption`): the order is that of the source's sort, and each slot begins as
  soon as the clock, the slot before it and its candidate allow. A distance that has
  come down to 0 no longer tells which of two moments passed first, so the invariant
  (`Mirrors`) says that the queue does: each entry is what is seen of one candidate
  from now, and their places are in the order of the moments.
* `Implementation`: each step of the core is a step of `ExecutionSlot` or leaves
  it unchanged, with `context` as the slot.

**Recovery.** For all finite sets of Recommendations, spontaneous Events and
Disturbers and any number of copies and mishaps, under `FinitelyMany`,
`NamesDiffer` and `IdleIsNone`:

* `Inductive`: the invariant relates four things, the files, Runtime State, the
  writes that the operation underway has yet to make, and the histories of mishaps.
  Its parts are the types; that each write left satisfies `StepOK` (Runtime State
  never has two Events running or two windows open, what is consumed stays so);
  `Together` (what runs in the files and what runs in Runtime State is one Event);
  `NothingForgotten` (what differs, or will, is among the writes left); `WindowsOwned`,
  `CopiesKept`, `ConsumedKnown` and `SingleCopy` (what is stored, or will be, of a
  Recommendation, its Events and their windows). None of them is inductive alone.
  That the store stays bootable between two writes rests on `Prompt`: an operation
  lets go of a running Event, or an open window, only in the step that stores it.
  An operation that makes something run before it stored the pause of the other
  would break it, and only `Together` sees that.
* The operations are sequences of writes put together from shorter ones. `Sound` is
  what a whole operation must be when it begins, `Serves` what its pieces are;
  `ConcatKeeps` puts two together, `Rebased` lets one begin where another ended, and
  each operation has a lemma (`StartsIsSound`, ..., `CycleIsSound`). In a cycle the
  pieces owe each other: consumption makes the Event and its window, and the plan's
  update at the end settles what was consumed (`Makes`, `Ends`, `MakesThenEnds`).
* `Boots`, `AllIsStored`, `NothingAcceptedIsLost` and `OnceUnlessCut` follow.
* `StoreNeverGoesBack`: no write takes the stored status of an Event, a window, a
  Recommendation or a Disturber to an earlier phase (`Phase`: absent, planned, ready,
  begun, ended), and what is final stays as it is, whatever crashes and failures there
  were. The invariant (`OInv`) is that Runtime State is never behind the store
  (`Behind`) and that every write left goes on from the one before it (`Along`).
* `StoreIsOneSlot`: read from the files alone, execution implements `ExecutionSlot`
  write by write, as the core does operation by operation. In the middle of a start
  the files lag behind Runtime State: the Event is Started there, its window is stored
  first, and the Event itself after it. So `OInv` also says how an Event catches up:
  its status changes only in the step that stores it (`Telling`), or it is stored once
  in the operation, and what is stored is one legal move from what the files say
  (`Once`). That is claimed only while no error has left Runtime State ahead: after
  a failed write of a start, the pause that follows suspends an Event of which the
  files never said that it ran, and TLC finds such a run. These two are stated in
  `RecoveryProofs` and have no run of their own.

**Captures.** For all sets of captures and flushes, without assumptions:

* `QueueSafety`: a capture is *settled* when it was refused, was taken during a
  flush, is in the journal, or was there when a write cut the journal short; of every
  other one the queue, the device and the copies of all flushes agree that it is still
  to be sent, and an answer that says *recorded* is true of what the journal has or
  had (`Agreed`, `RepliesAreTrue`). `LostOnlyByRefusalOverlapOrCut` alone is not
  inductive: a flush may overwrite the queue with a copy that lacks the capture,
  which is harmless only if the capture was recorded before any copy dropped it.
  `NothingElseIsLost`, `RecordedOnce` and `QueueTypes` follow.

**Relay.** For all sets of requests and polls, under `PollsAssumption`:

* `RelaySafety`: no request is in two of the queue, the polls, the batch and the
  hands of the local API (`Apart`); what waits to be served has no answer and was
  not executed (`WaitingIsUnserved`); what was never queued left no trace; each
  request is executed at most once and an answer on its way, recorded or taken is
  of an execution (`ExecutionsCount`); what the loop has served is accounted for.
  `NoneSlipsThrough` and at-most-once execution need all of these: draining moves
  a request between hands, and only `Apart` says that it leaves the old one.
* `NoneSlips` follows, and `NoRecordLeaks`, which no run repeats.
* `PromiseIsKept`: each step is a step of `RequestDelivery` or leaves it
  unchanged. `ExecutesOnce` is the heart: what is executed, in time or late,
  is executed for the first time, and its phone waits or was told nothing or a
  failure.

**Upgrade.** For every set of library files and every number of releases, under
`FilesAssumption` and `LatestAssumption`:

* `Inductive`: who is at work at which stage (`Roles`), what the files are while
  nobody is (`Untouched`), that the archive of an update holds a whole program of one
  version (`BackupWhole`), and what copying, checking and restoring have done so far.
  That a rollback gives back a whole program needs the archive to be whole, which
  needs the program to have been whole when the update began, which earlier runs,
  failed or rolled back, must have left so: hence all parts together. What was shipped
  beside the archive's program is of the version of version.txt until a rollback, and
  nothing is claimed of it afterwards.
* `UpdatesAreComplete`, `ProgramIsWhole`, `VersionIsTrue` and `RollbackIsComplete`
  follow.

**Launcher.** For every list of children and every policy, under `OrderAssumption`
and `PolicyAssumption`:

* `Supervision`: the types with `NoneForgotten`, `DownStaysDown`,
  `NothingLeftBehind`, and two more that make them inductive. A child that is wished
  down does not wait for a restart, nor counts as running when its process has failed
  (`NoneWaitsUnwished`), or the next poll would start it; and what the start has not
  come to has no process (`NotYetStarted`), or starting would lose one.
* `Budget`: what a supervisor remembers of a child's restarts is in the order of their
  ages, oldest first, and never longer than the budget; pruned to the window it is
  exactly the crashes that were answered (`Remembers`). `RestartBudget` alone is not
  inductive: that a window holds few restarts says nothing of what the supervisor, which
  prunes only when a child crashes, will count next.
* `TypeCorrect`, `NoProcessIsForgotten`, `WishesAreKept` and `ShutdownIsComplete`
  follow.

**Daemon.** For every set of process ids, under `PidsAssumption`:

* `Protocol`: as long as nothing was run beside the protocol (`~crowded`), at most one
  process lives (`OneLives`), it is the one on file once it has registered
  (`LiveIsOnFile`), each step of a command may rely on what it saw (`CommandKnows`),
  and a request on file was made for whoever lives (`RequestIsMeant`). The look and
  the act of a command are apart, so what a command knows must be part of the
  invariant; and with it goes that a process can only leave between the two.
* `StoreIsNotShared` and `RequestsAreMeant` follow.

**Guidance.** For any Events, facts, Principles, cap and validity, under the
assumptions of `Guidance` (ids and figures are natural numbers, percentages at most
100, and goals aim at projects there are):

* `Guided`: the invariant is `OncePending` and `LinkTells` (an Event has the
  Reflection its link tells of, those that were cut, and at most one more once it is
  archived), with the types and that at
  most one Event runs, which is what makes "continue" speak of one Event. One tick
  proposes nothing of which what stays pending says the same (`ChosenIsNew`), however
  early it is cut (`Admission`). Two candidates of one tick that say the same are of one
  rule, since a reason begins with its rule (`CandidateSaysRule`), and only what is
  paused, and equal low energies, give that rule two keys (`OneKey`).
* `PendingOnce` and `LinkedOnce` follow.

**Phone.** For any number of clients, screens and actions, any addresses and
networks, under the assumptions of `PhoneConnection` (names differ, networks and
choices have their form):

* `Kept`: the client in use is open and not retired (`UsedIsOpen`), replaced clients
  wait only while something is on the wire (`NoneWaitsIdle`), every open one is in use
  or waits (`OpenIsKnown`), and what is counted waits on an open one
  (`OnlyCancelCuts`). The last is not inductive alone: the client that a look is about
  to replace may be the one that is waited on.
* `NoRequestCut` and `NoClientLeft` follow.

Every safety property of the passing runs, invariant or action property, is a theorem.
Model-checked only is liveness, since fairness rests on ENABLED, which is out of the
prover's reach: `OffersAreSettled`, `UncontendedBecomesReady`, `NothingStarves`,
`StopIsHeeded`, `QueueDrains`, `EndsSomehow`, `Reconnects`, `CrashesAreAnswered`,
`StopIsHonoured` and `RunsEnd`. The proofs about sequences reason by ranks, least
counterexamples and surjections, since the library's induction theorems and its facts
about images take operators as parameters, which the provers cannot instantiate.

## 5. What remains

In the order in which it would pay:

1. *Two processes over one store.* Daemon and API server rewrite whole files, and each
   keeps what it read at its own boot. `Recovery` has the writes one by one and
   `Guidance` the facts that are read at boot; a composition would show which updates
   of one are lost to the other.
2. *Pairing and the replay guard* in front of the relay: codes that lapse, tokens that
   are replaced, nonces that are remembered for a while.
3. *Recurrences* as the API server expands them at a tick, and the rotation of backups
   and of retained notifications.
4. *Proofs* of the steps that the liveness properties rest on and that are safety: that
   a request, or an offer as `Guidance` has it, only moves forward (of the files
   `StoreNeverGoesBack` says so), and that a tick admits at most the cap.

### Not modelled

Most lines of this repository are screens, routes and texts. What is left out keeps no
state that two actors share, or is decided elsewhere:

* *Learning.* A pure analysis that no program constructs: nothing composes it with the
  application.
* *Notifications.* An observer of the bus with a list in memory, cut at its limit.
* *Assistant.* It composes a text from a snapshot, hands it to an external model, and
  returns the answer; it writes nothing.
* *Dashboard, desktop client.* Each press sends one synchronous request and redraws
  from the answer; what the request does is an operation of the API.
* *Command line.* Parsing and printing around one operation each; the commands that
  meet other processes (`daemon start`, `stop`, `restart`, `backup restore`) are in
  `DaemonRunner`.
* *HTTP API.* Routes that convert between JSON and one call of the application under
  one lock; those whose effect depends on order (journal of captures, reflections,
  user actions) are in `OfflineQueue`, `Guidance` and `Scheduler`.
* *Planning stores.* Create, change and remove one record of a file; no operation
  reads what another left but for the identifier.
* *Serialisation, theming, packaging, registry, shortcuts.* Conversions and calls of
  the operating system.

So the modelled share of the lines is small, about a tenth of the implementation:
nothing here speaks for the rest, and a fault in a route, a screen or a conversion
would not be seen by any run or proof of this project.
