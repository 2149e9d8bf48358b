# A TLA+ model of the Danalock BLE integration

The program is a Home Assistant custom component (`custom_components/danalock_ble`,
about 2700 lines of Python on one asyncio event loop). It decodes the encrypted
advertisements of Danalock locks, sends them commands over BLE with login tokens it
fetches from the vendor's cloud, and keeps those keys fresh in the background. The
libraries `pydanalock.ble` and `pydanalock.cloud`, Home Assistant and the lock are
not part of the repository; they are modelled from how the code uses them.

Line references below are to files of `custom_components/danalock_ble`.

## The system

| Component | State | Operations | Hard behaviour |
|---|---|---|---|
| Command executor, `control.py` `DanalockControl` | the facade `_lock` built from a key | `operate`, `_run_command` and its six callers, `set_key`, `disconnect`, one retry after a token rejection | a facade replaced while commands use it or wait for it; `finally` clauses that await; refreshes by others between two awaits |
| Key manager, `keymanager.py` | shared key cache, one refresh lock per serial, the timer, `_stopped` | `refresh`, `refresh_all`, `start`, `stop`, `_run_cycle` | concurrent refreshes, a cycle in flight at the unload, errors in mid-cycle, caught or not |
| Broadcast monitor, `broadcast.py` | `DanalockDeviceState` per serial, `_notified`, `_unavailable`, timers | `_handle_advertisement`, `_refresh_states`, `_check_stale`, `start`, `stop` | late, repeated, reordered, lost and suppressed advertisements; a counter that wraps; three clocks |
| Lock entity, `lock.py` | in-progress flags, the optimistic state | `_operate` | a broadcast overtakes the result of a command |
| Setting selects, `select.py` | the value cache, `_PENDING_READS` | `async_select_option`, the shared read | values known by answer against flags known by broadcast |
| Firmware entity, `update.py` | the two versions, `_unsub_cycle`, `_cycle_in_flight` | the check that re-arms itself, forced checks, removal | forced checks against the timer; cancellation; removal in mid-check, which does not end the check |
| Entry lifecycle, `__init__.py` | the runtime data of a load | setup, unload, reload, removal | failures in mid-setup; an unload that fails; cycles of an earlier load |
| Sensors, `sensor.py`; binary sensors, `binary_sensor.py`; `entity.py` | what they have written | read-only views of the device state and of the key cache | a change for which no write is scheduled |
| Buttons, `button.py` | none | one calibration command, available once the lock has an address | as the command executor |
| Configuration flow, `config_flow.py` | what a flow is validating | user step, reauthentication, reconfiguration, options | overlapping flows; a login against the running client's saves |
| Token storage, `storage.py` | the token in memory, a Store per load and flow | load, save and clear, in tasks nobody awaits | saves of several Stores of one file; a restart between two writes |
| `const.py` | none | hour options with their legacy minutes | less than 60 minutes are 0 hours |
| Translations, `scripts/` | none | static data, a build-time check | none |

Components interact as follows. Setup builds, per load, a cloud client, the key cache,
a monitor, one control per serial and a key manager. A flow's first token reaches setup
through a stage in memory, a later login through the entry's file, which the running
client writes as well. Commands call
`DanalockKeyManager.refresh` when their key has expired or was rejected; the background
cycle calls the same function; `refresh` writes the cache that the monitor decodes
with and calls `set_key` of the control. The monitor's device state is shared with
the entities: the lock entity stores its optimistic state there, the selects the
settings a command has read back. The monitor schedules the entities' writes.

What makes each part correct: every command ends, is carried out at most once, and logs
in with the newest key; cache and facade agree and never go back; sessions are closed;
a report is never replaced by an older one and nothing new is rejected; what is shown
is what is known, and what is no longer heard is shown unavailable; one chain of
firmware checks; the timers, listeners and client of the entry's setup end with its load; tokens reach the
entry they are for, survive a restart and go with the entry. `PROJECT.json`
lists the hazards at their lines with the properties aimed at them.

## Modules

```
KeyService   <-- refined by -- DanalockControl --- DanalockControlProofs, MCControl
LatestReport <-- refined by -- BroadcastMonitor --- BroadcastMonitorProofs, MCMonitor
TokenLife    <-- refined by -- TokenStore --- TokenStoreProofs, MCTokens
DeviceState --- BroadcastMonitor, DeviceEntities, DeviceStateProofs (lemmas of both proof modules)
DeviceEntities --- DeviceEntitiesProofs
PeriodicTask <-- refined by -- FirmwareUpdate --- FirmwareUpdateProofs, MCFirmware
PeriodicTask <-- refined by -- EntryLifecycle --- EntryLifecycleProofs
```

**DanalockControl** (`control.py`, `keymanager.py:110-125`). A task is one asyncio task
that uses the control of one serial: lock and unlock calls (`Operates`), the other
commands (`Calls`), the background refresh (`Refreshers`), the unload (`Unloader`).
An action is the code between two awaits. `pc[p]` says what `p` awaits: `refresh` (the
serial's refresh lock or the cloud), `swapping` (the disconnect inside `set_key`),
`attempt` (the facade's lock), `running` (the BLE session), `closing` (the disconnect
of the `finally` clause). Every forced fetch yields a new key, so a key is its version,
and a facade is the version of the key it was built with. `on[p]` is the facade a task
called; `lock` the control's current one. The code reads `self._lock` again in its
`finally` clause, and so does `EndAttempt`. `expiry` is what the key expiry sensor
has written: the key manager schedules its listener after the swap (`telling`; `ListenerRuns`
is the callback), and any update of the monitor writes it as well. The unload of the platforms,
with which the `Unloader` starts, takes the sensor away; a firmware check or a background cycle
in flight then still starts commands and refreshes. `executed` and `rejected` are history.

**KeyService** is what a refreshed key goes through for anybody outside: issued by the
cloud, stored in the cache, installed as the login token, each only once the one before
is installed. `DanalockControl` implements it with `issued` as `cloud`, `stored` as
`cache` and `installed` as `lock` (`RefreshIsKeyService`).

**DeviceState** holds `DanalockDeviceState` and the pure part of the monitor's handlers:
the counter gate, the flag transitions, freshness. A payload carries a `generation`
that only properties see; the counter on the wire is `generation % Modulus`.

**BroadcastMonitor** puts the handlers around it: reception, the history poll, the stale
check, scheduled entity writes, the availability log. Around them are the lock, the air (up
to `Window` superseded payloads can still arrive), the Bluetooth manager, which calls back
only when the payload changed but keeps every advertisement in its history, and time in
ticks of the poll interval. Due timers and scheduled writes run before a tick. `shown` is what
the entities of a device have written: the lock, the signal sensor (`RssiToPercent`), the
binary sensors and the counter (one `ReportView`: they read the same report) and the
calibration buttons, which need an address only. `validAge`, `revived` and `undecoded` are history:
how long ago a valid advertisement was received, whether it was the poll that made the device
fresh again, and whether one that the key does not decode came after the last accepted one.

**LatestReport** is what the state shown for a lock is worth to anybody: it changes only with a report
that is on the air and newer than the last, or with a command. `BroadcastMonitor` implements it with
what is on the air as it is, the report as `report` and `is_locked` as `position` (`ReportIsLatest`).

**DeviceEntities** sets the lock entity and the selects between two sources: the answers
of commands and the broadcasts. Of a command it keeps whether and when the lock acts, and how and
when the call ends; the order of sessions is the one facade lock's. `Cancel` is a call cancelled
from outside at any await: it is no `Exception`, so `_operate` restores nothing, and a setting that was
written is not cached. `overtaken`, `answeredGen`, `disturbed`, `cut` and the `sound` flag of an
answer are history.

**FirmwareUpdate** is the update entity's self-scheduling check. `timers` counts the armed
timers, `unsub` says whether the entity could cancel one: the code can lose one of the two
only if they differ. A malformed version is one value, equal to none, as in
`_versions_equal`. `removed` is Home Assistant's removal of the entity, which runs
`async_will_remove_from_hass` and leaves `self.hass` as it is: `_async_cycle` never finds it to be
`None`, so its two tests of it are not in the model, and a cycle in flight goes on.

**PeriodicTask** is what a task that schedules itself promises its owner: while the owner is there one
cycle is due or one runs, never two; when a cycle ends, the next is due; when the owner goes, the cycle
that is due is gone; only a cancelled cycle may end the schedule of an owner that is there, until one is
begun out of turn. `Outlives` says whether a cycle that runs when its owner goes is followed by others.
`FirmwareUpdate` implements it with the entity as the owner, whoever runs the check as the runner and
`Outlives` true (`CheckIsPeriodic`); `EntryLifecycle` with one owner per load, present while the load is
in use and has devices and a period, without cancellation and with `Outlives` false (`RefreshIsPeriodic`).

**EntryLifecycle** follows loads of one entry; several loads may coexist because a
background cycle of an unloaded manager goes on until its client is closed or its serials are done.
A refresh may also raise what `refresh_all` does not catch (`AbortCycle`, as with a disconnect that fails
in `set_key`); `broken` marks the loads whose last cycle ended so. When a platform cannot be unloaded
(`UnloadFails`) the entry stays in use with all it has started (`InUse`).
Of the options it follows the refresh period: `option_refresh_hours` prefers hours, converts
legacy minutes (under an hour they become 0, which disables the cycle, as specification 0010 says)
and falls back to the default. The period is read at the end of the setup; the update listener that
reloads the entry is heard from there to the end of the unload.

**TokenStore** follows the tokens of several entries from the login that issues them. A flow
submits its form, validates, then either creates an entry and stages the token, or saves the
login to the entry's file (awaited) and in a second step updates the entry and schedules the
reload. Setup loads the file or pops the stage; the client replaces its token (`Save`) or drops it
(`Clear`) in tasks nobody awaits. `writes` are the saves of the running load's Store in their order;
`late` are removals and saves of Stores nobody uses any more, which land at any time. `Restart`
keeps the files and the entry registry, whose own delayed save is taken as immediate.
`disturbed` and `unchecked` are history: the entries whose file several Stores wrote at once or
whose login a restart cut in two, and those moved to an account no check had cleared.

**TokenLife** is the life of one token among many: issued to a login of a new account, where it waits
on the stage, or to a login or a refresh of one entry; handed by the stage to one entry; given up, and
then never used again. `TokenStore` implements it with the length of the issue log as `issued`, the
stage as `staged` and all that memory, file and pending writes hold of an entry as `held`
(`TokensLiveOnce`).

`MCControl`, `MCFirmware` and `MCTokens` define the symmetry of interchangeable tasks, checks,
entries, accounts and flows; `MCMonitor` the signal strengths and the symmetry of the broadcast keys. The other modules are checked
directly; a configuration only gives constants values.

## Runs

| Run | Shows | Bounds |
|---|---|---|
| `control` | key agreement, the expiry shown, retries with newer tokens, at most one execution, no forgotten session, who stands in a lock's queue awaits that lock, refinement of `KeyService`, every call ends | one task of each kind, three keys |
| `monitor_gate` | refinement of `LatestReport`; nothing new is rejected, the report catches up again | counter modulo 6 from 4 on, four generations, two old payloads on the air |
| `monitor_whole` | all entities show the state; fresh means heard, heard means reported; silence is logged and written | one device, timeout 3, stale check every 2, two broadcast keys, two signal strengths, one setting flag |
| `firmware` | one chain of checks, before the removal and after it, refinement of `PeriodicTask`; what a check concludes | two forced checks, three versions and a malformed one |
| `entry` | nothing outlives its load; the stored options are in force; refinement of `PeriodicTask`; every serial tried; refresh never dies while the entry is in use | two names for loads, two serials, two hour and two minute values |
| `entities` | the lock entity lags only behind the air and is in progress as its call; the selects show the lock's settings | one setting with two values, three generations |
| `tokens` | refinement of `TokenLife`; a token is in one place, of the entry's account, durable, and removed with the entry; accounts stay distinct | two entries, accounts and flows, three tokens |
| `control_session_left` | violated: a session stays open after `set_key` | as `control`, two calls |
| `monitor_stale_shown` | violated: a device the poll brought back is not written when it falls silent | timeout 10, check every 2: the code's 5 min, 1 min and 30 s |
| `firmware_rearmed` | violated: an entity removed during its check arms the next | as `firmware` |
| `entities_stale_flag` | violated: an old payload zeroes a verified setting | as `entities` |
| `tokens_overwritten` | violated: the setup after a login does not see the login | one entry, one flow, three tokens |

Why the bounds are enough. A key swap matters between commands of one lock; three keys
allow a swap during a retry after a swap, and the proofs cover every number of tasks
and keys. Four generations from the counter's fourth value on cross its wrap at six; `GateAssumption` says that lock
and report are never half the counter's range apart, the code's own limit
(`COUNTER_MODULUS // 2`). Ages stop at `MaxAge = Timeout + StaleEvery`, past which no
handler distinguishes them. `MonitorWhole` has the order of the code's clocks, poll before
stale check before timeout; `MonitorStaleShown` their ratio. Three generations let a
payload be generated before a command, by it and after it. Two names for loads are
reused as soon as a load has left no trace, so reloads go on for ever; zero hours and thirty legacy
minutes both disable the cycle. Two flows can overlap on one entry or race for one
account; three tokens are a login, the client's refresh and a second login of the same entry.
A second device in the monitor shares only the timers with the first, and the proofs hold for any
number of devices.

Each of the five violations is a quoted statement of a document, comment or test that the code does not
keep; `PROJECT.json` has the quotations under `findings`. The weaker statements that do
hold are properties of the passing runs: `CurrentSessionAttended` (current facade only),
`OverdueShownOnlyAfterPoll`, `OneChain` and `CheckIsPeriodic` (one chain after the removal too),
`SettingsShownAreSet` and `LoadedAccount` (unless disturbed).

`firmware_rearmed` deserves a word. `update.py:239` and `update.py:249` take `self.hass is None` for the
sign of a removed entity. Home Assistant clears `hass` when it aborts the addition of an entity, not when
it removes one; the test of the removal, `tests/test_update.py:505-513`, clears it by hand. A check in
flight when the entry is unloaded therefore arms a timer after `async_will_remove_from_hass` has run, and
each check that follows finds the client closed and arms another, once per retry interval. What the proofs say of it is that this
chain, too, is only one.

Four more divergences are not runs. A forced check whose service call is cancelled has cancelled the timer
(`update.py:209-211`) and runs only the `finally` clause (`update.py:256-257`): nothing arms the next check,
although the comment at `update.py:243-244` says that a cycle in flight does. `PeriodicTask` allows it
(`Cancel`), and `ChainLasts` proves that nothing else cuts the chain. Two commands can be in flight at once after
a key swap, one on each facade (`OneCommandPerFacade`), although `specs/0008-calibration-buttons.md` speaks of one in-flight
command per lock. After the unload the closed client's `RuntimeError` reaches a caller, who is
promised a `HomeAssistantError`. And the poll counts an advertisement that no key decodes as a sign
of life, so that a lock enrolled again stays fresh with its last report. `FreshIsHeard` therefore speaks of
devices whose advertisements have all been decoded since the last accepted one (`~undecoded`), as does
`ReceivedIsReported`: after the key has been refreshed, the Bluetooth manager does not call back for
the payload it already has, and the report stays behind until the lock regenerates it.

### Fairness

* Control: every step of a command or refresh happens (weak fairness per task). The BLE
  library and the HTTP client have timeouts, which the code handles
  (`TimeoutError`, `httpx.HTTPError`), and the facade's and the refresh locks are FIFO.
  No fairness is put on how a step ends: an adversary may choose every failure. New calls
  need not come.
* Monitor: strong fairness of receiving a lock's newest payload, the assumption of a lock
  in range; `ReportConverges` also holds trivially while the monitor is not registered, as
  it must.
* Entry: a due timer fires and a step of a cycle ends (weak fairness); setup and unload
  may stop anywhere.
* Tokens, entities, firmware: no liveness is checked, and safety needs no fairness.

## Proofs

`tlapm` checks seven proof modules; together they hold for every number of tasks,
keys, devices, payloads, settings, forced checks, versions, loads, serials, entries, flows
and tokens. Every invariant and every action property of the passing runs is stated by a theorem.

*DanalockControlProofs.* `Inv` is inductive. `KeyAgreement` alone is not: between the
new cache entry and the new facade several tasks run. `KeyInv` says that only the head
of the refresh lock can hold a key it has been issued and not installed, that this key
is newer than the cache, and that cache and facade are apart only while it swaps. From it
follow `KeyAgreement`, `KeyNeverGoesBack` and the refinement of `KeyService`; with it,
`ExpiryShown` is inductive: the cache changes only where a swap begins or the listener is scheduled at once. `LocalInv` ties a command's attempt counter to its place, which bounds the attempts
at two. `ExecutedInv` is why the lock acts once per call: only an attempt ending in
success or a transport error has acted, and neither is retried. `RejectedInv` gives
`RetryHasNewToken`; `SessionInv` gives `CurrentSessionAttended`. `QueueInv` is `QueuedAsAwaited` and
that no queue has anybody twice. A task in `set_key` has the refresh lock while it awaits a facade's,
and none awaits the refresh lock while it is in a facade's queue; hence `NoDeadlock`: as long as
some task is under way, one of them has the lock it needs (`CanGoOn`). `RunningInv` is that a running command has its facade's lock and an open session: a session
is closed only by a task that has the facade, so no disconnect, be it another command's, that of
`set_key` or the unload's, cuts a command short (`CommandUndisturbed`). Two commands can then run at
once only on different facades (`OneCommandPerFacade`), which a key swap makes possible.

*BroadcastMonitorProofs.* `DeviceInv` has four parts per device: whoever was heard has an address,
what is not scheduled to be written is what is shown, the log mark agrees with the ages, and a
fresh device the poll has not revived is one the stale check will write. The last is what
`OverdueShownOnlyAfterPoll` needs and what fails after a poll. `GateInv` says that the payloads on
the air are consecutive and the lock is at most `MaxLead` ahead of its report; with the
arithmetic of the gate (`Gate`: two generations less than half a modulus apart are ordered as their
counters are), `ReportFollows` says that a report follows exactly the payloads that are
newer. `ReportsOnlyAdvance` follows for any number of wraps, and the refinement of `LatestReport`
step by step: a decoded, newer payload is `Report`, any other leaves report and shown state
alone. `HeardInv` gives `ReceivedIsReported` and `FreshIsHeard` for any keys: an accepted
advertisement establishes it whatever came before, and one that does not decode suspends it.

*DeviceEntitiesProofs.* `LagInv` follows the position of the lock through payload, answer and
optimistic state; a success recorded before any newer report is the lock's position while the
last report is current. `SetInv` keeps the answers in the order of their sessions (`QueueInv`) and
says what each still is worth (`AnswerInv`): a sound answer is what the lock is set to now, unless it
was read before a write that will be applied after it. `SettingsInv` then gives
`SettingsShownAreSet`.

*FirmwareUpdateProofs.* `OneChain` needs `FlagIsCycle` (`_cycle_in_flight` is set exactly
while a runner is in the cycle) and `FirstIsFirst` (before the first cycle begins nobody has armed
a timer, which that cycle would forget without cancelling it). `ChainGoesOn` and
`InstalledIsChecked` are then inductive, and none of them mentions the removal, except that `ChainGoesOn` (`ChainLasts`) is about
an entity that has not been removed. From them follows, step by step, the refinement of `PeriodicTask`
(`CheckImplementsPeriodicTask`): a check begins as the abstract cycle does, whether the timer or a forced
check began it, and the first cycle, which setup has only created, counts as due until one begins.

*EntryLifecycleProofs.* The core is `CycleInv`: a running cycle belongs to the entry in use
or to a stopped manager, so `_run_cycle`'s `finally` clause never arms a timer of an
entry that is gone. With it `OneRefreshChain` is inductive: a cycle that ends, however it ends, arms the
timer unless its manager is stopped, and a timer that fires begins a cycle. `PeriodInv` adds that
only a manager with devices and a period has a timer or an unstopped cycle; both together give the refinement of
`PeriodicTask` for every load (`RefreshImplementsPeriodicTask`). `TodoInv` (tried and left
make all serials) gives `CycleTriesAll`, which speaks of the cycles no uncaught error ended (`broken`). `OptionsInForce` is inductive: no change is unheard once the period is read.

*TokenStoreProofs.* Every step is one of `TokenLife` (`StepLife`): most only move tokens between
memory, pending writes and file of one entry, or give some up. What `TokenLife` does keeps `SharedInv`,
which adds to `TokensNotShared` that no two stages hold one token, and never brings a token back
(`GivenUpForGood`). `ClaimInv` adds to `AccountsDistinct` that a claimed account belongs to one flow
and to no entry that was not moved there unchecked.
`StoreInv` gives the other three: from the moment a login is saved until setup loads it, it is the
file's last word unless the entry is marked as disturbed (`LoginInv`); at other times everything the
storage holds is of the entry's account, and the running client's token is the one the file will
have.

The proofs assume what the modules' `ASSUME`s say of the constants: kinds of tasks are
disjoint, there is at least one key version, `None` is none of the data, versions are a set of
naturals, lock and report stay less than half the counter's range apart, `MaxAge` is the timeout
and one check interval. TLC evaluates those in every run.

Only model-checked: liveness (`CallsEnd`, `ReportConverges`, `KeysKeepRefreshing`), since
fairness and ENABLED are out of the prover's reach, as are induction over data and
RECURSIVE operators, of which the modules have none.

## Assumed of what is not in the repository

* Home Assistant keeps `self.hass` when it removes an entity, as its entity base class does, runs a
  task it has created before any I/O completes, and neither unloads nor reloads an entry whose
  unload has failed.
* A facade's lock is first in, first out; it connects on demand, stays connected until a disconnect,
  and its disconnect does not fail. The refresh that such a failure would end is in `EntryLifecycle`
  (`AbortCycle`); what it leaves of cache, facade and session is not in `DanalockControl`.
* A listener that `call_soon_threadsafe` has scheduled runs, but any number of other steps may come first.
* Saves of one `Store` land in their order; those of two, and removals, in any.
* The Bluetooth manager calls back when the payload of a device has changed.

## Not modelled

* Cancellation of a call inside `DanalockControl`. A cancelled swap would leave the cache ahead of the
  facade until the next refresh, and a cancelled disconnect in the `finally` clause a session open.
  `DeviceEntities` and `FirmwareUpdate` model the cancellation of what they call.
* A setup cancelled midway, a failure of the platforms; the device registry, diagnostics data, form
  schemas and error texts.
* A settings read that outlives a reload (`_PENDING_READS` is global). When a select changes,
  `apply_settings` replaces the values of all of them and only its own state is written at once.
* Several targets of the update service: `update.py:327-344` stops at the first that fails, with the
  others unchecked.
* Two flows in `CreateEntry` for one account: Home Assistant replaces the entry that came first.
* What the library does inside a command; encryption and parsing of a broadcast, which is
  reduced to whether the key fits; the maturity and identifiers of a firmware; attributes, labels,
  icons; the build-time coverage script.
* A cycle in flight at the unload goes on to the serials it has left until the client is closed
  (`EntryLifecycle` models it; the docstring of `stop` says it finishes the current one).

## Plan

Done, in this order: control with key service and proofs; device state and monitor;
firmware check; entry lifecycle; entities; proofs of the firmware check and of the lifecycle; token
store with its proofs; the options in the lifecycle; sensors, binary sensors and buttons as views of
the monitor, the expiry sensor in the control; proofs of the monitor; cancellation and proofs of the
entities; freedom of deadlock in the control; the life of a token and the latest report as abstract
specifications, with their refinements proved; the monitor's properties for replaced keys; the periodic
task as the abstract specification of both schedules; the undisturbed sessions of running commands.

What is left:
1. Cancellation of a call in `DanalockControl`: the properties then exempt the time from the
   cancellation to the next refresh, as `InProgressIsCalled` does for the lock entity.
2. A reload during a settings read, and the write of the other selects.
3. The order of firmware versions by components against a reference definition.
4. Composition of `EntryLifecycle` with `TokenStore`: the reload a login schedules as the reload of the
   lifecycle, with the client both speak of.
