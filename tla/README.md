# Dronnayak in TLA+

Specifications of the server (`cmd/server`) and the device process (`cmd/client`) of
dronnayak-core, the TLC configurations that check them on small instances, and proofs
checked by TLAPS. Everything is translated from the Go source; paths below are relative to
the repository, line numbers are those of the commit the specifications were written from.

| module | models | abstract over it / used by |
|---|---|---|
| `CommandOnce` | what the command channel promises: executed at most once, or lost for good | implemented by `DroneCommands` |
| `DroneCommands` | dashboard → `drone_commands` → heartbeat → device | `DroneSystem`, `MCDroneCommands`, `DroneCommandsProofs` |
| `TunnelRegistry` | `Run`, `tunnelManagers`, managers' goroutines, stats reporter, shutdown | `DroneSystem`, `MCTunnelRegistry`, `TunnelRegistryProofs` |
| `DroneSystem` | the two together: dashboard, server, one device, crashes and restarts | `MCDroneSystem`, `DroneSystemProofs` |
| `Reconnect` | retry counter and `calculateBackoff` in 64-bit arithmetic | its own `.cfg`s, `ReconnectProofs` |
| `TopicWorkers` | topic workers: POST, DELETE, the worker's goroutine, its watcher and file | `MCTopicWorkers`, `TopicWorkersProofs` |
| `DroneConfig` | a configuration's way from form to device, with defaults and validation | `MCDroneConfig`, `DroneConfigProofs` |
| `Sessions` | accounts, session tokens and cookies, requests for `/fleets` | `MCSessions`, `SessionsProofs` |

To run: `tlc -config MCDroneCommands_safety.cfg MCDroneCommands`, and so on for each row of
the table of runs (about 100s for `system`, 30s for `sessions`, less for the others);
`tlapm DroneCommandsProofs.tla`, and so on for the seven modules `*Proofs`.

## 1. The system and its parts

A server (chi router, MongoDB, an embedded WebSocket relay) and one process per drone that
runs on the drone's companion computer. They talk over three channels: the device polls by
HTTP (`POST /device-status/{id}`, answered with the commands to execute); each tunnel is a
WebSocket from the device to the relay; the browser opens WebSockets to the relay, too. The
server's state is the database, a `sync.Map` of sessions and the map of topic workers; the
device's is `config.json`, the map of tunnel managers and a WaitGroup.

**Command channel** (`routes.go` `createDroneCommand`, `deviceStatus`; `stats.go`). State:
the collections `drone` and `drone_commands`; each running handler's list; the device's
batch. Operations: issue a command, heartbeat (upsert status, find pending, mark each done,
answer), receive, execute. Hard: the handlers use `context.Background()`, so a handler
survives the connection that started it and overlaps with the one of the next heartbeat;
marking is one database call per command and may stop in the middle; the answer may be lost
after marking. Correct if: nothing is executed twice, nothing on another device, and (without
faults) everything stored is executed.

**Device process** (`drone.go`, `tunnel.go`, `stats.go`). State: `tunnelManagers` under
`tunnelMu`, one goroutine and one context per manager, the reporter's goroutine, the
WaitGroup. Operations: start and stop of tunnels - by `Run` for the configured ones, by the
reporter for commands -, reconnection, shutdown. Hard: check and insertion under separate
locks, a manager that deletes itself by ID, `wg.Add` while `Run` is in `wg.Wait`, every place
where a goroutine must notice the cancelled context. Correct if: the map is exactly the live
managers, `Run` returns only when all goroutines are gone, and does return.

**Reconnection delays** (`tunnel.go` `calculateBackoff`). State: `retryCount`. Hard: an
overflow after many failures. Correct if: the delay grows from 2s to 2min and stays there.

**Topic workers** (`worker.go`, `worker_funcs.go`). State: the map `workers` under an
RWMutex; for each worker a goroutine, a watcher, a connection, a `done` channel, a file.
Operations: POST (open the file, start), DELETE (look up, cancel, wait), the worker's end.
Hard: DELETE waits for a goroutine that needs the mutex; the worker may end by itself, and a
new one of the same topic start, while a DELETE is under way; `ReadMessage` knows no context.
Correct if: one worker a topic, DELETE is answered, and only once the file is closed.

**Drone documents and configuration** (`routes.go` `createDrone`, `updateDeviceConfig`,
`DeviceConfigHandler`, `deviceDetails`; `config.go`; `installer.go`; `NewDronnayak`). State:
the document's `device_config`, `config.json` on the device, the running process's
configuration. Hard: server and device apply defaults and validate separately, over four
routes; heartbeats and PUT upsert, so that a deleted drone comes back without a
configuration. Correct if: the device never runs with, and is never left with a file of, a
configuration that is not valid.

**Dashboard, server and device together.** The two components above meet in the stats
reporter: its tick sends the heartbeat, the answer's commands become its batch, each turn of
`processEvent` starts or stops a tunnel. systemd starts the process again after its end or a
kill. Hard:
what an operator's stop and start amount to when the database orders a batch as it likes, an
answer is lost, a manager is still ending, or the process is restarted in between. Correct if:
a tunnel is what was last asked of it, and every pending command is run once the device can
be reached.

**Sessions and fleets** (`session.go`, `routes.go` `login`, `signup`, `logout`, `fleets`).
State: the `sync.Map` token → e-mail, the collections `user` and `fleet`, each browser's
cookie. Hard: `SessionAuth` and `GetUserIDFromSession` load the session separately, and a
logout, another login or a restart may come between; answers that set a cookie arrive late or
never; nothing makes e-mail addresses unique. Correct if: a fleet belongs to the caller or to
nobody, a page shows nobody else's fleets, and an ended session stays ended.

**Database connection** (`db.go`): each call has a five second timeout of its own. Its calls
are steps of the handlers, which may fail. **HTTP helpers** (`web.go`): `WebRequest` has no
timeout; it is the step between sending a heartbeat and the answer. **MAVLink forwarding**
(`drone.go`, `parsers/`): only the goroutine's life is modelled, the frames are gomavlib's.
What has no model at all is in section 11.

## 2. DroneCommands

| state | code |
|---|---|
| `drones`, `commands` | the two collections: which UIDs have a document, each command's `status` |
| `create[c]` | how far `createDroneCommand` is for command `c` |
| `beat[b]`, `found[b]`, `todo[b]` | a running `deviceStatus`: where it is, what `FindAll` returned, what is still to mark |
| `waiting[d]`, `inbox[d]` | the device's request in flight; what `processEvent` has still to run |
| `executed[c]` | history: how often the command was run |

One action for each database call of a handler (`CreateFind`, `CreateInsert`, `DeleteDrone`,
`StatusUpsert`, `StatusFind`, `StatusMark`, `StatusReply`) and for each step of the device
(`SendBeat`, `Receive`, `ProcessEvent`). Faults are actions or alternatives that are there
only if named in the constant `Faults`: a database call that fails, with or without having
written (a timeout leaves that open); a lost connection; a restart of the device (systemd has
`Restart=always`) and of the server. A *slot* `b` is a place for one running heartbeat
handler; it is freed when the answer is read or discarded.

Simplifications: a batch is a set, since `FindAll` asks for no order - any order of
execution is possible (`DroneSystem` gives it one); command types and payloads are left out;
the status `failed` named in a comment of `models.go` is never set by the code and is not in
the model.

The specification implements `CommandOnce` under the refinement `commandStatus`: a command
is `lost` from the moment it is marked done and nobody who could still run it has it. That
what is stored does get run is stated for the whole system, in section 4.

## 3. TunnelRegistry and Reconnect

| state | code |
|---|---|
| `pc`, `work`, `target` | `Run` and the reporter: where they are, the events they have still to process, `tm` of `stopTunnel` |
| `tunnelManagers` | the map, from tunnel IDs to managers |
| `manager[m]`, `entry[m]`, `stopped[m]` | a manager's goroutine, its endpoint, its own context |
| `cancelled`, `mavlink`, `wg` | `Run`'s context, the MAVLink goroutine, the WaitGroup's counter |

`startTunnels` is two steps, `StartCheck` (first critical section, the factory) and
`StartInsert` (second critical section, `wg.Add`, `go`); `stopTunnel` is `StopLookup` and
`StopCancel`. Both `Run` and the reporter execute them (`c \in Callers`). A manager's loop is
`ManagerTop`, `TunnelCloses`, `PauseOver` and the two deferred functions `ManagerDelete` and
`ManagerDone`. The insertion, `wg.Add` and `go` are one step: no other goroutine can tell
them apart, as the goroutine that would call `Done` does not exist before the `go`, and a
`wg.Wait` that returned between the two would need the counter, which the caller itself keeps
above zero. Managers come from a pool and go back to it when their goroutine has ended.

`Reconnect` is the same loop with its counter and delays. 2s and 2min are multiples of 1024ns,
so a `time.Duration` is a 54-bit two's complement number in units of 1024ns, exactly; it is
represented by its set of bits, because the values leave TLC's integer range.

## 4. DroneSystem

`Channel == INSTANCE DroneCommands` and `Device == INSTANCE TunnelRegistry` share no variable;
the joint actions tie them together, each one a step of both where the code is one step of the
reporter:

| joint action | `DroneCommands` | `TunnelRegistry` | code |
|---|---|---|---|
| `HeartbeatSent` | `SendBeat` | `Tick` | `sendStats` posts |
| `AnswerRead` | `Receive` | `Answer` | `sendStats` returns the decoded commands |
| `AnswerLost` | `ConnectionLost` | `Answer`, nothing to run | `sendStats` returns an error |
| `ReporterRuns` | `ProcessEvent`, on the last step of an event | `CallerStep("reporter")` | `processEvent`, `startTunnels`, `stopTunnel` |
| `ServerRestart` | `ServerRestart` | `Answer`, nothing to run, if the heartbeat was not answered yet | `sendStats` returns an error |
| `Restart` | - | back to `Init`, the map being empty | the unit's `Restart=always` |
| `Killed` | `DeviceRestart` | back to `Init`, whatever ran | the same, after a kill or a loss of power |

All other actions are one component's. `batch` is the order of the answer's commands - any,
since `FindAll` asks for none -; the type invariant ties it to both components' view of the
same events, `inbox` and `work["reporter"]`. `lastWord` is a history variable: the commands
that were issued while nothing else was under way for their tunnel and that no later command,
error of the local endpoint, signal or kill has overtaken. A start counts only if its tunnel is
idle or up at that moment: one that is on its way down is `tunnels_skip`'s case.
`SystemAssumption` gives the constants their types and says that only finitely many commands
are ever issued: an answer is a finite sequence. Any prefix of a run issues finitely many, so
no invariant is restricted by it.

The faults of the composition are the channel's four kinds: failed database calls, lost
connections, kills of the device and restarts of the server. The last three share one bound,
`MaxLosses`. What it does not vary is `StatsEnabled`, which is `TRUE`: a process without a
reporter sends no heartbeats and gets no commands.

`LastWordHolds` is what an operator relies on: a command issued when nothing competes with it
leaves its tunnel the way it says, across batches, retries, earlier managers and reconnections.
`PendingIsRun` and `StopReaches` say that it gets there.

## 5. TopicWorkers

Each POST is an identity `p` and owns its file `file[p]`, goroutine `phase[p]`, connection
`conn[p]`, watcher `watcher[p]` and context `cancelled[p]`. `workers` is the map. `stop[s]`
and `entry[s]` are a DELETE's progress and what it looked up; `seen[s]` is a history
variable. A section under `workersMu.Lock` is one step whose guard is that nobody holds the
read lock; the section under `RLock` is two steps (`StopRLock`, `StopLookup`). The three
deferred functions of the goroutine are three steps in the order Go runs them: teardown,
delete, `close(done)`. The messages written to the file are left out.

## 6. DroneConfig

Of a configuration the model keeps the fields `ApplyDefaults` and `Validate` decide on: is
there a UUID and a URL, the interval (zero, below a second, a second, more), the baud rate
(negative, zero, the default, another) - and the list of tunnels as an unanalysed value. The
fields with a default and no check are left out. `config` and `stored` are the document,
`file` is `config.json`, `loaded` what a starting process has read from it, `running` the
process's configuration, `given` (history) the lists of tunnels somebody stored or
installed. Each handler makes one database call and is one step. `NewDronnayak` is two:
`Start` loads the file, `Fetch` takes the server's answer if it loads and the file's
configuration if not; between them the drone may be deleted, reconfigured or reinstalled,
and the process may end. `Served(raw)` is what `DeviceConfigHandler` may answer: the
installer asks without `raw` and gets a completed configuration, the device asks with it.
`InstallFails`: the script removes the binary first and `wget -O` truncates, so a failure
leaves nothing to start.

## 7. Sessions

| state | code |
|---|---|
| `users`, `owner[r]` | collections `user` and `fleet` (the fleet a request inserts, with its `user_id`) |
| `sessions`, `issued` | the `sync.Map`, and the tokens `generateSessionToken` has made |
| `cookie[b]`, `answers` | a browser's cookie, and `Set-Cookie` headers on their way to it |
| `phase[r]`, `token[r]`, `userID[r]`, `listed[r]` | a request for `/fleets`: where its handler is, the cookie it came with, the handler's `userID`, the fleets of the page |
| `who[r]` | history: whom `SessionAuth` let through |

`Login`, `Logout` and `Signup` change the server's state in one call each; `AnswerArrives`
is the browser's half and may come late, in another order, or never. A request is `Send`,
`SessionAuth`, `GetUserIDFromSession`, `InsertFleet` (POST only), `FindFleets`. Tokens are
32 random bytes, so a new one is one that was never made. The password of an account is the
account itself: a login finds any account with the address and succeeds if its password is
right. Of the handlers behind `SessionAuth` only `fleets` asks for the user; the others
change nothing this module keeps. A restart of the server empties the map.

## 8. The runs

| run | question | result |
|---|---|---|
| `commands_safety` | all faults at once: executed twice? on the wrong device? does it implement `CommandOnce`? | holds, 850k states |
| `system` | a lost answer, a kill of the device or a restart of the server; endpoint errors, a signal and a restart: is a tunnel what was last asked of it, is every pending command run, does a stop reach its tunnel? | holds, 186k states |
| `commands_lost` | is what is marked done executed or still on its way? | **violated** |
| `tunnels` | batches of starts and stops, errors, shutdown at any moment: map exact, `Run` waits for all, cancelled goroutines end | holds, 229k states |
| `tunnels_hang` | does cancelling stop the reporter if the server does not answer? | **violated** |
| `tunnels_skip` | is what `startTunnels` skips running? | **violated** |
| `workers` | one worker a topic, every DELETE answered, and only after the worker it met is gone | holds, 126k states |
| `workers_orphan` | has every open file an owner that will close it? | **violated** |
| `config` | can deletions, upserts, PUTs, faults bring about an invalid file or process, or tunnels nobody gave? does what is installed get to run? | holds, 38k states |
| `sessions` | logins, logouts, late cookies and restarts between a request's steps: whose fleet is made and shown, do ended sessions return? | holds, 795k states |
| `backoff` | 70 failures, with graceful closes in between: is the delay exact while it can be, does it shrink without a graceful close? | holds |
| `backoff_overflow` | is a retry ever sooner than the first one? | **violated** |

**Bounds.** *Commands*: two slots of one device, because two overlapping handlers are the
interesting case (a third behaves like the second); two commands of that device, so that
marking can stop between them; a second device with one command, which the wrong handler
could find. `executed` needs no bound while `AtMostOnce` holds. *System*: one tunnel, which
is configured, a stop and a start for it, one heartbeat slot (two overlapping handlers are
`commands_safety`'s case), two managers, so that a new one can start while an old one is
past its deletion; at most one lost answer, kill or restart of the server (`MaxLosses`) and
one signal (`MaxRestarts`). The run has no failed database calls: they are in `commands_safety`,
and a pending command would wait for the last of them.
*Tunnels*: one configured tunnel and one started by command; batches of up to two events,
among them stop-start of the same tunnel and one entry without a factory; three managers, so
that two IDs can be live while a third manager has left the map and not yet called `Done`.
*Workers*: one topic, three POSTs (one ends, its successor runs, another is refused) and two
DELETEs. Different topics share only the mutex. *Config*: two lists of tunnels besides the
default and the empty one, every combination of the other fields. *Sessions*: two people,
two browsers, three tokens - so that a browser changes hands, or one person is logged in
twice - and two requests, each of which may make a fleet the other lists; browsers, tokens
and requests are symmetric, and the run has no liveness property. *Backoff*: 70 retries,
beyond the 55th at which the product has become zero.

**Deadlock** is checked in every run except those of two modules. `TopicWorkers` and
`Reconnect` turn it off: requests are made once each and the loop may return, so these
systems really end.

**Fairness.** Goroutines of the server and the device are scheduled: weak fairness of their
steps. Where a goroutine competes, the code's primitive gives more: Go's `select` chooses at
random among ready cases, so the reporter does not take the ticker's case for ever while the
context is cancelled (strong fairness of `ReporterDone`), and a blocked writer of an RWMutex
keeps later readers out (strong fairness of the workers' steps, two of which lock). Nothing
is assumed of operators, of requests or of faults. A tunnel and a WebSocket are only assumed
to close once they are cancelled, or closed. `AnsweredSpec` adds that the server answers every
heartbeat, if only with an error; the code does not guarantee that (`tunnels_hang`), and the
liveness of the shutdown is stated under it.

`DroneSystem` has the two components' fairness on the joint steps (the answer is read, be it
late: its liveness is about losses, not about a server that never answers), and adds that
systemd restarts the process and that the MAVLink endpoint opens sooner or later. The
installer's unit sets neither `RestartSec` nor `StartLimitIntervalSec`, so systemd's default
limit may give up on a process that fails several times within seconds; that is time, which
the model leaves out. Its two liveness properties are conditional on `Settled`: no connection
will be lost any more, be it by a crash, and no handler of a lost one is left, for otherwise a command is lost
(`commands_lost`). `AnsweredSpec` of `DroneConfig` assumes that a process which can be started
is, and that it is not ended in its fetch every time; the fetch, by `http.Get` without a
timeout, may wait for ever without that assumption.

## 9. What the runs found

- **A lost answer loses commands** (`commands_lost`, `routes.go:491`). The commands are marked
  done before the answer is delivered, and done commands are never read again.
- **A heartbeat that is not answered blocks the shutdown** (`tunnels_hang`, `web.go:36`).
- **stop directly followed by start leaves the tunnel stopped** (`tunnels_skip`,
  `drone.go:258`). A cancelled manager is in the map until its goroutine ends, so the start
  finds the tunnel "already running".
- **A refused POST leaves its file open** (`workers_orphan`, `worker.go:201`). Nobody is left who
  would close it; at most the finalizer Go attaches to an `os.File` does, when a garbage
  collection comes to it.
- **The backoff overflows** (`backoff_overflow`, `tunnel.go:113`). After 33 failures in a row -
  about an hour without a server - the product is negative, from the 55th failure it is zero,
  and the device reconnects without any pause.

Not a violation, but worth knowing: a database error while a device asks for its configuration
is answered like an unknown drone, 200 and defaults, which the device prefers to its own file
(`routes.go:391`). `RunsKnownTunnels` therefore excepts the default tunnel. After a restart the
device runs its configured tunnels, also those a command had stopped, and none a command had
started: `LastWordHolds` ends at a signal or a kill.

## 10. Proofs

Every invariant and action property and the refinement that a passing run checks is proved
for all values of the constants. What remains model-checked only is listed at the end. Each
inductive invariant was checked by TLC on the run's instance before it was proved.

`DroneCommandsProofs` proves, for any sets of drones, commands and slots and any faults:

- `TypeCorrect`: `Spec => []TypeOK`.
- `HandOverCorrect`: `Spec => []HandOver`. `AtMostOnce` is not inductive: nothing in it
  forbids that two handlers hold the same command and both answer a device that waits. The
  strengthening follows a command's way: a device waits for one answer and only with an
  empty inbox (`OneRequest`); what it has in hand is marked and has not run (`InboxFresh`);
  no answer it will still read lists a command that has run (`AnswerFresh`); a handler that
  answers has marked everything it lists (`Marked`); what has run is marked (`History`).
  Hence a handler that reads after a command ran does not find it pending, and one that read
  before is no longer waited for: the device executes between two requests.
- `AtMostOnceCorrect` and `OnlyOwnCommandsCorrect` follow from it.
- `Implements`: `Spec => Once!Spec`, step by step: every action is a `Queue`, `Execute`,
  `Lose` or a stutter of `CommandOnce`; a restart of the server or the device loses a set.
- `NothingLostWithoutFaults`: with `Faults = {}`, `Spec => []QueuedIsNotLost`. `commands_lost` shows
  that one broken connection is enough for the opposite. Without faults every handler has somebody
  who waits for it and none gives up (`AllAwaited`), so what it marks is in hand at that moment,
  and stays so until it is run.

It uses `CommandsAssumption` (types of `DroneOf` and `BeatDrone`, `NoBeat` is no slot).

`DroneConfigProofs` proves `StoredLoadsCorrect`, `FileLoadsCorrect`, `RunningIsValidCorrect`
and `RunsKnownTunnelsCorrect` for any lists of tunnels and any faults, over the four
intervals and four baud rates the model knows. To these four and the type invariant the
inductive invariant adds `LoadedIsValid` (what a starting process falls back to is valid)
and `TunnelsGiven` (the tunnels of the file, of the starting process and of the document,
unless it is the empty one, were given). The empty configuration of a document that came
back does not load, so that it does not take a device's tunnels away. The lemmas: applying
defaults twice is applying them once, and what the server serves to the installer loads, be
it a stored configuration, the made-up one, or the empty one of an upserted document.

`SessionsProofs` proves `OwnerIsCallerCorrect`, `ListedIsCallersCorrect`,
`PostedIsListedCorrect` and `EndedStaysEndedCorrect` for any accounts, browsers, tokens and
requests. `OwnerIsCaller` is not inductive: it says nothing of a handler that has been let
through and has not read its user ID yet. The strengthening is `ReadOnce`: the session of the
cookie a let-through request came with is still that person's or has ended, so what
`GetUserIDFromSession` reads is that person or nobody, and fleet and list use what was read.
It rests on `OnlyIssued` (a token never made has no session, so a login cannot give somebody
else's cookie a meaning) and `Progress` (no user ID, fleet or list before the step that sets
it). It uses `SessionsAssumption`.

It proves `TypeCorrect` along with them.

`TunnelRegistryProofs` proves `TypeCorrect`, `RegistryExactCorrect`, `ReturnedMeansGoneCorrect`
and `NoAddAfterWaitCorrect` for any configuration, any batches of commands and any managers,
from `RegistryAssumption`. `RegistryExact` is not inductive: nothing in it keeps the ID free
between `StartCheck` and `StartInsert`. The strengthening:

- `Sequential`: `Run` and the reporter never run `startTunnels` at the same time - the
  reporter is started when `Run` has only to wait. This, not `tunnelMu`, is what keeps check
  and insertion together: the lemma `OneCaller` says that nobody but the caller at work is
  between the two steps, and managers only take entries out.
- `InsertReady`: between check and insertion the ID is free; `StopReady` and `KnownIDs`: the
  event at hand is there, and its ID is one of the map's.
- `CountExact`: the WaitGroup's counter is the number of live managers, plus one for MAVLink's
  goroutine and one for the reporter's. A manager is live until `ManagerDone`, which is past its
  deletion, so the count is not the size of the map. `ReturnedMeansGone` and the absence of
  an `Add` after `Wait` follow by cardinality (`FiniteSetTheorems`), and so does `WaitIsExact`:
  the counter is zero exactly when no goroutine is left, so no `Done` is missing either - the
  safety half of `ShutdownCompletes`. `Managers` may be infinite; that only finitely many are
  live at a time is part of the invariant.

`TopicWorkersProofs` proves `TypeCorrect`, `MapExactCorrect` and `StopMeansStoppedCorrect` for
any topics, POSTs and DELETEs, from `WorkersAssumption`. `MapExact` is inductive with
`Lifecycle` (a POST has a goroutine only once it was let through, and a worker closes its file
before it leaves the map): a worker that deletes its topic's entry without looking whose it
is finds its own. `StopMeansStopped` needs `SeenExact`, which follows a DELETE: while it holds
the read lock the map cannot change under it, afterwards it has looked up the one worker
there was, and it returns when that one has closed its `done`. `WaitsForCancelled` is the
safety half of `StopAnswered`: whom a DELETE waits for has been cancelled and is running or
over, and if it is in `ReadMessage`, which knows no context, its watcher is there to close the
connection or has done so. It has an invariant of its own, `Woken`, relative to the first.

`ReconnectProofs` proves `DelayIsExactCorrect`, `NeverRelaxesCorrect` and `PauseIsLost` for any
number of failures. The counter counts the failures and the last wait is what
`calculateBackoff` gives for them. The rest is arithmetic of bit sets: `baseDelay` is below
2^21, so 32 shifts leave it below the sign bit and nothing is cut off, and 54 shifts cut off
everything - from the 55th failure in a row there is no pause. In between the highest bit
decides: up to the 6th failure the product's is below `maxDelay`'s, from the 8th on above it, so
the delays grow and, once capped, stay capped (`BackoffGrows`).

`DroneSystemProofs` proves the composition for any commands, tunnels, managers and heartbeats, and
any number of failed database calls, lost answers, kills of the device and restarts of the server
or the process, from `SystemAssumption`; the stats reporter is enabled. It takes the two
components' inductive invariants with their proofs (`CP == INSTANCE DroneCommandsProofs`,
`DP == INSTANCE TunnelRegistryProofs`): a joint step is a step of the channel or a stutter
(`ChannelMoves`), and a step of the process, a stutter, a restart, which finds nothing running,
or a kill, which leaves nothing running (`DeviceMoves`). Hence `ImplementsChannel` - `Spec => DroneCommands!Spec`, and with it
`CommandOnce`'s promise - and `RegistryExactCorrect`, across restarts and kills. `TypeCorrect` ties the two
views of a batch together (`BatchExact`: they are one sequence without repetitions).
`LastWordHoldsCorrect` needs more, since it speaks of commands that have been run and says
nothing of one on its way:

- `WordReady`: while a command has the last word, none of its tunnel's other commands is pending
  or in anybody's hands; if it is a start that has not been run, its tunnel is idle or up; and
  it has not been run while `Run` is still starting the configured tunnels.
- `CallersReady`: `Run` only starts tunnels; between `StopLookup` and `StopCancel` the tunnel is
  still the manager's that was looked up, or nobody's, and that manager is no other tunnel's -
  so the cancel hits this tunnel or nothing.
- `SignalCancels`: once the process has its signal nobody has the last word. A kill empties
  `lastWord` by itself.

The step that counts is a turn of `processEvent`: the command has never been run (`HandOver`),
is its tunnel's only one under way, and its effect on the map is the tunnel's alone
(`StartEffect`, `StopEffect`, by `RegistryExact`). A manager that gives up because its endpoint
does not open takes its tunnel's command out of `lastWord`; one that ends otherwise was told to.

Only model-checked: the liveness properties `PendingIsRun`, `StopReaches`, `CancelledEnds`,
`ShutdownCompletes`, `StopAnswered`, `StoppedLeavesNothing` and `InstalledRuns` - TLAPS does
neither fairness nor ENABLED here -, and the five violations, which are counterexamples.

## 11. Not modelled

- **WebSocket relay**: `github.com/KunalDuran/gowsrelay`, not part of this repository. How its
  calls return is in `TunnelRegistry` and `TopicWorkers`.
- **Browser consoles** (`templates/drone-rce.html`, `drone-video.html`, ...): page scripts that
  hold one socket each to the relay. Nothing the server or the device keeps depends on them. The
  late `onclose` of a replaced socket is listed as a hazard.
- **Pages, routing, logging**: no state of their own.
- **Status data**: a heartbeat's status is written and shown; that two overlapping handlers may
  leave the older one is listed as a hazard.
- **Database set-up** (`InitDB`, the URI), **`Request` and `CleanServerURL`**: string handling.
- **MAVLink parser** (`internal/parsers`): a type switch over messages of gomavlib, used by an
  example only.

## 12. Plan

What is left are more proofs:

1. The safety half of `PendingIsRun` and `StopReaches`, as `WaitIsExact` is that of
   `ShutdownCompletes` and `WaitsForCancelled` that of `StopAnswered`: once no connection will be
   lost any more, what a handler marks is in hand, as `NothingLostWithoutFaults` says of the
   channel alone.
2. That the ways a configuration gets its defaults, the server's and the device's, agree on
   every field the model has.
