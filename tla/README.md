# Verification of the Qualcomm location stack

TLA+ models of the concurrent and distributed parts of this repository, TLC
configurations that check them on small instances, and TLAPS proofs of theorems about
all of them. Paths below are relative to `src/`.

## 1. The system

Applications, the location HAL daemon and the modem talk to one another in a chain:

    application
       | calls, callbacks
    LocationClientApi / LocationIntegrationApi       client_api, integration_api   (library)
       | datagram sockets (local or QRTR), protobuf messages
    location_hal_daemon                              LocationApiService, one LocHalDaemonClientHandler per client
       | calls, callbacks
    LocationAPI / GnssInterface                      (another repository)
       | LocApiBase
    LocApiV02                                        loc_api/loc_api_v02
       | QMI requests, responses and indications
    modem

Beside it stand a SOME/IP service over the client API (`loc-fidl`), a C API over it
(`qapi`), a PPS helper (`gnsspps`) and a utility library (`utils/base_util`).

### Inventory

| Component | State it keeps | Operations | What is hard about it | What makes it correct |
|---|---|---|---|---|
| Synchronous requests, `loc_api_sync_req.cpp` | five slots, a lock each; `slot_in_use`, `in_use` under another | send and wait, indication from the QMI thread | answer before the wait, late answer, timeout against signal, two waiters for one id, full buffer | a slot has one owner, no wakeup is lost, a payload goes to one caller that asked for it and still waits, every caller returns |
| Single-shot fixes, `LocationApiService.cpp` | terrestrial and fused request maps with their timers, last location, two shared sessions, consent | request, cancel, fix, timeout, client removal, consent | timer messages queued behind other messages, one session for many requests | a session runs exactly while somebody waits; a request is answered once |
| Client registry, `LocationApiService.cpp`, handler life cycle | `mClients`, `mConfigReqs`, `mClientsRegForXtraStatus`, energy query | registration, removal, maintenance, configuration requests and answers | an unlocked maintenance thread, handlers freed by a failed send in the middle of a callback, answers that overtake the map entry | the map names live handlers, an answer reaches its requester once, shared registrations follow the clients |
| Tracking and batching sessions, `LocationClientApiImpl.cpp`, `LocHalDaemonClientHandler.cpp` | client: session, options, callbacks, pending answer; daemon: session, options, subscription, queue of requests to answer | start, update, stop, register, answers, end of a trip | pipelined requests, daemon crash and restart, lost messages, purge | once things settle both sides agree on the session; a start is answered |
| Geofences, both sides | client: geofences with options, ids of the last addition; daemon: map of ids to sessions, requests to answer | add, remove, modify, pause, resume, breach | answers and breaches of removed geofences, requests that overlap, restarts | once things settle client, daemon and engine have the same geofences; no call refers to one nobody knows |
| Position filter, handler | last reported time per client | offered interval, report | rounding of intervals | each client gets its own rate |
| Client single-shot, energy, debug requests | one callback per kind | request, answer | a later request replaces the callback; a stack pointer handed to another thread | one answer each |
| Integration API | queue before registration, cached configurations, counts of pending requests | ~20 configuration calls, answers, HAL_READY | what is re-sent and what is told to the application when the daemon restarts | every request is answered truthfully, the daemon ends up with the last configuration |
| LocApiV02 adapter | event mask and what of it the engine has, session and power state, list of requests refused by a busy engine | all LocApiBase calls, reports of the engine | the mask is derived from five things that change independently | a refused request is sent again; a suspended device is not woken |
| QMI client, `loc_api_v02_client.cpp` | handle, service state | open, close, send | close against callbacks | no callback after close |
| IDL service | one client API session and a count of control requests | start, stop, callbacks | shared by all clients, client death | the session runs while somebody uses it |
| QAPI | global callbacks, two timers | single shot, passive, init, deinit | timer against callback and deinit | one answer per request |
| gnsspps | skipped-pulse counter, offset | fetch loop, getPPS | outage at the threshold | only trusted pulses set the offset |
| base_util | blocking queue, threads, shutdown timer | push, pop, close | close against wait, timeout | a waiter returns |
| Everything else | none, or configuration | conversion, logging, headers, generated code, test programs | - | not modelled |

`PROJECT.json` lists every component with its files and, under `hazards`, what in it is
hard to test, at its line, and which property covers it. Smaller ones, not listed there:

* `LocationApiService.cpp:996`: without a `GnssInterface` energy queries stay unanswered;
  1784: a collective response for other than one session is ignored and leaves its entry in
  `mConfigReqs`; 1212: START_BATCHING is pushed to `mPendingMessages` also when a session was running
  and LocationAPI was not called, so later answers are matched to the request before theirs.
* `LocationApiService.cpp:1097`: the set of xtra names is changed before the lock is taken.
* `LocationClientApiImpl.cpp:3626`: the end of a trip posts a stop that does not say which
  session it is for.
* `LocHalDaemonClientHandler.cpp:1379`: a live client whose socket refuses one message is purged
  and never told.
* `LocationIntegrationApiImpl.cpp:1668`: the answer of a configuration re-sent silently is counted as the
  answer of a new request of its kind.

## 2. Modules

| Module | Models | Lives in |
|---|---|---|
| `SyncCalls` | what a synchronous request promises its caller (abstract) | `SyncReq` implements it |
| `SyncReq` | `loc_api_sync_req.cpp`, with `locClientSendReq` as an outcome | `MCThreads`, `SyncReqProofs` |
| `EngineBusy` | the event mask and the resend queue of `LocApiV02` | `MCThreads`, `EngineBusyProofs` |
| `ClientRegistry` | clients and shared registrations of `LocationApiService` | `MCThreads`, `ClientRegistryProofs` |
| `FixRequests` | what the daemon promises clients that ask for fixes (abstract) | `SingleFix` implements it |
| `SingleFix` | single-shot requests of `LocationApiService` | `MCSingleFix`, `SingleFixProofs` |
| `SessionLink` | the sockets and messages between a client and the daemon | `LcaSession`, `HandlerSession` |
| `LcaSession` | the client library's session, `LocationClientApiImpl` | `PositionSession` |
| `HandlerSession` | the daemon's handler of that client; LocationAPI (external) | `PositionSession` |
| `PositionSession` | the two composed, fairness, properties | `MCRestart`, runs, `PositionSessionProofs` |
| `IntegrationConfig` | configurations of `LocationIntegrationApiImpl`, and the daemon that takes them | `MCRestart`, `IntegrationConfigProofs` |
| `Geofence` | geofences of a client, of its handler and of the engine | `MCRestart`, `GeofenceProofs` |
| `MCThreads` | `SyncReq`, `ClientRegistry`, `EngineBusy` side by side | runs |
| `MCRestart` | `PositionSession`, `IntegrationConfig`, `Geofence` side by side | runs, `RestartProofs` |

Definitions have the names of the functions and members they translate. The ones introduced
by the comment "Variant:" are plausible mistakes in the code (a missing reset, a dropped
guard, a swapped order); they are not part of a specification, and `PROJECT.json` says which
property each of them would break.

A behaviour of `MCThreads` or `MCRestart` is one of one part, chosen in the initial state,
while the others stay as they began. The next-state relations and the fairness of the parts
are used unchanged. The parts of `MCThreads` share no state in the code, so their product
would say nothing that the parts do not.

The parts of `MCRestart` travel in different messages, and configurations are those of
another client. But sessions and geofences of one client share a member,
`mPositionSessionResponseCbPending`: `startPositionSession`, `startBatchingSession` and
`addGeofences` set it and refuse while it is set; the answer to a session request, the answer
to *any* request about a geofence, and a stop clear it. So each of the two parts has the
effect of the other on the flag as steps of its environment: `GeofenceStep` in `LcaSession`
(`AddGeofencesTakesFlag`, and `GeofenceAnswerClearsFlag`, at any time once geofences were
added) and `SessionMovesFlag` in `Geofence` (either way, at any time). What these steps allow
includes what the other part does, so a property of a part holds in the product. The mask of
callbacks has bits of its own for the breaches, and a message that sends it sends the current
one.

### SyncReq and SyncCalls

A caller goes through `loc_sync_send_req`: `loc_alloc_slot` (buffer lock),
`loc_sync_select_ind` (slot lock), `locClientSendReq` (no lock), `loc_sync_wait_for_ind`,
then `WakeUp` or `TimeOut`, then `loc_free_slot`. Each is an action because each takes and
releases a lock: other threads run between them. The QMI thread scans the slots in
`ProcessIndBegin`, one `ProcessIndSlot` per slot, `ProcessIndEnd`: it takes the slot's lock
for each slot separately and reads `slot_in_use` without the lock that protects it, so a
slot may change hands in the middle of a scan. `net` holds what the modem will say: the
answer to a request sent, late as it may be, or an indication nobody asked for. Ghosts:
`calls` counts a thread's calls, `hit` says that an indication matched the slot of a call,
`buf` what the caller's buffer holds.

The caller does not loop around `pthread_cond_timedwait`, so a wakeup for no reason is
reported as success. `SpuriousWakeups` says whether the platform produces them, as POSIX
allows; it is TRUE in `threads_safety`. The ghost `unsignalled`
holds the threads whose wait ended in this way. `SuccessWasAnswered` says that this is the
only way to succeed without an answer; that there is none (`SuccessWasChecked`) is violated. A payload given to `loc_sync_process_ind` is never NULL or empty
(`loc_api_v02_client.cpp:1130-1142`), so its test (196-197) is left out.

`SyncCalls` knows calls and outstanding indications only. An indication is given to one
caller in one step, never to one that has returned, and is never thrown away while the call
it answers waits. The refinement (`CallsAreServed` in `SyncReq`) maps the slot a caller
holds to its phase, the history of its buffer to its payload, and the indication in the
middle of a scan to an outstanding one until the scan has decided about it. That last part
is what could go wrong: the scan drops an indication only when it has passed all slots, and
slots are taken, filled and freed behind it.

### SingleFix and FixRequests

Every handler takes `mMutex`, so each is one action: `getSingleTerrestrialPos`,
`getSinglePos` with their cancellations, the fixes of the two sessions, `timeOutCallback` of
a timer (it posts a message, nothing more), the posted message's handling, the consent, and
the removal of a client. Requests are numbered, which the code does not do: the numbers tell
a property whose timeout a timeout is. Accuracies are compared, never computed with, so they
are `0..MaxQoS`.

`FixRequests` knows the requests, which of them wait, and what was said about each; it has
no maps, sessions, timers and messages. A request waits until it is answered, its client
sends the next one of its kind, or its client goes, and then nothing is said about it any
more, also if a client of that name comes back; a location serves in one step everybody it
is good enough for. The refinement (`FixesAreServed` in `SingleFix`) maps the entries of the
two maps to the requests that wait. What could go wrong is that handlers find a request by
the name of its client only, and that a timeout is handled long after its timer fired. The
abstract daemon does not say whose timer a timeout comes from: that it is the request's own
is what the code does not keep (section 3, the disagreements).

### ClientRegistry

Handlers are numbered by creation, so that a pointer to a freed one can be told from one to
its successor of the same name. The receiver, the engine's callbacks and the maintenance
thread are separate; maintenance holds no lock, and is split at each ping. Where the code
uses a freed handler the behaviour is undefined: the model records `fault` and goes no
further. Assumed: `GnssInterface` is present and serialization succeeds.

### PositionSession

The client's work is done by one task, so an action is one message of that task; `inbox` is
its queue with the socket before it, and a message the task posts to itself may be inserted
at any position, since it overtakes what is still on the socket. In the daemon an action is
one request, one callback of LocationAPI, the crash, or the restart (`HAL_READY` to every
socket it finds). A crash forgets everything, including requests on the socket. LocationAPI
is external: it reports its capabilities once to each instance and answers every call once,
in the order of the calls; `StartResults` says whether it may refuse to start. With `Lossy`
any message to the client may fail, which purges the client; nothing is asked of a purged
client, which is not reached again.

With `Geofences` the application uses geofences too, which matter here only by the flag they
share with sessions. The ghost `ofStart` says that the flag stands for the last start call.
A geofence's answer that clears it ends the wait of the client, and `StartIsAnswered` asks
that the wait ends; that the application is told (`StartIsReported`) is violated.

### IntegrationConfig

`configRequest(k, on)` stands for the configuration calls of the API: `on` is what a call
says that can be switched off (the registration for xtra updates). `number` counts them and
stands for what is configured. A type is cached (`CachedTypes`), only forwarded
(`UncachedConfigs`), or above `CONFIG_ENUM_MAX`; the runs take some of each, and
`restart_safety` both constellation types, which share one validity flag. The client queues before its registration, counts requests until they are answered,
and at `HAL_READY` reports what is pending as a success, empties the count, registers, and
sends the cached configurations again. The daemon's three ways of being there are distinct:
`"bound"` has a socket that takes messages while no `HAL_READY` is sent yet. A message the
daemon has taken is in `mConfigReqs` until `EndConfigReq`.

* The answer to a consent for xtra is ignored by the client, though
  `LocationIntegrationApi.h:2049-2051` promises it a `LocConfigCb`, and the daemon never
  answers an injected location. `getLocConfigTypeFromMsgId` (89-178) has no case for map
  matched feedback: its answer is credited to the type of an injected location (`Credited`),
  which takes it for its own if one is pending. `EveryConfigIsTold` excepts the
  three (`Unanswered`); a restart of the daemon reports them.
* A call of the application and its processing by the task are one step: calls are posted in
  order, and what the task has not started on is told by nothing.

### Geofence

Geofences are numbers chosen by the client; a number stands for the area too, so that the
engine having another geofence under an id can be told (`engineFences[s].of`). LocationAPI
answers a call in the order of the calls and may refuse. The daemon may also give a request
up without an answer (`GfGivenUp`: `LocationApiService.cpp:1255-1290` and the like of the other
requests), after which the client waits for nothing. `gfAborted` is the exception of
`mGeofenceMap.at`, which ends the application.

The map of a client and the daemon's may lose one another in ways the code has no cure for.
`troubles` records whether one of these has happened, and the properties that cannot hold
afterwards say so:

* `"overlap"`: two requests about one geofence are under way (two removals, or a removal and
  a modification): the second answer finds no geofence and `at` throws;
* `"failure"`: the engine refuses a request about a geofence it has: daemon and client
  forget it, the engine goes on, and its next breach ends the application;
* `"restart"`: the geofences that are added again after a restart are not the last ones
  added, in that order, so they carry ids (`mLastAddedClientIds`) of others or none, which
  is the subject of `geofence_identity`; or the daemon crashes while the client, with the
  capabilities of this daemon, has still to register with it, and the registration may
  reach the next one before the client hears of it;
* `"dropped"`: the daemon gave a request up: its geofences are not in the engine, and the
  client's flag stays set until a session or the answer to another request clears it.

The pause state of the engine is left out: the client does not keep it, so a paused geofence
is active again after a restart.

### EngineBusy

`LocApiV02` runs on one task, so an action is one message of it. The mask to register
(`adjustLocClientEventMask`) is a function of the adapter's mask, the session, the power
state and whether requests wait. `mQmiMask` is what the adapter believes to be registered,
`engineMask` what is; `locSyncSendReq` changes only the second. Of the events, five are told
apart: the engine's state, the power state, requests for Wi-Fi, polynomials, and those of a
session, which stand for all others.

`registerEventMask` registers the new mask (588), then sends requests of its own
(`OwnRequests`: `wifiStatusInformSync` where Wi-Fi is newly asked for, and of the master
`setSvMeasurementConstellation` where the polynomials are turned on or off), and only then
sets `mQmiMask` (615). Each of these may be refused. `AfterRefusal` then compares with the
*old* mask: if that has the engine's state nothing is registered, otherwise the old mask with
the engine's state is registered over the new one. Nothing else runs on the task meanwhile,
so it is one step, of which `own` says how many of its requests were refused. The ghost
`ownRefused` keeps that number until the next registration; `BusyTypeOK` and
`CachedRequestsAreWoken` except what such a refusal leaves behind; `UnregisteredWhenFlushed`
and `NewMaskIsRegistered`, which do not, are violated.

* A request refused out of a session with the power state unknown is cached but not
  registered for until the mask is computed again, so `CachedRequestsAreWoken` speaks of
  `"RESUME"`.
* The status of a request that is sent again is ignored in the code; it leaves the queue
  whatever becomes of it.
* After the queue is flushed the comment at `LocApiV02.cpp:5167-5169` expects the engine's
  state to be deregistered; as `mQmiMask` does not know that it was registered, it may stay.
* Opening and starting a session send one further request each, before or after the
  registration. A refusal and the registration after it are one step, and registering
  succeeds while the client is open.

## 3. Runs

Runs are safe to stop (`CHECK_DEADLOCK FALSE`): a system in which all the requests of the
bound have been made and answered is idle, and idle is where a daemon belongs.

| Run | Instance | States | What it shows |
|---|---|---|---|
| `threads_safety` | 2 callers, 2 ids, 2 slots, 2 calls each, spurious wakeups; an integration and a QRTR client, 2 handlers, 2 requests; 3 refusals to the adapter | 2.0 M | slots, wakeups and payloads are right in every interleaving with a scan, and implement `SyncCalls`; a success was answered unless a wakeup was spurious; registry, configuration answers, energy query and xtra registration are exact; refused requests can be woken |
| `threads_live` | 2 callers, 1 slot, no spurious wakeups; a local and an integration client, 3 handlers; 3 refusals to the adapter | 400 k | every call returns; dead clients are removed; refused requests are sent again |
| `single_fix` | 2 clients, 3 requests, a location meets the accuracy or not | 846 k | sessions run exactly while needed; requests are answered at most once, as `FixRequests` allows, and end |
| `restart_safety` | sessions: 2 options, both modes, 3 starts, 1 crash, losses, refusals; both constellation types, map matched feedback, injected locations, xtra updates: 2 configurations, 1 restart; 2 geofences, 2 options, 1 further request, refusals, 1 breach, 1 crash | 5.7 M | client and daemon agree when settled, one kind of session, subscriptions; configurations are reported once and restored; the client knows the geofences it is told of, geofences agree, breaches are reported |
| `restart` | 4 types, 2 configurations, 1 restart; 2 geofences, 1 further request, 1 crash; tracking with 2 options, 3 starts, 1 crash, geofences | 330 k | configurations are told of, additions answered, starts answered, sessions served |
| `sync_req_sent` | 2 callers, 1 slot, 1 call | violated | a caller that finds no slot is told success |
| `single_fix_timeout` | 2 clients, 3 requests, accuracies 0..2 | violated | a queued timeout ends a newer request of the same client |
| `client_registry_freed` | a local and an integration client, 2 handlers | violated | a handler freed by a failed send is called again |
| `position_session_passive` | one passive option | violated | a session that only listens is never answered |
| `position_session_restart` | 2 starts of the daemon while the client registers | violated | a stop in the registration window leaves the daemon's session running |
| `geofence_identity` | 2 geofences, 1 crash | violated | a geofence is added again under the id of another |
| `engine_busy_suspended` | 2 refusals | violated | a suspended device stays registered for the engine's state |

### Why the bounds are enough

* *SyncReq.* Two callers can collide on an id, on a slot and on the buffer; the second call
  of a caller meets the late answer of its first. Slots are independent of one another, so
  two of them show a scan that passes one and reaches the next. The proofs remove the bound.
* *SingleFix.* The third request is the first that can replace one request and outlive
  another's timeout. One client replaces its own request, two share a session. The proofs
  remove the bound.
* *ClientRegistry.* For liveness three handlers let one client die, come back and leave
  while another is pinged. For safety two do: one client that registers twice, or two
  clients. The same invariants hold with three (3.7 M states). Two requests let one be
  answered while the other's answer overtakes its entry. The proofs remove the bound for the
  invariants.
* *PositionSession.* Three starts are a session, its update and a session of the other kind,
  with stops between them. One crash can fall at any point of any of them; the initial state
  in which the daemon is not up yet counts as one. Geofences are left to the run `restart`; the
  invariants hold with them too (8.5 M states). Two crashes are the subject of
  `position_session_restart`: two that overlap one registration defeat `SessionsAgree` and,
  with both kinds of session, `OneKindOfSession`. For any number that do not (`CalmSpec`)
  the invariants are proved, with any number of starts.
* *IntegrationConfig.* Two configurations are one before and one after a crash, two of a
  type, or two of different types. Two restarts, the second of which meets what the first left
  on the sockets, pass as well (14.6 M states). The proofs remove the bound for all the
  safety properties.
* *Geofence.* Two geofences are the fewest that can be confused with one another, and added
  in two calls; the further request races the addition, the crash and the breach. The proofs
  remove the bound.
* *EngineBusy.* A registration can have two requests of its own refused, and a third may
  wait already or be refused after they were sent again; two reports of the engine wait together, so that one is read in a state the other
  has changed. The proofs remove the bound.

### Fairness

* `SyncReq`: weak fairness of each step of a caller and of the scan. They are steps of
  running threads; locks are held for bounded work only. The modem owes no answer: what ends
  a wait is the timeout.
* `SingleFix!FairSpec`: weak fairness of each timer's expiry and of the daemon's message
  task. Clients, engine and network owe nothing.
* `ClientRegistry`: the maintenance timer fires again and again and the message task runs,
  until undefined behaviour ends the process.
* `PositionSession!FairSpec`: the client's task, the daemon's receiver, the restart of the
  daemon by the init system, and of LocationAPI its answers and its report of capabilities.
  Applications and trips owe nothing.
* `IntegrationConfig!ConfigFairSpec`: the client's task, the daemon with its restart, and
  the control sessions of LocationAPI, each of which ends.
* `Geofence!GfFairSpec`: the client's task, the daemon with its restart, answers and
  capabilities of LocationAPI. Breaches owe nothing.
* `EngineBusy!BusyFairSpec`: the adapter's task runs (weak), and the engine is turned off
  again and again (strong, for the bounded queue of reports may be full each time it could
  be). `RequestsAreSentAgain` assumes in its own formula that the device stays awake and the
  client open, and that registrations have no request of their own refused any more or that
  sessions begin and end again and again: a request that waits unheard is sent again only
  after a registration that changes the mask.
* Steps of the environment (`GeofenceStep`, `SessionMovesFlag`) owe nothing.

### Disagreements between code and documentation

The seven violated runs are each a `finding` of `PROJECT.json` with the line quoted. The
same code has further consequences; their definitions are in the modules, without a run:

| Definition | Violated with | Meaning |
|---|---|---|
| `SingleFix!TimeoutMissesQoS` | 2 clients, 3 requests, accuracies 0..2 | the last location of the session is delivered at a timeout, whatever its accuracy |
| `ClientRegistry!CleanedUpOnce` | `Clients = {c1, i1}`, `IntClients = {i1}`, 2 handlers, 1 request | maintenance and a purge clean up the same handler |
| `PositionSession!BatchingModeAgrees` | one option, both modes, 2 starts, no crash | a batching session started again keeps its old mode in the engine |
| `PositionSession!StartIsAnswered` | one batching mode, 1 start, no crash | batching started before the client is registered is answered NOT_READY, but stays pending: every later start is refused until tracking is stopped |
| `PositionSession!AnswerIsItsOwn` | one option, 2 starts, no crash | after a stop the next start is told the answer of the previous one |
| `PositionSession!SubscriptionsAgree` | `{o1, "passive"}`, 2 starts, no crash | a session made passive loses its subscriptions |
| `PositionSession!OneKindOfSession` | both kinds, 2 crashes | the stop that is not sent in the registration window leaves one kind running when the other starts |
| `PositionSession!StartIsReported` | one option, `Geofences`, 1 start, no crash | `LocationClientApi.h:3538-3540` promises that `responseCallback` is invoked; the answer to a request about a geofence clears the shared flag (`LocationClientApiImpl.cpp:3582`), and the start's own answer is dropped (3421-3428) |
| `SyncReq!SuccessWasChecked` | 1 caller, 1 slot, 1 call, spurious wakeups | "wake up thread to check it" (`loc_api_sync_req.cpp:205`), but nothing is checked: the timed wait (440) is not in a loop, and any return but a timeout is a success |
| `EngineBusy!UnregisteredWhenFlushed` | 1 refusal, 1 report | the comment at `LocApiV02.cpp:5167-5169` unregisters the engine's state because the queue is flushed; a request refused while a mask without it is being registered (605-612, 9209) waits with nothing registered |
| `EngineBusy!NewMaskIsRegistered` | 1 refusal, 1 report | the comment at `LocApiV02.cpp:5157-5158` has registerEventMask register the new mask; a request refused between 588 and 615 registers the old one over it (9210), and events of a session just begun are not reported |
| `IntegrationConfig!FlushedConfigsAreCached` | `MIN_GPS_WEEK` among the types, 1 restart | the flush at a restart reports SUCCESS for types that are not cached and will not be sent again, against the comment at `LocationIntegrationApiImpl.cpp:1703-1704` |

## 4. Proofs

| Module | Theorems | Invariant |
|---|---|---|
| `SyncReqProofs` | `TypeCorrect`, `SlotsAreOwned`, `NoWakeupIsLost`, `PayloadsAreDeliveredRight`, `BuffersOutliveWrites`, `SuccessIsAnswered`; `SlotsImplementCalls`: `SyncReq` implements `SyncCalls` | `IInv`; `RInv` |
| `SingleFixProofs` | `TypeCorrect`, `NetworkSessionsAreExact`, `TrackingSessionsAreExact`, `NoStaleLocation`, `RequestsAreTimed`, `RequestsAreServedOnce`, `NothingIsDropped`; `FixRequestsAreImplemented`: `SingleFix` implements `FixRequests`; `PatientTimeoutsAreOwn` of `PatientSpec` | `IInv`; `PatientInv` |
| `ClientRegistryProofs` | `TypeCorrect`, `RegistryIsExact`, `ConfigRequestsAnsweredOnce`, `EnergyQueryIsShared`, `XtraUpdatesAreOn` | `IInv` |
| `IntegrationConfigProofs` | `ConfigsAreTyped`, `ConfigsAreAccounted`, `XtraIsToldOnce`, `ConfigurationsAreRestored` | `AccountsInv`, `XInv`, `Restorable` |
| `EngineBusyProofs` | `MasksAreTyped`, `RequestsAreWoken` | `IInv` |
| `PositionSessionProofs` | `TypeCorrect`; `CalmSessionsAgree`, `CalmOneKindOfSession`, `CalmSubscriptionsAgree` of `CalmSpec`; `OneCrashSessionsAgree`, `OneCrashOneKindOfSession`, `OneCrashSubscriptionsAgree` of `Spec` | `IInv` |
| `GeofenceProofs` | `GeofencesAreTyped`, `ClientsAreSubscribed`, `OnlyKnownGeofencesAreTold`, `GeofencesMatch` | `Typed`, `BInv`, `GInv` |
| `RestartProofs` | `RestartImplementsItsParts`, `RestartKeepsTypes`, `RestartIsSafe`, `RestartServesSessions` | those of the parts |

They hold for every set of threads, clients, ids, options and types and every bound, under
the named assumptions of the modules (bounds are natural numbers, the markers for "none" are
not among the values, kinds of clients are subsets of the clients, types are known ones) and,
for some theorems of `PositionSessionProofs`, those in their statement, explained below.

*SyncReq.* That a slot has one owner (`SlotOwnership`) is preserved only if a slot nobody
owns is clear (`SlotContents`) and `in_use` is the disjunction of the slots
(`InUseIsExact`), because allocation trusts it. That no wakeup is lost needs to know that a
set `ind_is_waiting` means that the owner sleeps (`Wakeups`). That a payload reaches one
caller needs the scan's count of the slots it has given the payload to (`ScanCounts`) and
the history of the buffers (`Payloads`). `SuccessIsAnswered` assumes nothing about wakeups: it
needs that a signal is only sent by an indication that matched, and that a wait which ends
without one leaves the thread in `unsignalled`. The invariant is the conjunction.

*The refinement of SyncCalls.* Initial states map to initial states, and each action of `SyncReq` maps to
an abstract call or a stutter, one lemma per action. Besides `IInv` it needs three facts. An
indication that answers a call carries the handle and id of its slot (`AnswersMatch`). The
scan has not passed the slot of a waiting call that its indication answers without telling
it (`ScanMissesNobody`): this is why dropping it at the end is allowed. And a call that has
not returned from its wait still has the status SUCCESS (`Undecided`), which it would return
if it were woken.

*SingleFix.* The sessions are exact because the maps are: `MapsAreOwn` (an entry of a client
is a request of that client, of that kind), `ConsentHasApi` (a terrestrial request is
pending only if the network API exists). `RequestIsTimed` and `AnsweredAtMostOnce` need
`NothingSentAhead`: a request that has not been made has no answer, no timer and no timeout
message. `NothingIsDropped` is an action property proved from the same invariant, and the
refinement of `FixRequests` as well. Its lemmas are about the two things a handler does to
what a client sees: entries that are erased stop waiting and no others do
(`ErasedStopWaiting`, because by `MapsAreOwn` a request is in one entry), and what is sent
is told behind what was told before (`SendTells`).

`PatientTimeoutsAreOwn` says how far the finding of `single_fix_timeout` goes. `PatientSpec`
is `Spec` without requests that come while a timeout of their client and kind is in the
queue, and there every TIMEOUT is that of the request it ends. It needs that a timer runs
only as long as its request is the entry (`TimersAreOwn`, because an erased entry takes its
timer with it) and that a queued timeout finds the request that armed it, or none
(`TimeoutsAreOwn`). TLC finds `PatientInv` to hold with 2 clients and 3 requests (332 k
states up to symmetry).

*ClientRegistry.* `RegistryIsLive` needs `MaintVictimIsNamed`: the handler that the unlocked
maintenance fetched belongs to the name it is about to erase, so cleaning it up leaves no
other name with a dead handler. The other conjuncts are inductive together with the types.

*IntegrationConfig.* `EveryConfigIsAccounted` is inductive once the counts and the queue are
typed. The queue enters it as the number of its places with a message of a type, and sending
it removes a front part: the lemmas on `Places` say that places before and after a cut add
up, that an append adds one, and that emptying the rest moves them. `XInv` says that a
pending report belongs to a registration not told yet.

That configurations are restored is `Restorable`, which speaks of what the daemon knows or
will know when it has taken what is on its socket. `LastIn(q, k, S)`: of the messages of
type k in q the last is one of S. A registered client has told the daemon its registration,
the last value of every cached type and the state of the xtra registration (`Told`), each of
them as the last of its kind on the socket, or taken and followed by no other. This is
claimed of the run of the daemon the client knows of (`Current`); at `HAL_READY` it is
established afresh from the cache. One thing is not sent again, the end of the xtra
registration, and needs to be right all along. Before its registration the client has sent
nothing, and the queue ends with what was accepted last (`Queued`). Taking a message, adding
one and emptying the socket are one lemma each on `LastIn`.

*EngineBusy.* `CachedRequestsAreWoken` is inductive with the types, which carry the relation
of the two masks: unless a request of the last registration was itself refused, `mQmiMask`
lacks at most the engine's state of `engineMask`. So where `registerEventMask` finds nothing
to change, what the engine has is still enough. In every case the engine's state is never
taken to be registered when it is not: `AfterRefusal` registers the old mask with it, or
leaves the new one as it was registered. A registration is one lemma.

*PositionSession.* The requests on their way are a program for the handler. A *view* is what
the requests read and write of it: registered, tracking with which options, batching,
subscription. `LeadsTo(v, toDaemon, w)` says that handling these requests takes the view v
to w, and the invariant, that there are such views: v is the handler's own or, where a purge
or a refusal has made the handler lose something, more than it has (`Bounded`); w is what
the client wants, or less while it does not yet know of this run of the daemon (`Serves`,
`Exact`). So the two sides agree as soon as nothing is on its way, and the daemon never has
two kinds of session: a start of the one kind is handled in a view in which the stop of the
other has been. A step of the client appends to the requests and changes w, one of the
daemon takes the first and changes v; two lemmas on `LeadsTo` say so. The other half follows
the registration through a crash: `Ordered` (`HAL_READY`, `REGISTER` and `CAPABILITIES` are
in the inbox in an order that lets the client register with the daemon that is up),
`OneRun` and `Unserved`.

`StillRegisters` is the state in which a further crash breaks this: the client believes, or
is about to be told, that it is registered, while it has still to register with the daemon
that is up. The stop it then sends goes to a daemon that does not know it and is lost,
which is the finding of `position_session_restart`. `CalmSpec` is `Spec` without a crash in
such a state, and the theorems about it have no other assumption on crashes. With
`MaxCrashes =< 1` no crash can meet such a state: before the first crash the client has
either not registered at all or is done with it (`FirstRun`). Therefore every behaviour of
`Spec` is one of `CalmSpec`, and the `OneCrash` theorems are about `Spec` as the run
`restart_safety` explores it. The steps of geofences move the flag only
(`GeofencesKeep`), which no view reads.

`SubscriptionsAgree` is proved for options none of which is passive: the stop the client
sends when it makes a running session passive makes the daemon drop its callbacks, and
nothing subscribes them again (section 3, the disagreements).

*Geofence.* Every type of message has the fields its handler reads, ids in the map of the
handler are bounded by the sessions begun, and the calls not answered have the types in
`mGfPendingMessages`; that is `Typed`. It needs that a finite sequence of geofences has a
last one of each id (`LastOfExists`, by the least number principle) and that the client's
geofences are finitely many, so that they can be put in order (`FencesAreFinite`).
`BInv` says which messages are to be trusted: capabilities that no `HAL_READY` follows are
those of the daemon that is up, and a client that believes to be registered and has no
`HAL_READY` before it is. From then on its subscription is either there or on its way
(`SubscriptionArrives`), and a client with geofences the daemon was told of has breaches in
its mask (`MaskIsSet`).

`GInv` is about the maps, in behaviours without troubles. `GeofencesAgree` speaks of the
states in which all queues are empty, so its strengthening has to say what the queues hold in
all others. `Matched` does, of a client that is registered with the daemon that is up
(`Live`). It is a conjunction of three parts:

* `Separate`: what is on the daemon's socket, in a call or in an answer is about different
  geofences, all of which are awaited. So no two requests are under way about one geofence,
  which is what `"overlap"` excludes. The handler has as many ids of session 0 as there are
  calls about no session, so that the answer to such a call finds an id to erase.
* `Placed`: a geofence the client knows is in the handler's map, in an addition on its way or
  in an answer that will erase it; the map is injective and leads to a session of the engine
  or one being added.
* `Current`: the options in the messages, the calls and the engine are the client's, or a
  modification with them is on its way.

While the client is not `Live`, the daemon that is up has none of its geofences and will
hear of none before it has taken the registration, and the capabilities and answers still in
the inbox are of a daemon that is gone (`Calm`). This is where `"restart"` is needed: a
registration that reaches the next daemon too early makes it look registered to a client
that is not. `MessagesAreKnown` is the part for the look-ups: an answer or a breach in the
inbox is about geofences the client knows, and none is named after an answer that erases it.

The proofs look at a queue only through the sets of what its messages are about (`Of`,
`All`, `Apart`): appending and taking a message are one lemma each on these sets, and the
lemmas of the actions are about sets and maps.

*MCRestart.* The specification the runs `restart` and `restart_safety` explore is not that of
one of its parts but of the three side by side. `RestartImplementsItsParts` says that it
implements each of them: a step of the part that moves is a step of its own specification, and
a stutter of the others'. So every theorem about a part holds of what the runs explore, for
every value of the constants; `RestartKeepsTypes` and `RestartIsSafe` collect those they check.

*Layout.* Type correctness is split into groups of variables with one lemma each; then there
is one lemma per action and part of the state, and the induction step puts them together.

### What is only model-checked

* Liveness (`EveryCallReturns`, `DeadClientsAreRemoved`, `RequestsAreSentAgain`,
  `EveryRequestEnds`, `SessionIsServed`, `StartIsAnswered`, `EveryConfigIsTold`,
  `AddIsAnswered`): fairness is out of the prover's reach.

Every other invariant of the runs is a theorem, and so are their action properties and the
refinements of `SyncCalls` and `FixRequests`.

## 5. Plan

**Done**: `SyncReq` and `SingleFix` with their abstract specifications, `ClientRegistry`,
`PositionSession`, `IntegrationConfig`, `Geofence`, `EngineBusy`; proofs of their safety
invariants. What is left, in order:

1. **An abstract session** (requested options, served options, answered or not) that
   `PositionSession` implements; the client's single-shot and debug requests in
   `LcaSession`, destruction of the client, the entry points of Android clients.
2. **`IdlSession`**: the one session of the SOME/IP service, which counts the starts of all
   its clients (`LocIdlAPIService.cpp:797-978`). A start while the answer of another is
   pending is refused by the client API, which the service ignores.
3. **`QapiSingleShot`**: timer, location callback, cancel and deinit of `qapi_location.cpp`,
   of which only some take `qMutex`; the timer of LocTimer has to be modelled as external.
4. **Pure parts**: the position filter's interval against a reference definition, the pulse
   filter of `gnsspps`.
5. **`BlockingQueue`** of `base_util`; open and close of the QMI client; signal types in
   `ClientRegistry`.

## 6. Not modelled

The components of section 5, points 1 to 5, for which the source is here and which are of
the same kind as what is modelled.

Protobuf and QMI conversion, formatting, logging and diag logs: data without control, and
most of the lines of `LocApiV02.cpp`, `LocationApiMsg.cpp` and `LocationApiPbMsgConv.cpp`.
Generated code, QMI tables and stubs of SOME/IP, which make up about half of the repository.
Start-up of the daemon: configuration files, privileges. `synergy_loc_api`: forwards to a
library that is not here. `izat_api`, `nlp_api`, `mapdata_api`, `loc_sll_if`,
`ntrip-client-integration-api`: headers, and a stub that logs. Test programs. Data races are
modelled only where their outcome is a state of the program (the unlocked scan and the
unlocked maintenance); iteration over a container that another call changes is not.
