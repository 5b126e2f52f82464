# TLA+ models and proofs of the IoT interactive kit

The IoT interactive kit is a Zephyr firmware for an ESP32-S3 (`src/src`, C) with a
Python desktop application (`src/desktop_app`).  The device joins a Wi-Fi network with
credentials it has stored, or opens a SoftAP over which a client gives it some; then it
serves an HTTP API for relays, LEDs, a motor, a servo, a buzzer and seven sensors.

What is hard in it is not the API but what is behind it: three threads that share static
variables without a lock, work items that schedule each other, driver events that arrive
late or out of order, a flash that is written key by key, a sensor that outlives a reboot, outputs that fail
half-way through a call, and an application whose answers come back in any order.  The modules
here model those parts, and this file says which code each of them stands for, what TLC checks about it, what TLAPS proves, and what is left out.

Paths are relative to `src/` of the repository; `modules/x.c` is `src/modules/x.c` there.

## 1. Inventory

| Component | State it keeps | Operations | Called by | Correct when |
|---|---|---|---|---|
| `wifi_manager.c` | requested / linked / ready flags, IPv4 state, SoftAP flags | connect, disconnect, start and stop AP; handlers for link, address and AP events | provision_module; net_mgmt event thread | every usable link is announced once; no stale event overrides a newer request |
| `provision_module.c` | mode, attempt counter, retry and reconnect flags, five work items, one semaphore | start, blocking connect, reset, delayed AP stop; work handlers; event callback | main, API thread, system work queue, event thread | attempts bounded and supervised; a result belongs to the request that waits; the device is always reachable or trying |
| `config_module.c` | RAM copy, provisioned flag, eight flash entries, `config_lock` | load, get, save, clear, mark, factory reset | all threads | RAM equals what a reboot would load; flag implies credentials |
| `reset_button_module.c` | one delayable work item | edge interrupt; factory reset and reboot | GPIO interrupt, system work queue | only a held button resets, and then it does |
| `api_module.c`, server | listener, buffer, one connection | listen, accept, receive, dispatch, send | API thread | whole requests only; nobody waits for ever |
| `api_module.c`, handlers | none of their own | about twenty routes | the server | arguments checked before a module is called |
| `vl6180x_module.c` | none on the processor; the registers of the sensor | init, single-shot range | main, API thread | the range is of the measurement asked for |
| `motor`, `servo`, `relay`, `led`, `buzzer` modules | last value written | set, get, self tests | main, API thread | output and reported value agree; the bridge of the motor is never driven both ways |
| `gpio_inputs`, `analog`, `dht22`, `mpu6050` modules | none | read | API thread | the answer is the measurement, sign included |
| `rgb_module.c` | pixels | network status, colour | `set_mode` of provision_module, on four threads | the LED shows the mode |
| `device_identity.c` | names made from the MAC address | init, get | provision_module, API | — |
| `main.c` | — | order of initialisation | — | API starts after configuration and provisioning |
| desktop application | shown page, armed poll, Connect button, labels, workers | navigation, poll, connect, read and set of an output | Tk main loop, worker threads | one poll, one POST /wifi; a label says what the output does |

How they interact: `main` loads the configuration, starts the policy
(`provision_module_start`) and lets the API thread go.  The policy asks `wifi_manager` for
links and SoftAPs; the driver answers through net_mgmt events, whose handlers call back
into the policy on the event thread.  The policy schedules its own future on the system
work queue.  `POST /wifi` blocks the API thread, and with it the whole server, on a
semaphore that those two threads give.  The factory reset runs on the same work queue and
ends in a reboot.

Hard behaviours, and where they are modelled: interleavings of the three threads
(Provision), events that cross with requests (WifiManager), timeouts racing late results
(Provision), power loss between two flash writes (ConfigStore), stale copies written back
(ConfigStore), clients that stall or close (HttpServer), a peripheral that keeps state over
a reboot (Vl6180x), calls of which some writes fail (Actuators), four threads that set one LED
(StatusLed), answers and timers that overtake each other (DesktopApp).  `PROJECT.json`
lists them one by one as hazards, at their lines.

## 2. Modules

| Module | Models | Extends |
|---|---|---|
| `WifiManager` | `wifi_manager.c` with the driver, the DHCP client and the event queue | |
| `Provision` | `provision_module.c`, the API thread's two long requests, the Wi-Fi part of the configuration, time, power | `WifiManager` |
| `ProvisioningService` | abstract: what a client of the provisioning API may rely on | |
| `ProvisionProperties`, `MCProvision` | what the threads owe each other, and the mapping to `ProvisioningService`; a small instance | `Provision` |
| `ConfigStore`, `ConfigStoreProperties` | `config_module.c` and `reset_button_module.c` with the threads that use them | |
| `HttpServer`, `MCHttpServer` | the server of `api_module.c` with its clients | |
| `Vl6180x` | `vl6180x_module.c` with the sensor and the bus | |
| `Actuators` | motor, servo, buzzer, relay and LED modules with their handlers, and the outputs | |
| `Sensors` | the four stateless sensors with their handlers | |
| `StatusLed` | `set_mode` and `rgb_module.c` with the strip | |
| `DesktopApp` | navigation, poll, Connect button, relay and LED pages, with workers and network | |
| `Devices`, `MCDevices` | the five above under `main` and the API thread; a small instance | all five |
| `ProvisionHistory`, `MCHistory` | `Provision` with a record of what has gone wrong, and what the station's link owes the device as long as that has not; a small instance | `ProvisionProperties`, `MCProvision` |
| `ProvisionProofs`, `ConfigStoreProofs`, `HttpServerProofs` | theorems | the module of the name |
| `ProvisionServiceProofs` | theorems about `Provision` with clients on the SoftAP, and its refinement of `ProvisioningService` | `ProvisionProofs` |
| `SoftApProofs` | theorems about the SoftAP, for clients on any network | `ProvisionServiceProofs` |
| `StationProofs` | theorems about the station's link, for clients on any network | `SoftApProofs`, `ProvisionHistory` |
| `PeripheralProofs` | theorems | `Vl6180x`, `Sensors`, `StatusLed`, `Actuators` |
| `DevicesProofs` | theorems about the application and the composition | `Devices`, `PeripheralProofs` |

Definitions whose name begins with `Mut` are slips a programmer could make in the
definition that follows them; they are not part of the specification.  Each property below
fails when one of them takes the place of the real definition, so each can fail.

### WifiManager and Provision

*State.*  The variables carry the names of the C statics.  `drv_*`, `sta_ip` and `dhcp_on`
are what the driver and the network stack know; `events` is the net_mgmt queue; `work` maps
each delayable work item to the ticks until it is due, or `Off`; `api` is the point that
the API thread has reached in `handle_wifi_post` or `handle_provision_reset_post`;
`config` and `nvs` are the credentials in RAM and in flash.

*Steps.*  The system work queue and the event thread are cooperative threads (Zephyr gives
them negative priorities), so neither preempts the other and every handler is one action:
`EventStep` takes the head of the queue and runs the handler and its callback; `WorkStep` runs
a due work item.  The API thread is preemptible (priority 7), so its two requests are cut into
steps wherever the order against a handler matters: after the cancellations, after the
disconnect, at the semaphore, before the save, before the reply.  What lies between two
such points is one step: the six cancellations of a request, and the assignments, `k_sem_reset` and the first
`schedule_sta_connect` of a POST (`provision_module.c:489-502`).  A handler that preempts the thread within
one of these is not explored: between two cancellations it could arm an item that has been cancelled already,
and between the assignments undo some of them.

*Network.*  A join succeeds, fails with either of the two events the driver has for it, or
never ends; a link may be lost at any time; an address comes after the link event, which asks DHCP for
one (so that `wifi_manager.c:240` finds an address only where an event comes late); the static
configuration may fail.  The driver may refuse to start the SoftAP, its address may be impossible to set up,
and its DHCP server may not start; an accepted start is not failed later by an `AP_ENABLE_RESULT` with an
error, whose status the handler would only log (`wifi_manager.c:277`).  Which of these may happen is the
constant `Faults`, so that a run can say what its property depends on.  `ap_start_error` is a history variable
for the properties: has the last start failed?

*Abstraction.*  `ProvisioningService` knows no attempt, timer, flag or event: a request is taken up,
tried, proven by a join, kept and answered; a reset forgets; the SoftAP does not close while a request
is under way.  Its `used`, `stored`, `joined` and `door` are `config`, `nvs`, `last_joined` and
`drv_ap`; its `request` is read off the point the API thread has reached (`RequestOf`).
`ImplementsService` says that every step of the three threads is one of its steps or none.

### ConfigStore

One variable per key of the configuration, in RAM and in flash, written one key at a time:
a power loss or a failed write can fall between any two.  `config_lock` is held as long as the
code holds it and no longer: the API thread's copy (`config_module_get`, change,
`config_module_save`) outlives it.  Reset and reboot are separate steps, because the work queue
sleeps 300 ms in between.  `StaOperational` marks the device only where there are credentials, which the
handler does not test: a reset takes `sta_connect_in_progress` away (`provision_module.c:613`) before it clears the configuration
(`:617`), so that a device without them is not told of a connection.  The button is a level that changes at will, and `button_isr` sees
it through `gpio_pin_get_dt`, whose inversion depends on the board (`ActiveLow`).

### HttpServer

A request is the size of its head, the length it announces, the size of its body, and
whether its header is spelled as `http_content_length` compares it.  Clients write any number of
bytes at a time, stall, or close.  The thread takes any part of what has arrived, up to the
room in its buffer.  `int` and `size_t` wrap at `SizeMod`.  A poll that finds nothing may expire.
The handlers are one step here: the two that are longer are in Provision and ConfigStore.

### Vl6180x

One action per register access that matters, each of which may fail.  The sensor finishes a
measurement when it likes, and its registers live through `Reboot` but not through `PowerCycle`.
Measurements have no values but an age: made for this call, or for one before.  `cut_off`
is a history variable: has some call ended between its start and its clear?

### Actuators

A call is a sequence of writes to outputs, each of which may fail, and then a return, which updates
what the module reports.  The order of the writes is that of the code: a change of direction stops both
channels first, a beep starts and ends a tone.  Numbers of a request pass through `JsonInt`, which wraps
as `json_get_int` does, and then the range check of the handler.  `BootCalls` are the self tests that
`main` runs.  `slips` and `in_doubt` remember which writes failed, for the properties.

### Sensors

No state but the last sample and its answer: what matters is the conversion between them, the clamping
and percentage of the ADC and the sign of a `sensor_value`.  The humidity is printed without the sign handling
of the other values (`api_module.c:871`); it is never negative, so that `Decimal` stands for it too.

### StatusLed

`set_mode` in the three steps between which another thread may run: the mode, the pixels of the
module, the transfer to the strip.  The cooperative threads do not preempt each other, but the
transfer waits, and the API thread and `main` can be preempted anywhere.

### DesktopApp

The Tk main loop runs one callback or timer at a time; a worker is a thread that waits for one
request.  `at` says where that request is: sent, with the device, answered, or given up by a worker
while it is still on its way.  `muddled` is a history variable: the rows whose last request was not alone, or
whose output somebody else has driven since, another client (`OthersDrive`) or a reset of the device
(`DeviceReset`, which also ends the request in hand with an error).  Timers are two identities, so that a cancelled and an armed one can be told
apart.  A page is `mapped` only some time after it is shown, because `on_hide` depends on it.

### Devices

`main` initialises the devices in the order of the code; then the API thread serves one request at a
time: that is why a call of one device never overlaps another's.  The app's requests are taken by
that thread too, so a click, a write to a pin and the label that comes of it are one behaviour; another client
may post to the same outputs, and the device may be reset at any time, while the application goes on.  Since
the modules share nothing but their caller, one of them is `used` in each behaviour: that keeps the sum of
the component state spaces from being their product.

## 3. Runs

| Run | Kind | Properties | What it shows |
|---|---|---|---|
| Setup | pass | `TypeOK`, `AttemptBudget`, `AttemptSupervised`, `RetryScheduled`, `ResultIsFresh`, `BudgetSuffices`, `ProvisioningModeHasAp`, `LinkIsUsed`, `OperationalMeansReady`, `ConnectingMeansTrying`, `ImplementsService` | with a client on the SoftAP and every fault, the three threads keep their agreements, implement the abstract service, and use every link, short of what the record `radio` excepts |
| Answers | pass | `ApAgreement`, `ClientKeepsAp`, `CredentialsProven`, `RequestsAnswered` | with clients on either network every request is answered, over a SoftAP that stays and of which all have the same view, and only credentials that have joined are kept |
| Reconnect | pass | `LossIsRetried`, `ReconnectPersists`, `NeverGivesUp` | a device alone, whose joins fail, links drop and power fails, always goes on trying, or offers its SoftAP |
| Store | pass | `StoreTypeOK`, `RamMirrorsNvs`, `ProvisionedHasCredentials`, `HoldToReset` | RAM, flash and flag stay in step over saves, resets and power losses |
| StoreReset | pass | `ResetCompletes` | a reset gets through although the API thread competes for the lock |
| HttpServer | pass | `HttpTypeOK`, `WholeRequest`, `RefusedTooLarge`, `ServedInTheEnd` | whole requests, an exact limit, and nobody left waiting |
| Devices | pass | `FreshUntilSetUp`, `FreshUnlessCutOff`, `CallReturns` | initialisation survives errors and reboots; a range is old only after a call was cut off |
| | | `ActuatorsTypeOK`, `ReportedIsDriven`, `ReportedWasDriven`, `NoShootThrough` | outputs stay within their limits and agree with the reports, unless a write failed |
| | | `ShownIsMeasured`, `LedShowsMode` | answers of the sensors are exact; the LED catches up with the mode |
| | | `ConnectComesBack` | the Connect button is enabled again however its request ends |
| Labels | pass | `OnePoll`, `OneConnect`, `LabelIsDriven` | the application keeps its timers and workers apart, and a label is true until somebody else drives its output |
| NoApAfterPost | violation | `ProvisioningModeHasAp` | a failed POST over the STA network leaves "provisioning" without a SoftAP |
| ReleaseResets | violation | `HoldToReset` | where sw0 is active low it is the release that starts the reset |
| LostInHandover | violation | `LossIsRetried` | a link lost in the 300 ms after a successful POST is never retried |
| StaleRange | violation | `FreshRange` | one bus error makes the next call return the range before |

The four violations are disagreements between the code and a line of the README; they are
described with that line under "findings" in `PROJECT.json`.

*ReleaseResets.*  The polarity of sw0 is in the board file, outside this repository; the
overlay in `boards/` and `gpio_inputs_module.c` show how pins declared active low are read
elsewhere.  Store assumes an alias that is not, ReleaseResets one that is.

### Bounds

- *Time.*  `FallbackDelay`, `ConnectTimeout` and `ReconnectDelay` are 15, 30 and 60 s in the code
  and 2, 4 and 8 ticks here, in their true proportion.  The shorter ones are in their order: the sleep of a POST
  and the stop of the SoftAP, 300 ms each, are one tick and the retry delay of 500 ms is two.  What depends on the
  order of two timers depends on those ratios, and `DelayOrder` states what is assumed of them.
- *Attempts.*  `MaxAttempts` is 3 or 2 instead of 5: with 2 there is a first and a last
  attempt, with 3 one that is neither.
- *Events.*  `MaxEvents` bounds what the driver may add to the queue of 32, not what requests
  add; two is enough for an event to be overtaken by another cause.  `MaxLag` is how many
  may still be queued when a tick passes: 1 for a late event thread, 0 where a property
  assumes that the thread keeps up.
- *Configurations.*  Two, one with DHCP and one static: the old and the new one.
- *Store.*  One profile and one name besides the defaults give every difference that a stale
  copy can make; StoreReset needs none, since it is about locks.
- *HttpServer.*  A buffer of 6, two clients and a backlog of one give requests below, at and
  above the limit in all pieces, one client behind the other, and one that is kept out.
- *Devices.*  Two settings of the range sensor give a first and a last; three polls a first, one between and a last.
  The numbers of a request lie below, at and above each limit of a handler, and one fits only after it
  has wrapped (`IntMod` is 2^16 here and 2^32 in the code, both above every limit).  One relay and one
  LED pin stand for two and three that are alike; the samples of the ADC lie around 0, one percent
  and full scale.
- *Labels.*  One row of the application is enough for requests to overlap, with
  two workers for the second of them, and for a POST beside a read.  To the application a reboot and a power cycle
  look alike, so one of them is enough; Devices has no rows and leaves the requests of the pages to this run.  `MaxCallbacks` 0 means that no
  new worker starts while a callback waits; two workers may still leave two callbacks.
- *StatusLed.*  Two callers of `set_mode` make one overlap; the proofs cover any number of them.

### Fairness

- The kernel runs handlers that are due and delivers events: `WF` on the work and event
  steps, which are cooperative threads that never wait for anything the model lacks.
- The API thread runs when it can (`WF`): it has a low priority, but every thread above it blocks.
- Time passes: `SF` on `Tick`, because `Tick` waits for moments in which nothing is due, and
  those come again and again but not for ever.
- `SF` on the factory reset's steps: Zephyr hands a mutex to the waiter with the highest
  priority, and the work queue's is higher than the API thread's.
- The HTTP thread and the VL6180X driver go on once begun (`WF`).  That its handlers return is what
  Answers checks for the one that blocks longest.
- A worker of the application ends (`WF`): every request has a timeout; and Tk runs the callbacks that
  are left with it (`WF`).
- Clients, the user, the driver, the sensors and the power owe nothing.

### The record `radio`

`LinkIsUsed` and `OperationalMeansReady` are about what the device owes its station, and neither survives
everything that may happen to it.  `ProvisionHistory` therefore adds one history variable to `Provision`, which no
action reads, and the two properties say what holds until certain events have happened:

- `radio` is "rough" once an event of the driver has come late, that is, once a work handler ran while one was queued, or
  once a static address was refused.  The first is rare: the event thread and the work queue are both
  cooperative, and the work queue yields after each handler, so an event that the driver has raised by then is
  handled first.  The second is `wifi_manager.c:224`.
- It is "lossy" once a link was lost or a POST has stopped waiting before its attempts were over.  A lost link is not told
  while the SoftAP is open: the mode stays "operational".
- It is "calm" until then, and again after a power loss.

`LinkIsUsed` holds unless `radio` is "rough", `OperationalMeansReady` while it is "calm".  Setup checks both
with a client on the SoftAP; the theorems of `StationProofs` hold for clients on any network.  Section 5 says what
goes wrong in the excepted cases.

## 4. Proofs

All for every value of the constants that the modules assume; a hypothesis beyond that is
in the second column.

| Theorem | States | Rests on |
|---|---|---|
| `ProvisionProofs!TypeCorrect` | `TypeOK` | `InductiveInvariant` |
| `ProvisionProofs!AttemptBudgetHolds` | `AttemptBudget` | `BudgetInv` |
| `ProvisionProofs!RetryScheduledHolds` | `RetryScheduled`, as long as the semaphore's wait has not expired | `RetryInv` |
| `ProvisionServiceProofs!BudgetSufficesHolds` | `BudgetSuffices`, clients on the SoftAP | `ServiceInvariant` |
| `…!RetryAlwaysScheduled`, `…!AttemptSupervisedHolds`, `…!ResultIsFreshHolds`, `…!ConnectingMeansTryingHolds`, `…!ProvisioningModeHasApHolds`, `…!ApAgreementHolds` | the invariants of these names, clients on the SoftAP | the same |
| `…!CredentialsProvenHolds` | `CredentialsProven`, an action property, clients on the SoftAP | the same |
| `…!ImplementsServiceHolds` | `Spec => ImplementsService`, the refinement of `ProvisioningService`, clients on the SoftAP | the same, `NextRefines` |
| `SoftApProofs!DoorInvariant` | what the threads agree on about the SoftAP | `DoorInv` |
| `SoftApProofs!ClientKeepsApHolds` | `ClientKeepsAp`, an action property | the same |
| `SoftApProofs!ApAgreementAnywhere` | `ApAgreement`, under `EventsKeepUp` | the same, `WatchInv` |
| `StationProofs!LinkInvariant` | what the threads and the driver agree on about the link unless `radio` is "rough" | `LinkInv`, `DoorInvariant` |
| `StationProofs!LinkIsUsedHolds` | `LinkIsUsed` | the same |
| `StationProofs!OperationalMeansReadyHolds` | `OperationalMeansReady` | the same, `ReadyInv` |
| `ConfigStoreProofs!StoreTypeCorrect` | `StoreTypeOK` | `LockInv` |
| `ConfigStoreProofs!RamMirrorsNvsHolds` | `RamMirrorsNvs`, as long as the flash takes every write | `PrefixInv`, `MirrorInv` |
| `ConfigStoreProofs!ProvisionedHasCredentialsHolds` | `ProvisionedHasCredentials` | `FlagInv` |
| `ConfigStoreProofs!HoldToResetHolds` | `HoldToReset`, where sw0 is not active low | `HoldInv` |
| `HttpServerProofs!HttpTypeCorrect`, `…!WholeRequestHolds`, `…!RefusedTooLargeHolds` | `HttpTypeOK`, `WholeRequest`, `RefusedTooLarge` | `BacklogInv`, `ClientInv`, `ReceivedInv`, `RefusedInv` |
| `PeripheralProofs!FreshUntilSetUpHolds` | `FreshUntilSetUp` | `SetUpInv` |
| `PeripheralProofs!FreshUnlessCutOffHolds` | `FreshUnlessCutOff` | `SampleInv` |
| `DevicesProofs!OnePollHolds` | `OnePoll` | `PollInv` |
| `DevicesProofs!OneConnectHolds` | `OneConnect` | `TaskTypeOK`, `ButtonInv` |
| `PeripheralProofs!ShownIsMeasuredHolds` | `ShownIsMeasured` | `DecimalIsExact`, `PercentIsRoundedDown` |
| `PeripheralProofs!LedShowsModeHolds` | `LedShowsMode` | `LedInv` |
| `PeripheralProofs!ActuatorsTypeCorrect`, `…!NoShootThroughHolds`, `…!ReportedIsDrivenHolds` | `ActuatorsTypeOK`, `NoShootThrough`, `ReportedIsDriven` | `ActuatorInvariant` |
| `PeripheralProofs!ReportedWasDrivenHolds` | `ReportedWasDriven`, an action property | the same |
| `DevicesProofs!ComponentsImplemented` | `DevicesSpec` implements `Spec` of Vl6180x, `ActuatorsSpec`, `SensorsSpec`, `AppSpec`, `LedSpec` | `TaskTypeOK`, `LedColours` |
| `DevicesProofs!PromisesHoldTogether` | the safety properties of these five, in the composition | `ComponentsImplemented` and the theorems above |
| `DevicesProofs!LabelIsDrivenHolds` | `LabelIsDriven` | `PinInv`, `LinkInv` |

*Provision.*  `AttemptBudget` is not inductive: sta_connect may be scheduled by three
threads, and whether an attempt is left is known to each of them for a different reason.  `AtRest`
says that nothing runs before main starts the policy, and `BudgetInv` bounds the counter by what is
scheduled.  `RetryInv` ties `sta_retry_pending` to its work item through the three points at
which the API thread has cancelled the one and not yet cleared the other.  The lemmas on the link layer
say what the policy needs to know of it: types, and what each request leaves alone.

*Provision with its clients on the SoftAP.*  `ClientsOnSoftAp` says that requests come over the
SoftAP and that a tick passes at most one event by, as in the run Setup.  With clients on the STA network
`ProvisioningModeHasAp` is false, which is what the run NoApAfterPost shows, and so is `BudgetSuffices` (section 5);
TLC also finds counterexamples to `AttemptSupervised`, `RetryScheduled`, `ResultIsFresh` and
`ConnectingMeansTrying` for such clients.  `CredentialsProven` and `ApAgreement` are checked for these clients by Answers.
`DelayOrder` is what the proofs need of the delays in the code: the sleep of a POST and the stop of the SoftAP
(300 ms each) are shorter than the retry delay (500 ms), that and the fallback delay (15 s) are shorter
than the reconnect delay (60 s), and none of them nor the margin of the semaphore is zero.
The argument: while the SoftAP is up and no POST is at its attempts, the station rests
(`StationInv`).  The ways to close the SoftAP or to start an attempt that this leaves out are where
the work is.  The fallback SoftAP may open while an attempt or a reconnect is still to come: `BootInv` says
that this happens only when the reconnect is due after it, and the fallback cancels it.  The delayed stop
of a request before is cancelled by the next (`ApInv`).  `TimeInv` counts the ticks that are left for the
attempts against the semaphore's timer: with it the semaphore is never late, and a result is never
given to nobody.  `RadioInv` says what is in the event queue: whatever a link of an earlier request left
there is gone before the sleep of the new one ends, so that a success is about its own credentials.
`SettledInv` and `ApViewInv` do the same for the mode and for the SoftAP's events.  None of these parts is
inductive alone, and `ServiceInv` is their conjunction with the invariants above.  For the refinement
each step of a thread is mapped to a step of the service or to none: requests and answers by the
point the API thread has reached, the rest by what it does to the SoftAP and the radio (`DoorStep`).

*The SoftAP, for clients on any network.*  With clients on the STA network the station need not rest while
the SoftAP is up, so `ServiceInv` says nothing.  `DoorInv` is what remains.  `AttemptDoor`: an attempt
is scheduled or under way and never both, which keeps a success from being that of somebody
else.  `RestDoor`: with the SoftAP up and no POST at its attempts, what is scheduled finds no credentials
and an attempt under way is one that was withdrawn, so that nothing can succeed and close the
SoftAP; this takes `RequestDoor` for the posted configuration that is still pending, `BareDoor` for a device
without credentials, and `BootDoor` for the fallback.  `OpenDoor`: a stop is scheduled only between requests.
Then `ClientKeepsAp` needs no hypothesis at all.  `ApAgreement` does: when the event of a start is still
queued as the SoftAP is stopped, the two threads end up with different views.  The only stop without a
request behind it is the delayed one after a success, and `WonDoor` counts that no round of
failed attempts, whose end would open the SoftAP again, fits into its delay: by `DelayOrder` not even one retry
delay does.  The hypothesis `EventsKeepUp`, `MaxLag = 0`, says that the event thread handles what is
queued before the clock goes on.  The address of the SoftAP and its DHCP server may fail without harm: a start that fails
leaves the SoftAP and the views of it alone, and `ap_dhcp_running` is only ever set with `ap_active` and
cleared by the stop.

*The station, for clients on any network.*  `RadioLink` says of a link what is still to be done about it: while the driver
joins nothing of an earlier link is left, and when it is up, either its event or its address is
queued, or DHCP is asked, or the callback has run.  That is kept by everything that happens to the radio itself,
but an attempt begins only when the driver is idle, and that is a matter of timers: `RestLink` says so of
every attempt that is scheduled, and `CalmLink` why it survives a request.  Between cancelling the work
items and disconnecting (`provision_module.c:479-486`) an event may schedule a retry or a reconnect while the link of
before is still there; the lemma `SettlesFirst`, the sleep of 300 ms being shorter than the delays of 500 ms and
60 s (`DelayOrder`), keeps these from coming due before the attempts of the request begin.  `DoorInv` is needed for the attempt that is
scheduled and the one that is under way.  All of that is kept until `radio` is "rough": a static address
that is refused leaves the driver linked with nobody to use it (`wifi_manager.c:224`), and an attempt that begins over a
late event is ended by it.  For the mode, `ClaimLink` says that what wifi_manager believes of a link is so, which a lost link breaks
until its event is handled; `ModeLink` lists when "operational" outlives its link: in a POST that has disconnected and
not begun its first attempt, and in a reset that found the SoftAP open; `PendLink` that such a POST
cannot have been answered.  A semaphore that times out would answer it.  Hence these hold while `radio` is "calm".
Neither theorem restricts `Faults`, nor where the clients are.

*ConfigStore.*  `LockInv` says who owns `config_lock` and that only the owner is in the middle
of a sequence of writes.  `PrefixInv` is the reason why the result is right: the keys before
`next` have been written and the others have not, in a save and in a reset.  `MirrorInv`
closes the cases in which nobody is writing.  `FlagInv` follows the provisioned flag through the three
ways it is set: with a copy that was read together with its SSID, by a POST that found its SSID saved, and by a
reboot that loads it; it needs that a posted SSID is not the empty default, which `StoreAssumption` states and
`provision_module.c:474` refuses.  `HoldInv` is a count: while the reset is scheduled the button
is down, and the time it has been down and the time left add up to the hold time.

*HttpServer.*  `BacklogInv` says that a connection is in one place, the backlog or the thread, and
that its client waits there; otherwise a client could leave, come back with another request, and be
answered for the old one.  `ReceivedInv` is what the receive loop knows when it returns, and the lemmas on
sizes say that `used` and the total wrap at `SizeMod` only where the property excepts them.

*Vl6180x.*  `SetUpInv` adds that the settings before `setting` have arrived while the sensor still
says that it is fresh.  `SampleInv` says what the sensor is doing at each point of the driver
as long as no call was cut off: at rest between calls, at work for this call within one.

The `IInv` of these proofs contains `Vl6180xTypeOK`, which no run repeats.

*DesktopApp.*  `AppSpec` lets the user, the timers, the workers and the network act in any order,
without the device: its `Next` allows more than `Devices` does.  `ButtonInv` says that the request of the
Connect button is with one worker or in one callback and never in both; without that the button could
be enabled by a second callback while a third request runs.  `TaskTypeOK` keeps results apart
from tasks.

*Sensors and the LED.*  `LedInv` says how far a call of `set_mode` that is alone has come, once everything
before it is over.  The theorem on the sensors is arithmetic: the sign of a value between -1 and 0
sits in its second part alone, and the division rounds towards zero.

*Actuators.*  The properties are about the end of a call or the moment between two of its writes, and the
invariant about what is still to be written.  `EndsAt(o, v)`: the last write to `o` that is left writes `v`, or
none is left and `o` carries `v` already or its last write failed.  `CallUnderWay` says that of every
output of the device that is called, `RestMatches` that every other device does what it reports.
`MotorPlan` describes the four writes of a turn of the motor from their end: the last two are in1 and in2,
of which one is off, and before them come at most a stop of both.

*Devices.*  The components are proved under their own specifications; `ComponentsImplemented` says that
`main`, the API thread and the resets drive each of them only as that specification allows, so that nothing is
lost when they are put together.  Three facts it needs are not a matter of shape: a request of the app that
sets a pin names a pin, a range driver on a bus without faults is one on a bus that may have some, and the strip
keeps a colour it can have over a reset.  `LabelIsDriven` is a property of the composition alone.  `PinInv` says
of each pin that only its own call comes between what it carries and what it reports, also after a failed
write.  `TakenInv` says that this call is that of the one request that is with the device, whether or not its worker
still waits.  `RowInv` follows the last request of a row that is not `muddled`: as long as its worker waits there is no callback; a worker
that has given up has left its error, in a callback or in the label, so that what the device still does
contradicts nothing; a result that is on its way is what the pin carries, for the pin changes only by another
request of the row, by another client or by a reset, and the last three muddle it.  `DevicesAssumption` says that the rows of the application are pins of the kit.

Only model-checked: everything about liveness (`RequestsAnswered`, `LossIsRetried`,
`ReconnectPersists`, `NeverGivesUp`, `ResetCompletes`, `ServedInTheEnd`, `CallReturns`,
`ConnectComesBack`), which is outside what the proof system does here.  Every safety property that a passing run
checks is also proved, in the generality of the table.

## 5. What the model shows besides

Seen while modelling, and recorded with the hazards rather than with a run of their own:

- The reconnect that is to go on "indefinitely" (`provision_module.c:446`) ends when the fallback
  SoftAP has opened (`:268`), and the fallback itself waits for an attempt that is under way
  (`:290`), so it does not open after 15 s.
- When the driver refuses the last attempt of a POST the mode stays "connecting" (`:205`), and so it does when the last
  attempt of a set times out and the SoftAP then fails to start (`:259-262`, `:129-137`).  `ConnectingMeansTrying` allows the first
  because the client has the SoftAP to come back to, and excepts a SoftAP whose start has failed.
- A reset while the SoftAP is open leaves the mode as it was (`:116`;
  `OperationalMeansReady` excepts it).
- The semaphore of a POST can time out before the last attempt, which "shouldn't happen with correctly set
  timeout_ms" (`provision_module.c:509`).  A link of a client on the STA network that is lost after the handler
  has cancelled the work items (`:484`) and before it disconnects (`:486`) schedules a reconnect in 60 s, which
  nothing cancels while the request waits; where it comes due between two attempts it zeroes
  `connect_attempt` (`:278`) and a new set of attempts begins.  TLC finds `BudgetSuffices` violated with
  `Faults = {"join_fail", "link_loss"}`, `ClientVia = {"sta"}`, `MaxLag = 0`, three attempts and the other constants
  of Answers, or any in which the budget is longer than the reconnect delay.  In the code it is, 157.5 s against 60 s.
- A disconnect event that is handled only after the next attempt has begun is taken for the failure of that
  attempt (`wifi_manager.c:254`), and the link that the driver then makes is not used
  (`LinkIsUsed` excepts it): a reconnect that is due on the tick of a timeout with an attempt left is one way there.
- A PUT that straddles a factory reset writes the erased configuration back before the reboot.
- A SoftAP that failed to start is not tried again; if it was started while the event of the last stop
  was still queued, `ap_active` stays set (`ApAgreement` excepts it).  A DHCP server that did not start is not tried
  again either, and clients of that SoftAP get no address.
- The labels of the relay and LED pages are not refreshed: after a reset of the device, or a request of another
  client, they go on saying what was (`LabelIsDriven` excepts both).
- A request that its client cuts short is handled like a whole one, and a Content-Length in lower
  case counts as none (`WholeRequest` excepts both by name).
- A failed read of the sensor's fresh flag skips its mandatory settings (`vl6180x_module.c:140`).
- Writes that stop the motor before a change of direction are not checked (`motor_module.c:73`): when one
  fails and the next succeed, both inputs of the bridge carry a duty (`NoShootThrough` excepts a motor
  with a failed write).  After a failed write a module goes on reporting the value before.
- `json_get_int` wraps (`api_module.c:353`): 2^32 + 50 is accepted as 50.
- Two threads that meet in `set_mode` can leave the LED with the colour of the mode before, and a
  transfer that fails is not repeated.  The LED is dark at boot and not blue (README.md:88): `set_mode`
  only acts on a change, and the mode starts as boot.
- `show_page` calls `on_hide` only for a page that is mapped (`desktop_app/main.py:79`): the provision
  page, left by a second click before Tk has mapped it, keeps its poll.
- While a POST /wifi blocks the device the poll of the same page times out and overwrites the message
  that the connection is being made (`desktop_app/pages/provision.py:138`).
- The buzzer's log says GPIO5, the overlay GPIO11.

## 6. Not modelled

- `provision_module_submit_wifi` with `sta_start_after_response_work`, and
  `config_module_save_wifi_credentials`: nothing calls them.
- The provisioned flag in Provision: it is in ConfigStore, which has all its writers.
- Client-joined and client-left events of the SoftAP: only logged.  The status of an `AP_ENABLE_RESULT`, only logged, too:
  an accepted start is taken to succeed.  Address events raised by a
  static configuration: the handler ignores them.
- Parsing and formatting of requests, responses and addresses; the routing table.
- The eight public settings of the VL6180X on which nothing in the model depends.
- `rgb_module_run_pattern`: its demo only runs when status mode is off, which nothing turns off.
- Init functions that fail because a driver is not ready.  For the servo (`servo_module.c:32`) this means that it reports
  90 degrees and nothing is driven.
- The identity beyond the default device id that `main` replaces.
- The texts of the desktop application, what its poll displays, the device address it sets, its
  factory reset button, and its motor, servo, buzzer and sensor pages, which have the shape of the
  relay page.
- The sensors' drivers: what they deliver is a parameter.  That outputs fall back to 0 when the chip is
  reset is an assumption on the hardware.
- Factory reset and policy together: the reset sleeps on the work queue for 300 ms
  (`reset_button_module.c:28`), in which the policy's items wait; ConfigStore has the reset and
  Provision the items.

## 7. Plan

Done, in this order: the link layer, the policy and its client, the store and the
button, the server, the range sensor; proofs of types, budget, retries, store and sensor; the abstract
service and its refinement; actuators, sensors, status LED and desktop application, composed in
`Devices`; proofs of the poll, the Connect button, the sensors' answers and the LED.

Then proofs of what the threads owe a client on the SoftAP, with the refinement; of the provisioned
flag and the button; of the server; of the actuators; and of `Devices`, from the click to the pin and back.

Last, the proofs for clients on either network: of the SoftAP, and of the station's link.

Next: factory reset and policy on one work queue, ConfigStore's reset composed with Provision's items.
