# Verification of the SOS terminal firmware

FirmwareSOS is the firmware of an emergency intercom on an ESP32-S3 (Korvo-2
v3 board): a button raises a SIP call over Ethernet, the chip sleeps when
nobody calls, and a web page and two command interfaces (HTTP and WebSocket)
configure it. This directory holds TLA+ models of its control logic, the TLC
runs that check them, and theorems about them proved with TLAPS.

Line numbers below refer to the files under `src/` at this commit. The
application is `src/src/`; `src/lib/` is a copy of Espressif's audio framework
(ESP-ADF), of which this firmware uses a part.

## 1. Inventory

| Component | State | Operations | Interacts with |
|---|---|---|---|
| **Call control** (`voip_app.c`, `sip_service.c`) | `ethernet_event_group` (CONNECTED, REGISTERED, REQUEST), `call_started`, `started`, `count_s`, `eco_mode`, `esp_sip`, `xHandleSleep` | boot and dialling loop (`app_main`), `call`, `suspend`, `resume`, `set_net`, `resume_timeout`, `light_sleep_task`, SIP events, link events | everything below, through globals and callbacks; no lock anywhere |
| **SIP stack** (`esp_rtc`, closed library) | registration, one dialog per instance | init, call, bye, deinit; events | calls `_esp_sip_event_handler` in its own task |
| **Web and command server** (`sos-server`, prebuilt Rust) | connections | callbacks `init_web`, `init_interface`, `init_interface_ws` | calls `call()`, the sleeper, flash, `esp_restart` |
| **Configuration** (NVS) | SIP account, network, volume, `eco_config` | `get_config`, writes in `SetSip`, `SetNetwork`, `SetVolume` | read at boot |
| **Ring buffer** (`ringbuf.c`) | pointers, `fill_cnt`, flags, two binary semaphores, a mutex | `rb_read`, `rb_write`, `rb_done_write`, `rb_abort`, `rb_unblock_reader`, `rb_reset` | joins the decoder task to the codec, and the audio elements to one another |
| **Audio stream** (`av_stream.c`) | encoder and decoder tasks, `STOPPED` bits, packet queue, buffers | start, stop, read, write | driven by the SIP event task |
| **Key input** (`button.c`, `periph_button.c`, `input_key_service.c`, `periph_service.c`) | button level, time stamps, event queue | 50 ms sampling, press / long press / release, dispatch | calls `call()` in the key service task |
| **Peripheral set** (`esp_peripherals.c`) | list of peripherals, command queue | init, start, stop, send event | carries the key events |
| **Audio events** (`audio_event_iface.c`) | queues and queue sets | send, listen, discard | elements and peripherals |
| **Audio element**, **audio pipeline** (`audio_element.c`, `audio_pipeline.c`) | state, event bits, command queue | run, pause, resume, stop, reset, link | tone player, ring buffers |
| **Tone player** | one pipeline | play a prompt | called by call control, result unused |

Which behaviours are hard:

* *Call control.* Eight tasks share plain globals. `call()` tests
  `call_started` and sets it later (lines 331, 334); SESSION_END clears it
  before it hands the link and the sleeper back (`sip_service.c` 83-88);
  `set_net` takes the Ethernet driver through stop, three ioctls and start,
  each inside `ESP_ERROR_CHECK`, which reboots on failure; the boot lets keys
  in before the sleeper exists and relies on the flag `started`; anything may
  restart the chip at any time. Correct means: the link is reconfigured by one
  task at a time and always comes back; nobody uses a handle that is not
  there; a request is counted once and never forgotten; every boot that passes
  its checks reaches service.
* *Ring buffer.* One reader and one writer wait for each other with binary
  semaphores that they test and take outside the mutex; three flags end a wait
  from a third task; a copy may cross the end of the buffer. Correct means:
  first in, first out, nothing lost or repeated; no lost wake-up; a control
  call always gets a sleeping reader out.
* *Audio element and pipeline.* The caller and each element's task share a
  structure of flags and event bits without a lock; commands go into a bounded
  queue without waiting, waits have limits that the caller ignores, and the
  end of it all frees the structure. Correct means: without a fault nothing
  freed is used, one task per element, a stop that is asked for is carried
  out, and every operation returns.
* *Audio stream.* SESSION_BEGIN and SESSION_END create and free, one by one,
  what two tasks and two callbacks of the RTC library use; the stop waits for
  bits without a limit, and every allocation may fail. Correct means: nobody
  uses what is not there, no frame is lost, SESSION_END comes to an end.
* *Key input.* Levels are sampled at edges and every 50 ms, both queues are
  bounded and sent to without waiting, and `call()` keeps the key service for
  seconds. Correct means: each press is told in order and once, and what a
  button rests at gets known.
* *Configuration.* Several keys are written one after another, unprotected
  against a reset.

`PROJECT.json` lists each hazard with its line, and the properties that
watch it.

## 2. Modules

| Module | What it is |
|---|---|
| `Terminal` | abstract specification of call control: service, requests raised and taken, one owner of the link, restart |
| `VoipApp` | call control in detail: `voip_app.c`, `sip_service.c` and their environment |
| `MCVoipApp` | `VoipApp` for TLC, with the symmetry of the SIP instances |
| `VoipApp_proofs` | `TypeCorrect` |
| `VoipAppInv_proofs` | `BootGateCorrect`, `SetNetExclusiveCorrect`, `OnlyStopAbortsCorrect`, `CountedOnceCorrect`, `DanglesBySecondStoreCorrect`, `AbortsExplainedCorrect` |
| `VoipAppRefinement_proofs` | `Refinement`: `VoipApp` implements `Terminal` |
| `ByteQueue` | abstract specification of the ring buffer: a bounded queue of bytes |
| `RingBuf` | `ringbuf.c` in detail |
| `RingBuf_proofs` | `TypeCorrect`, `ConsistentCorrect`, `NotBothAsleepCorrect`, `EndWhenDrainedCorrect`, `QueueImplemented`, `WakeUpComesCorrect` |
| `AudioElement` | the elements of a chain: `audio_element_task`, its handlers, its command queue |
| `AudioPipeline` | the pipeline's operations and the element functions they call, over `AudioElement` |
| `MCAudioPipeline` | the chains and the callers of the runs |
| `AudioPipeline_proofs` | `PipelineTypeCorrect`, `OneTaskCorrect`, `StopUnderWayCorrect`, `NoUseAfterFreeCorrect`, `NoDestroyedRingCorrect` |
| `AudioPipelineWaits_proofs` | `IdleSleepsCorrect`, `StoppedWhenWaitedCorrect`, `AnswerComesCorrect` |
| `AvStream` | the audio of a call: `av_stream.c`, its two tasks and two callbacks |
| `AvStream_proofs` | `AvTypeCorrect`, `CallbacksSafe`, `FramesAccounted`, `TasksSafe`, `StopAnsweredCorrect` |
| `KeyInput` | from the GPIO to `call()`: interrupt, timer, peripheral task, key service |
| `MCKeyInput` | how often each button is pressed |
| `KeyInput_proofs` | `KeyTypeCorrect`, `PressesToldCorrect`, `HeardInOrderCorrect` |

The operators named `Mut...` are slips one could
make in the operator that follows (a dropped guard, a missing reset). Nothing
uses them; put in that operator's place each one breaks a property, which
shows that the property depends on that piece of code.

### 2.1 VoipApp

`pc[t]` is where task `t` is. One action is one access to shared state; the
code between two accesses (tones, delays, logs) only lets other tasks in, and
a wait with a timeout may end at any moment.

| Task | Code | Actions |
|---|---|---|
| `Main` | `app_main` | `Boot`, `BootAborts`, `BootReturns`, `WaitLink`, `CreateSleeper`, `SetNet`, `MainResume`, `StartServing`, `TakeRequest`, `TryCall`, `CheckRegistered`, `Dial`, `GiveUp`, `DropCall`, `NoAnswerRestart` |
| `Sleeper` | `light_sleep_task` | `LightSleep`, `WokenByGpio` |
| `KeyTasks` | `input_key_service_cb` and `call()` | `PressKey`, `CallStep` |
| `RemoteTasks` | `init_interface`, `init_interface_ws` | `CallCommand`, `RebootCommand`, `EndCallCommand`, `CallStep` |
| `WsTasks` | `SetSip`, `SetNetwork` | `SetSip`, `SetSipStop`, `SetSipStart`, `StartStep`, `SetNetwork`, `CommitNetwork` |
| `WebTimers` | `init_web`, `resume_timeout` | `InitWeb`, `TimeoutCheck`, `TimeoutResume` |
| `Stacks` | `_esp_sip_event_handler`, once per `esp_rtc` instance | `SipEvent`, `EndStep` |
| `Loop` | `eth_event_handler`, `got_ip_event_handler` | `LinkUp`, `LinkDown`, `GotIp`, `StartStep` |

`set_net` is one family of actions that takes the calling task as a
parameter, since three kinds of tasks run it: `EthStop`, `AutonegOff`,
`SetSpeed`, `AutonegOn`, `EthStart`. Each is a driver call with the driver's
own precondition (stop only when started, the rest only when stopped); if it
does not hold, `ESP_ERROR_CHECK` aborts and the model restarts with the cause
recorded. `xHandleSleep` being null is modelled by what the kernel does with
it: `vTaskSuspend(NULL)` suspends the caller, `vTaskResume(NULL)` asserts. A
restart loses every variable but `nvs_eco`.

The boot may fail a check (`BootAborts`: flash, network interface, event loop,
driver) or return without an audio stream (`BootReturns`), after which nothing
more is started. The wait for the link ends after 20 seconds at the latest
(`WaitLink`); the wait for the PLAY pin in `example_register_gpio_wakeup` has no
limit, so `CreateSleeper`, the step that ends it, is under no fairness.

`esp_sip` is written twice for each new instance: by `sip_service_start`
(sip_service.c:154), which returns it, and by its caller (voip_app.c:207 and
790). `RtcInit`, `StoreHandle`, `ReturnHandle` and `StoreAgain` are these steps,
for the event loop and for SetSip alike, and `held` is the handle such a task
has in hand; the value returned may be the one stored or what another task
has stored since, as the compiler may do either. SetSip reads `esp_sip`
(`SetSip`), stops that instance (`SetSipStop`) and makes a new one. Instances
are told apart, not addresses: an instance is never confused with a later one
at the same address. A call of `esp_rtc` on a freed instance is undefined in the
code; the closed library makes nothing of it or panics (`PanicOn`).

Environment, modelled from how the code uses it: an `esp_rtc` instance
reports its next event only when the handler of the last has returned, and an
instance replaced by GOT_IP without being stopped lives on (as the code leaves
it); `esp_rtc_deinit` waits for the handler of the instance it frees; the
Ethernet driver reports changes of the link, and each connected one leads to a
GOT_IP; `esp_rtc` may or may not answer incoming calls by itself (`AutoAnswer`),
as the application never answers one.

### 2.2 RingBuf

The reader is inside `rb_read` at `rpc`, the writer inside `rb_write` at
`wpc`, the controlling task between setting a flag and giving a semaphore at
`cpc`. Taking the mutex, copying and releasing it is one action (`ReadSome`,
`WriteSome`), as nobody else touches what the copy touches; when there is
nothing to copy, each flag read is a step, with the mutex held, and giving the
other side's semaphore and waiting for one's own come after the mutex is
released, as in the code. Bytes are numbered as they are written, which tells
any loss, repetition or exchange apart. `rb_reset` takes no mutex and is
called as the pipeline does, when both sides are out of their calls.

### 2.3 AudioElement and AudioPipeline

A handler of the element's task writes the fields of `struct audio_element`
one after another, and the caller looks at them in between. So a handler is
the sequence of its writes (`OnStop`, `OnPause`, `OnResume`, `OnFinish`,
`OnError`, `OnExit`, ...), put into `todo[e]` when the command is taken, and
`Write(e)` does one of them per step. `pc[e]` is where `audio_element_task` is:

| `pc[e]` | Code | Leaves by |
|---|---|---|
| `begin`, `init` | task start, allocation of the buffer | `Begin`, `Allocate` |
| `wait`, `blocked` | `audio_event_iface_waiting_cmd_msg` with no wait, or for ever | `Wait`, `Command` |
| `open`, `reopen` | the element's `open`, from a command or from the INIT state | `Open` |
| `process`, `busy` | `audio_element_process_running`, the element's `process` | `Process`, `Busy`, `Fail` |
| `exit` | after the loop, up to `vTaskDelete` | `Exit` |

A pipeline operation fills `agenda` with the element calls it makes, in order
of `el_list`; the caller takes them one by one, `at` being the step within the
first (`ElementRun`, `ElementResume`, `ElementPause`, `ElementStop`,
`ElementWait`, `ElementReset`, `ElementTerminate`, `ElementFree`), and
`Between` does what the operation itself does between them. `Follows` says
which operation the caller may call after which. The ring buffers of the chain
are reduced to a count and the flags done and abort (`RingBuf` has the rest).
Every wait of two seconds may expire, every command may meet a full queue and
every allocation may fail; `fault` remembers it.

### 2.4 AvStream

`pc` has five actors: the event task inside SESSION_BEGIN or SESSION_END
(`sip`), the tasks `_audio_enc` and `_audio_dec`, and the callbacks
`av_audio_enc_read` (`tx`) and `av_audio_dec_write` (`rx`). Each step is named
for what it creates, tests, waits for or frees: `EncPipeline` ... `DecTask` are
`av_audio_enc_start` and `av_audio_dec_start`, `StopEnc` ... `FreeRing` the two
stops. `Needs` maps a step to the handle it dereferences; `Stray` is the step
that finds its handle null (the device reboots) or freed (`wild`). Every
`Create` may fail, and the code goes on as it does: queues and event groups
unchecked, buffers by an early return.

One fact about code outside `src/` is a parameter, so that it shows what rests
on it. `RtpQuiet`: the closed RTC library runs neither callback while it signals
SESSION_END. Without it TLC finds `CallbacksUseLive` violated:
`av_audio_dec_write` tests `adec_run` once and goes on with buffers that
`av_audio_dec_stop` frees.

`FreePipeline` waits for the pipeline's own tasks only, as the code does: line
394 destroys the pipeline before line 398 waits for `_audio_enc`, which may
still be inside `raw_stream_read` (`EncCaught`). That use after free is
reachable, and `TasksUseLive` says that it is the only one.

### 2.5 KeyInput

| Task | Code | Actions |
|---|---|---|
| interrupt, timer | `audio_event_iface_cmd_from_isr` | `Edge`, `Tick` (both `CmdFromIsr`) |
| peripheral task | `esp_periph_task`, `_button_run`, `button_read` | `ButtonInit`, `ReadButtons`, `SendEvent` |
| `app_main` | key registration, `example_register_gpio_wakeup` | `SetCallback`, `RegisterGpioWakeup`, `WaitGpioInactive` |
| key service | `input_key_service_task`, `input_key_service_cb` | `Receive`, `Ignore`, `Callback`, `CallReturns` |
| time | | `Grow`: `long_press_time` has passed since the press |

`ReadButtons` computes the four masks of `button_result_t`. `button_read` samples
the pins one after another; as each button has its own state and mask bits, one
instant for all gives the same results. `SendEvent` sends one event per set bit, in the
order of `_button_run`, and a full queue drops it (`missed`). `Edge` has
bounces, and presses too short for any sample. The number of the press an
event carries is added by the model: the code does not keep it, and the
properties need it to say what became of each press.

## 3. Runs

| Run | Instance | Checks | Shows |
|---|---|---|---|
| `economy` | modes Disabled and Enabled, button, one WebSocket task, page timer, one SIP instance | `TypeOK`, `BootGate`, `OnlyStopAborts`, `CountedOnce`, `ImplementsTerminal` | two callers, a session that ends and SetNetwork changing the mode: only `esp_eth_stop` can fail in `set_net`, nobody meets a null sleeper handle, no request is counted twice |
| `stacks` | every mode, two SIP instances, one WebSocket task, sessions from before the sleeper exists on | `SetNetExclusive`, `DanglesBySecondStore`, `AbortsExplained` | the driver is taken by one task at a time, boot, SESSION_END and SetNetwork included; `esp_sip` comes to dangle by the second store alone; each failed check of `set_net` and of `vTaskResume` has its one explanation |
| `live` | every mode, button, an `esp_rtc` that does not answer by itself, fair | `BootCompletes`, `LinkComesBack`, `RequestServed`, `CallCompletes` | a restart whose checks pass and whose wait for PLAY ends reaches service, link or no link, and what is begun is finished |
| `button` | mode Enabled, button only | `StopSucceeds` (violated) | finding 1 |
| `ringbuf` | 2 bytes, words of 2, requests up to 3, 3 bytes in all, fair | `TypeOK`, `Consistent`, `NotBothAsleep`, `WakeUpComes`, `ImplementsQueue`, `ReaderSeesData`, `WriterSeesRoom`, `ControlFreesReader`, `EndWhenDrained` | the buffer is a queue through wrap-arounds, time-outs, aborts and resets; no wake-up is lost; the end is reported only with less than a word left |
| `rb_count` | 3 bytes | `CountReported` (violated) | finding 2 |
| `pl_once` | algorithm (task) -> raw (no task); run, stop, wait, destroy, or destroy while it runs; faults; fair | `TypeOK`, `NoUseAfterFree`, `NoDestroyedRing`, `IdleSleeps`, `StoppedWhenWaited`, `OperationsReturn` | av_stream's use of a pipeline: up to the first fault nothing freed is used, a stopped task sleeps, and operations return, fault or not |
| `pl_player` | the same chain; a caller that pauses, resumes, stops, resets, terminates, runs again; queue of 2 | `OneTask`, `StopUnderWay`, `AnswerComes` | never two tasks for an element, never the mark of a stop nobody carries out, never a wait for a bit that nobody will set |
| `pl_again` | a second run after a stop | `StoppedWhenWaited` (violated) | finding 3 |
| `av_stream` | two sessions, every allocation may fail, fair | `TypeOK`, `CallbacksUseLive`, `TasksUseLive`, `FramesOwned`, `StopAnswered`, `SessionEnds` | given `RtpQuiet`: callbacks are safe even after failed starts; if nothing failed, only the pipeline is used after it was freed, by its reader; up to that no frame leaks, SESSION_END waits for nobody who is not coming, and ends |
| `keys` | PLAY, three presses, queues of 2, fair | `TypeOK`, `PressesTold`, `HeardInOrder`, `LevelHeard` | presses are told from end to end, in order, through queues that overflow |
| `keys_late` | two buttons, one press each | `LongReleaseAfterLongPress` (violated) | finding 4 |

**Bounds.** `MaxRequests` bounds the calls of one boot: two let a second press
meet the end of the first call, and with `RestartAfter` = 1 reach the restart
of SESSION_END. The code's
limit is 3; the constant is a parameter and the theorems cover every value.
`MaxIpEvents` = 1 lets one GOT_IP wait while the others run; as the link may
go down and up again after it is handled, several GOT_IPs still follow each
other. The questions are split over two runs to keep them small: `economy` has
the callers and makes its instance by SetSip alone (`MaxIpEvents` = 0), `stacks`
has the GOT_IPs, the early sessions and all modes, and no callers
(`MaxRequests` = 0); its sessions are incoming ones that `esp_rtc` answers.
Two instances are enough for one to be stopped while another is stored, and a
third instance would be stored by the same two tasks. Two callers are enough for every race on `call_started`, as the
theorems, which hold for any number, confirm. For the ring buffer the
requests are longer than the buffer, so that reads and writes go in pieces and
block; words of two leave a remainder; and 3 bytes in a buffer of 2 move both
pointers past the end.

Deadlock is not checked in the runs of `VoipApp`, where `app_main` may return
(and the boot may be the last thing that happens), in `pl_player`, which stops
at the first fault, and in `av_stream`, `keys` and `keys_late`, where sessions and
presses run out and a reboot ends the run.

The pipeline of a call has one element with a task, and so has the chain
checked; `RingCap` = 1 makes every ring full or empty at once. The caller
of `pl_once` makes at most one operation after another as av_stream does, so
the queue of five never fills; `pl_player` has a queue of two, which a STOP
that nobody waits for and the command after it fill. `CONSTRAINT NoFault` there cuts the search at the first
fault, where its three properties promise nothing more. In `av_stream` the second
session starts on what the first left behind, failed or not, and a third
starts on nothing new, since every handle is null, live or freed. In `keys`
three presses and queues of two let a press be refused before, between and
after others; `keys_late` has two buttons, whose events share the queue.

**Fairness.** `VoipApp`: weak fairness of each task that is inside a handler,
inside `call()` or in `app_main` -- the FreeRTOS scheduler runs every ready
task, none of them spins, and all waits in them have timeouts, except the wait
for a request and that for the PLAY pin, which are not assumed to end. The
steps of the boot that take more than the task (`BootStep`) have no fairness:
`LinkComesBack` and `BootCompletes` name what they need as hypotheses, `BootsPass`
(the device does not go on failing its boot for ever) and `PlayInactive` (the
wait for the pin ends each time). Nothing is assumed of buttons, commands, link,
remote side or web page. `RingBuf`: weak fairness of a task
inside a call, and strong fairness for getting the mutex, which FreeRTOS hands
to the longest-waiting task of the highest priority; timeouts and further
calls are not counted on, so wake-ups come from the other side's semaphore
alone. `AudioPipeline`: weak fairness of the caller inside an operation and of
each task that is ready, which includes the return of `open` and `process`
when the rings allow it; failures are not counted on. `AvStream`: weak fairness
of the event task inside an event and of the two tasks; microphone, network
and callbacks need not do anything. `KeyInput`: weak fairness of the tasks, the
timer and time; nobody has to press a button, and `call()` returns
(`CallCompletes` of `VoipApp`).

## 4. Proofs

All theorems hold for every number of tasks and SIP instances, every set of
economic modes and every bound (assumptions `TasksAssumption` and
`ParametersAssumption`: the task sets are disjoint, the parameters have their
types), and for every buffer size, word size and request length
(`SizesAssumption`), every number of sessions, and every set of buttons, queue
length and number of presses (`ButtonsAssumption`, `QueueLenAssumption`,
`MaxPressesAssumption`), and for every chain of elements, every choice of those
that have a task, every queue length and ring capacity and every caller
(`ChainAssumption`).

* **VoipApp.** `TypeCorrect` is the basis: a step of a task changes only its
  own label, so each label stays of the task's own kind. `BootGate` is
  inductive with it: `started` is set by `Main` alone, after the sleeper is
  created, and only a restart takes either away. `SetNetExclusive` is
  inductive in the form that ties the driver to the tasks: *at most one task
  is past `esp_eth_stop`, the driver is stopped exactly while one is, and that
  task left auto-negotiation as its next call needs it*. The second conjunct
  is the strengthening without which the first does not survive a step: a
  task gets past `esp_eth_stop` only when the driver is started, so, by it,
  only when nobody else is past it. `OnlyStopAborts` follows step by step.
  `CountedOnce` charges the raised bit to the request that raised it, unless
  `app_main` is already trying. `DanglesBySecondStore` is about a step;
  `HandleInv` says what the first store needs: *an instance about to be stored
  for the first time is live, not yet named by `esp_sip`, and in nobody else's
  hand*, so no SetSip can be about to free it, while the second store has
  nothing of the kind. `AbortsExplained` rests on `QuietInv`: outside mode
  Enabled nobody but `Main` is in `set_net`, unless SetNetwork has just changed
  the mode; with `SetNetExclusive`, `Main` then never finds the driver stopped,
  and with `BootGate` a resume that meets no sleeper is that of a session.
  `Refinement` maps the owner of the link to the task past
  `esp_eth_stop` and the requests taken to `count_s`; it rests on
  `SetNetExclusive` (the owner is unique), `CountedOnce` (a taken request was
  raised) and `BootGate` (callers own it only in service).
* **RingBuf.** `ReadSizeBound`, `WriteSizeBound`, `AdvanceRange` and
  `SlotRange` bound what a copy moves. `Consistent` is inductive with
  `TypeOK`: *p_r + fill_cnt is p_w or p_w + SIZE, and the i-th slot from p_r
  holds byte number next - fill_cnt + i*. The lemma `OffsetOfSlot` is the heart
  of the write step: a slot of the data is never among those the write covers,
  and a free one gets the number that continues the run. `NotBothAsleep` is
  inductive by itself: whoever falls asleep last has given the other's
  semaphore, which only the other takes, waking up. `QueueImplemented` follows
  from `Consistent`: the contents are a run of consecutive numbers, and
  putting, getting and clearing are joining and splitting such runs
  (`NumbersJoin`, `NumbersSplit`). `EndWhenDrained` needs to know what the
  reader found when it decided that there was nothing: `FlagsUnderLock` says
  that while the reader holds the mutex at its tests, less than a word is left.
  `WakeUpComes` is what the three liveness properties of the run rest on. It
  becomes inductive when it is asked not only of who sleeps but of who has
  passed the test: `DataAgenda` and `RoomAgenda` from the release of the mutex,
  since what the other side copies after that makes it owe the semaphore
  (`FlagsUnderLock` and `FullUnderLock` for what was found before); `FlagAgenda`
  and `AbortAgenda` for each flag from the step after its test, since who sets
  it gives the semaphore next.
* **AudioPipeline.** `Shapes` types every variable, the writes a handler still
  has to do and the calls on the agenda among them. The other four properties
  hold up to the first fault. None is inductive: whether a task is gone when
  its element is freed depends on what the caller has seen of its bits and
  flags. `LifeInv` therefore ties each task's life to the caller's step, in
  named parts: a task that has not said it runs is waited for by
  `audio_element_run` (`Starts`); in its loop it runs and no handler says
  otherwise (`Works`); on its way out, and from the DESTROY that sends it there,
  `audio_element_terminate` waits for it (`Leaves`, `Destroys`), and DESTROYED is
  its last write; where the caller has seen `task_run` and goes on, it still
  holds (`Trusts`); `stopping` has its STOP (`Stops`). `OneTask` and
  `StopUnderWay` follow. `EndInv` adds the order of the calls left: every task
  is gone, or terminated earlier on the agenda, before its element is freed and
  before a ring is unlinked, and nothing is run once something is freed or about
  to be. `NoUseAfterFree` and `NoDestroyedRing` are two of its parts.
* **AudioPipeline, its waits.** Three more properties are about what a handler
  still has to write. The lemmas before them say of each handler which writes it
  has and in which order (`Halts`, `OnPauseHas`, `OnResumeHas`, `OpenedHas`,
  `ExitHas`), and `Moves`, `Touches`, `Sends` and `Stays` reduce every step of a
  task and of the caller to what it does to one element. `OpensInv` (only a
  running element is opened) and `CallsBelong` (the calls left belong to the
  operation called last) hold always.
  - `AnswerComes`, for every caller, up to the first fault: *the answer the
    caller waits for is the command it sent, the write of the handler that took
    it, or the bit itself*. Its invariant `AnswersInv` needs two more parts. The
    waits for STOPPED rest on `Halting`: a running task is in its loop, and a
    handler that clears `is_running` has STOPPED to set afterwards, except for
    that of PAUSE, which sets PAUSED instead; so a caller that waits for a stop
    may not meet a PAUSE under way. Hence `Pausing`: there is at most one, it is
    the last command or the last write, and its caller is still in
    `audio_element_pause`. That the task is alive comes from `LifeInv`.
  - `IdleSleeps`, for every caller that never pauses (`NeverPauses`), faults
    included: `IdleInv` says that no element is paused, that a task which does
    not run its element has a wait without limit or is about to write one, and
    that `wait_time` goes back to zero only while it runs and is not about to
    stop. The hypothesis is needed: `audio_element_stop` of a paused element
    zeroes the wait of a task that does not run.
  - `StoppedWhenWaited`, for every caller that runs the pipeline once and neither
    resumes nor resets it (`RunsOnce`; it may pause and stop it), faults
    included. `AgendaParts` says that the calls of `audio_pipeline_run` are left
    only while the pipeline was not started, and that `waited` ends the calls of
    `audio_pipeline_wait_for_stop`. `Progress` says what is known of an element
    before it is run (`Fresh`), before it is resumed (`Unstarted`) and as long as
    its task is there (`Honest`: STOPPED is set of no element that runs, and only
    `audio_element_resume` makes one run), and that one that was waited for no
    longer runs. The hypothesis is needed: `pl_again` (finding 3) shows that
    after a second run it is false.

  Both hypotheses are about the caller alone, and `Follows` of `pl_once` (what
  `av_stream` does, and a caller in more of a hurry) satisfies them.
* **AvStream.** `IInv` says over which stretch of SESSION_BEGIN and SESSION_END
  each handle is live and each actor may be at work (`EncTaskLife`,
  `CallbackLife`), and who holds a frame at which step (`Hands`, which gives
  `FramesOwned`). It holds through failed allocations. `WInv` adds that as long as
  nothing failed every handle but the pipeline's is live over the whole stretch
  that uses it (`Whole`), which gives `TasksUseLive`.
  `StopAnswered`, the safety part of `SessionEnds`, is `WInv` with `Heard`: from
  the start to the wait for it a task is there or has set its bit, and the ring
  buffer is aborted before the pipeline is freed. All five theorems assume
  `RtpQuiet`.
* **KeyInput.** `PressesTold` is inductive with `Well`: no event is about a press
  to come, and `longPressed` remembers LONG_PRESSED exactly while the press
  lasts. `HeardInOrder` follows from `OrderInv`, which orders a button's events
  along their way: heard before `msg` before the queue, in its order, before
  the masks.

**Only model-checked:** the liveness properties (TLAPS has no backend for
fairness here): `BootCompletes`, `LinkComesBack`, `RequestServed`,
`CallCompletes`, `ReaderSeesData`, `WriterSeesRoom`, `ControlFreesReader`,
`OperationsReturn`, `SessionEnds` and `LevelHeard`. Every invariant and every
action property of the passing runs is a theorem. The findings are shown by TLC's
counterexamples.

## 5. Findings

1. **A press at the end of a call reboots the device** (`button`). SESSION_END
   sets `call_started = false` before `resume()` reconfigures the link. In
   mode Enabled a press in between gets through `call()` and runs `set_net`
   while the handler runs it: the second `esp_eth_stop` fails, and
   `ESP_ERROR_CHECK` (voip_app.c:305) reboots. `SetNetExclusive` and
   `OnlyStopAborts` say that this is all that can go wrong there: the two
   never mix their later driver calls, because the loser never gets that far.
2. **An aborted read hides its bytes** (`rb_count`). `rb_read` returns
   `RB_ABORT` after part of the request was copied; its documentation says it
   returns the number of bytes read.
3. **The second stop of a pipeline does not wait** (`pl_again`). STOPPED_BIT is
   cleared when `open` of the next run has returned (audio_element.c:286), so
   until then `audio_pipeline_wait_for_stop` sees the bit of the stop before,
   and returns with a task inside `open`. The firmware runs each pipeline once.
4. **A release just after the long-press time starts no call** (`keys_late`).
   `button_get_state` measures the press again at the release: LONG_RELEASE is
   reported for a press whose LONG_PRESSED, the event that starts `call()`,
   never was.

Reachable in the model too, but contradicted by no document, hence neither
findings nor properties:

* `resume_timeout` tests `call_started` and resumes the sleeper a step later:
  a press in between leaves the chip free to sleep during the call. The same
  happens when SESSION_END resumes after a new call has suspended.
* A call that is rejected ends with HANGUP or ERROR, which clear neither
  REQUEST nor `call_started`; `app_main` dials again until somebody answers.
* Each GOT_IP replaces `esp_sip` without stopping the old instance, which goes
  on reporting events into the same bits.
* `esp_sip` may name a freed instance: GOT_IP stores A (sip_service.c:154), SetSip
  stops A and starts B, and GOT_IP stores A again (voip_app.c:207). The next dial,
  EndCall or SetSip uses it.
* SESSION_END destroys the pipeline under `_audio_enc`, when that has not left
  `raw_stream_read` by then (av_stream.c:394, 398).
* After a failed start SESSION_END waits on the event group it deleted the time
  before (av_stream.c:539), or destroys a ring buffer that was never aborted
  under its reader (av_stream.c:359, 394).
* A session that ends before the sleeper exists fails an assertion of
  `vTaskResume` and reboots the device.
* INCOMING before the sleeper exists suspends the SIP event task for good.
* `audio_element_deinit` ignores that a wait of two seconds expired or that
  the queue refused DESTROY, and frees the element under its task.
* `audio_element_stop` of a paused element sets the task's wait to zero, and the
  task polls the queue until the STOP arrives (audio_element.c:1243).
* `call()` starts with LONG_PRESSED: INPUT_KEY_SERVICE_ACTION_PRESS is 3, the
  number of that event, so a press has to last two seconds.
* A pin that reads 0 from power-up on is a press, and reported LONG_PRESSED.
  `example_register_gpio_wakeup` takes PLAY's edge interrupt away, so from then
  on only the timer samples it; `_button_init` ignores that the timer could
  not be started.
* The same function waits without a limit until PLAY reads 0 (`PlayInactive` is the
  hypothesis that it does), which the button driver takes for pressed; its comment calls the wake-up active low and its
  message announces a wait for high (gpio_wakeup.c:24, 31). Which level is
  idle depends on the wiring, which the repository does not show.

## 6. What is not modelled

* Inside call control: volume, the commands that only answer, tones, log. The
  event bits DISCONNECTED, UNREGISTERED and INIT_CALL are set and never tested.
* What the closed library does with a freed handle cannot be read from the
  repository: the model has no effect or a panic (`PanicOn`), and no corruption of
  a later instance at the same address.
* `rb_destroy`, failed allocations in `rb_create`, more than one reader or
  writer (the firmware has none), a reset inside a call.
* Of the elements: getters and setters, seek, `wait_for_buffer`, multi-input
  rings, and what a second task beside a living one would do (`OneTask`). Of
  the pipeline: `register`, `link`, `relink`, `breakup` (once, before it runs)
  and listeners (none is set). A command that a full queue or an expired wait
  loses is modelled; the promises about memory end there.
* Of the stream: video, USB audio and the software echo reference, none of
  which the firmware enables; the contents of frames.
* Of the key input: stopping and destroying the service and the peripherals
  (no caller); touch, which reads no pad on the ESP32-S3; time, but for the
  one fact whether the press has become a long one.
* Queue sets and listeners of `audio_event_iface.c`: nobody sets any.
* The NVS keys other than `eco_config`: SetSip and SetNetwork write several in
  a row, and a reset in between leaves a mix of old and new. Nothing in the
  repository promises otherwise, so there is no property to check.
* Board, codec and I2C drivers, audio elements' data processing, SAL
  wrappers: register writes, closed codecs and thin wrappers without a
  protocol of their own. ESP-ADF components this firmware never calls,
  `ethernet.c` (not in the build) and build output. These are most of the
  lines under `src/lib`: the program's own control logic is small, and the
  modules above have most of it.

## 7. Plan

1. The composition of `KeyInput` and `AvStream` with `VoipApp`: a hold of PLAY
   to `call()`, SESSION_BEGIN and SESSION_END to the stream.
2. `PipelineLink`: `link`, `relink` and `breakup` with the ring buffers they
   create and free, when the firmware comes to use them more than once.
3. `ConfigStore`: the NVS writes of SetSip and SetNetwork with a reset between
   any two, when there is a promise to check.

## 8. Running

    tlc -workers 2 -config MCVoipApp_economy.cfg MCVoipApp.tla
    tlapm VoipAppRefinement_proofs.tla

and likewise for the others; each run takes from seconds to about three minutes.
`AudioPipeline_proofs` and `AudioPipelineWaits_proofs`, the longest of the
proofs, take several minutes each.
