------------------------------ MODULE VoipApp ------------------------------
(***************************************************************************)
(* The call-control core of the SOS terminal: src/src/voip_app.c and       *)
(* src/src/sip_service.c.  The tasks that run this code are                *)
(*                                                                         *)
(*   Main         app_main: boot, then the loop that dials                 *)
(*   Sleeper      light_sleep_task, whose handle is xHandleSleep           *)
(*   KeyTasks     the input-key service, input_key_service_cb              *)
(*   RemoteTasks  init_interface (HTTP) and init_interface_ws (WebSocket)  *)
(*   WsTasks      those of RemoteTasks that also accept SetSip, SetNetwork *)
(*   WebTimers    the resume_timeout tasks that init_web spawns            *)
(*   Stacks       the event task of each esp_rtc instance                  *)
(*   Loop         the event-loop task: link and IP events                  *)
(*                                                                         *)
(* They share the globals of voip_app.c without a lock.  One action is one access to  *)
(* shared state; what happens between two accesses (tones, vTaskDelay,     *)
(* logging) only lets other tasks in.  A wait with a timeout may end at    *)
(* any moment.  The bits DISCONNECTED, UNREGISTERED and INIT_CALL are left *)
(* out: they are never tested.                                             *)
(*                                                                         *)
(* The operators Mut... are plausible slips in the operator that follows   *)
(* them.  Nothing uses them: put in its place, each breaks a property.     *)
(***************************************************************************)
EXTENDS Naturals, FiniteSets

CONSTANTS
    Main, Sleeper, KeyTasks, RemoteTasks, WsTasks, WebTimers, Stacks, Loop,
    NULL,          \* the null esp_rtc handle
    EcoModes,      \* the values eco_mode may be configured to
    AutoAnswer,    \* whether esp_rtc may answer an incoming call by itself
    RestartAfter,  \* count_s above which SESSION_END restarts (3 in the code)
    MaxRequests,   \* bound: calls made between two boots
    MaxIpEvents    \* bound: IP_EVENT_ETH_GOT_IP events waiting in the loop

Callers  == KeyTasks \cup RemoteTasks
Starters == WsTasks \cup {Loop}     \* those that call sip_service_start
Tasks    == {Main, Sleeper, Loop} \cup Callers \cup WebTimers \cup Stacks

ASSUME TasksAssumption ==
    /\ Main # Sleeper /\ Main # Loop /\ Sleeper # Loop
    /\ {Main, Sleeper, Loop} \cap (Callers \cup WebTimers \cup Stacks) = {}
    /\ Callers \cap (WebTimers \cup Stacks) = {}
    /\ WebTimers \cap Stacks = {}
    /\ KeyTasks \cap RemoteTasks = {}
    /\ WsTasks \subseteq RemoteTasks
    /\ NULL \notin Tasks

ASSUME ParametersAssumption ==
    /\ EcoModes \subseteq {"Disabled", "Enabled", "Ultra"}
    /\ AutoAnswer \in BOOLEAN
    /\ RestartAfter \in Nat
    /\ MaxRequests \in Nat
    /\ MaxIpEvents \in Nat

VARIABLES
    pc,            \* where each task is
    bits,          \* ethernet_event_group
    call_started, started, count_s, eco_mode, esp_sip,    \* globals
    nvs_eco,       \* "eco_config" in flash
    sleeper,       \* scheduler state of the task of xHandleSleep
    held,          \* the esp_rtc handle a starter has in hand, NULL for none
    eth, autoneg,  \* the Ethernet driver: fsm and auto-negotiation flag
    ipPending,     \* GOT_IP events waiting in the event loop
    dialog,        \* what each esp_rtc instance is doing
    raised,        \* history: requests raised by call() since the boot
    cause          \* history: why the device is restarting

sipVars == <<esp_sip, held>>
appVars == <<bits, call_started, started, count_s, eco_mode, sipVars>>
ethVars == <<eth, autoneg, ipPending>>
vars == <<pc, appVars, nvs_eco, sleeper, ethVars, dialog, raised, cause>>

PastStop     == {"nego_off", "speed", "nego_on", "start"}
SetNetLabels == {"stop"} \cup PastStop
StartLabels  == {"sip_store", "sip_return", "sip_again"}
SetSipLabels == {"sip_stop", "sip_init"} \cup StartLabels
MainLabels   == {"reset", "returned", "wait_link", "wait_gpio", "resume",
                 "started", "wait_req", "trying", "reg", "dial", "giveup",
                 "drop", "no_answer"} \cup SetNetLabels
CallerLabels == {"idle", "check", "claim", "clear_reg", "suspend", "request",
                 "commit", "frozen"} \cup SetNetLabels \cup SetSipLabels
LoopLabels   == {"idle"} \cup StartLabels
StackLabels  == {"idle", "ended", "count", "resume", "frozen"} \cup SetNetLabels
TimerLabels  == {"idle", "delay", "resume", "frozen"}
SleepLabels  == {"top", "woke"}

Causes == {"none", "command", "no_answer", "count", "abort_boot", "abort_stop",
           "abort_setup", "abort_resume", "freed_handle"}

Labels == MainLabels \cup CallerLabels \cup StackLabels \cup TimerLabels
              \cup SleepLabels \cup LoopLabels

(* Each kind of task is at a label of its own code.                        *)
PcTyped ==
    /\ pc \in [Tasks -> Labels]
    /\ pc[Main] \in MainLabels
    /\ pc[Sleeper] \in SleepLabels
    /\ pc[Loop] \in LoopLabels
    /\ \A c \in Callers   : pc[c] \in CallerLabels
    /\ \A s \in Stacks    : pc[s] \in StackLabels
    /\ \A w \in WebTimers : pc[w] \in TimerLabels

(* Every task is at a label of its own and every variable has its type.    *)
TypeOK ==
    /\ PcTyped
    /\ bits \subseteq {"CONNECTED", "REGISTERED", "REQUEST"}
    /\ call_started \in BOOLEAN
    /\ started \in BOOLEAN
    /\ count_s \in Nat
    /\ eco_mode \in EcoModes
    /\ nvs_eco \in EcoModes
    /\ esp_sip \in Stacks \cup {NULL}
    /\ held \in [Starters -> Stacks \cup {NULL}]
    /\ sleeper \in {"none", "ready", "suspended"}
    /\ eth \in {"off", "started", "stopped"}
    /\ autoneg \in BOOLEAN
    /\ ipPending \in 0..MaxIpEvents
    /\ dialog \in [Stacks -> {"none", "idle", "calling", "incoming", "session"}]
    /\ raised \in Nat
    /\ cause \in Causes

-----------------------------------------------------------------------------
(* Boot and restart.                                                       *)

PowerOn(first) == [t \in Tasks |-> IF t = Main THEN first
                                   ELSE IF t = Sleeper THEN "top" ELSE "idle"]
NoDialog == [s \in Stacks |-> "none"]
NoHandle == [t \in Starters |-> NULL]

(* Power on: app_main has yet to run.                                      *)
Init ==
    /\ pc = PowerOn("reset")
    /\ bits = {}
    /\ call_started = FALSE
    /\ started = FALSE
    /\ count_s = 0
    /\ nvs_eco \in EcoModes
    /\ eco_mode = nvs_eco
    /\ esp_sip = NULL
    /\ held = NoHandle
    /\ sleeper = "none"
    /\ eth = "off"
    /\ autoneg = TRUE
    /\ ipPending = 0
    /\ dialog = NoDialog
    /\ raised = 0
    /\ cause = "none"

(* esp_restart, or the panic of a failed ESP_ERROR_CHECK: RAM is lost, and *)
(* what the flash holds (flash) is what the next boot reads.               *)
RestartWith(why, flash) ==
    /\ pc' = PowerOn("reset")
    /\ bits' = {}
    /\ call_started' = FALSE
    /\ started' = FALSE
    /\ count_s' = 0
    /\ nvs_eco' = flash
    /\ eco_mode' = flash
    /\ esp_sip' = NULL
    /\ held' = NoHandle
    /\ sleeper' = "none"
    /\ eth' = "off"
    /\ autoneg' = TRUE
    /\ ipPending' = 0
    /\ dialog' = NoDialog
    /\ raised' = 0
    /\ cause' = why

Restart(why) == RestartWith(why, nvs_eco)

(* A call of esp_rtc on an instance that has been freed is undefined: it   *)
(* has no effect, or it panics.                                            *)
Live(s) == dialog[s] # "none"

PanicOn(handle) == handle # NULL /\ ~Live(handle) /\ Restart("freed_handle")

Goto(t, label) == pc' = [pc EXCEPT ![t] = label]

(* app_main up to the end of init_network, which starts the driver.        *)
Boot ==
    /\ pc[Main] = "reset"
    /\ Goto(Main, "wait_link")
    /\ eth' = "started"
    /\ cause' = "none"
    /\ UNCHANGED <<appVars, nvs_eco, sleeper, autoneg, ipPending, dialog, raised>>

(* The flash (init_nvs), the network interface, the event loop or the      *)
(* driver fails a check of the boot, and the device restarts.              *)
BootAborts ==
    /\ pc[Main] = "reset"
    /\ Restart("abort_boot")

(* Without an av_stream app_main returns: nothing more is started.         *)
BootReturns ==
    /\ pc[Main] = "reset"
    /\ Goto(Main, "returned")
    /\ UNCHANGED <<appVars, nvs_eco, sleeper, ethVars, dialog, raised, cause>>

(* From init_network on.                                                   *)
Running == pc[Main] \notin {"reset", "returned"}

(* The web server and both command interfaces run: app_main is in its loop.*)
Serving == pc[Main] \in {"wait_req", "trying", "reg", "dial", "giveup", "drop",
                         "no_answer"}

-----------------------------------------------------------------------------
(* vTaskSuspend and vTaskResume of xHandleSleep.  Before light_sleep_task  *)
(* exists the handle is NULL: suspending it suspends the calling task,     *)
(* resuming it fails an assertion of the kernel.                           *)

SuspendSleeper(t, next) ==
    IF sleeper = "none"
    THEN Goto(t, "frozen") /\ UNCHANGED sleeper
    ELSE Goto(t, next) /\ sleeper' = "suspended"

ResumeSleeper(t, next) ==
    \/ /\ sleeper = "none"
       /\ Restart("abort_resume")
    \/ /\ sleeper # "none"
       /\ sleeper' = "ready"
       /\ Goto(t, next)
       /\ UNCHANGED <<appVars, nvs_eco, ethVars, dialog, raised, cause>>

(* light_sleep_task: esp_light_sleep_start halts the chip and returns, and *)
(* a wake-up by the button (GPIO) has the task suspend itself.             *)
LightSleep ==
    /\ sleeper = "ready"
    /\ pc[Sleeper] = "top"
    /\ Goto(Sleeper, "woke")
    /\ UNCHANGED <<appVars, nvs_eco, sleeper, ethVars, dialog, raised, cause>>

WokenByGpio ==
    /\ sleeper = "ready"
    /\ pc[Sleeper] = "woke"
    /\ Goto(Sleeper, "top")
    /\ sleeper' = "suspended"
    /\ UNCHANGED <<appVars, nvs_eco, ethVars, dialog, raised, cause>>

-----------------------------------------------------------------------------
(* set_net.  Each driver call is inside ESP_ERROR_CHECK, which aborts (the *)
(* panic handler restarts the chip) when the call fails.  The driver stops *)
(* only when started, and changes settings or starts only when stopped.    *)

(* Callers go to 100M through suspend(), everybody else to 10M.            *)
Wants100M(t) == t \in Callers

(* What follows set_net in the task: vTaskSuspend or vTaskResume.          *)
MutAfterSetNet(t) == "suspend"

AfterSetNet(t) == IF t \in Callers THEN "suspend" ELSE "resume"

InSetNet(t) == pc[t] \in PastStop

(* One driver call of set_net: ok is the driver's condition, change its    *)
(* effect.                                                                 *)
DriverCall(t, at, next, ok, failure, change) ==
    /\ pc[t] = at
    /\ \/ /\ ok
          /\ change
          /\ Goto(t, next)
          /\ UNCHANGED <<appVars, nvs_eco, sleeper, ipPending, dialog, raised,
                         cause>>
       \/ /\ ~ok
          /\ Restart(failure)

EthStop(t) ==
    DriverCall(t, "stop", "nego_off", eth = "started", "abort_stop",
               eth' = "stopped" /\ UNCHANGED autoneg)

MutAutonegOff(t) ==
    DriverCall(t, "nego_off", "speed", eth = "stopped", "abort_setup",
               UNCHANGED <<eth, autoneg>>)

AutonegOff(t) ==
    DriverCall(t, "nego_off", "speed", eth = "stopped", "abort_setup",
               autoneg' = FALSE /\ UNCHANGED eth)

SetSpeed(t) ==
    DriverCall(t, "speed", IF Wants100M(t) THEN "nego_on" ELSE "start",
               eth = "stopped" /\ ~autoneg, "abort_setup",
               UNCHANGED <<eth, autoneg>>)

AutonegOn(t) ==
    DriverCall(t, "nego_on", "start", eth = "stopped", "abort_setup",
               autoneg' = TRUE /\ UNCHANGED eth)

MutEthStart(t) ==
    DriverCall(t, "start", AfterSetNet(t), eth = "stopped", "abort_setup",
               UNCHANGED <<eth, autoneg>>)

EthStart(t) ==
    DriverCall(t, "start", AfterSetNet(t), eth = "stopped", "abort_setup",
               eth' = "started" /\ UNCHANGED autoneg)

SetNet(t) ==
    EthStop(t) \/ AutonegOff(t) \/ SetSpeed(t) \/ AutonegOn(t) \/ EthStart(t)

-----------------------------------------------------------------------------
(* app_main.                                                               *)

MutWaitLink ==
    /\ pc[Main] = "wait_link"
    /\ "CONNECTED" \in bits
    /\ Goto(Main, "wait_gpio")
    /\ UNCHANGED <<appVars, nvs_eco, sleeper, ethVars, dialog, raised, cause>>

(* The wait for the link gives up after 20 s, and nobody looks at how it   *)
(* ended.                                                                  *)
WaitLink ==
    /\ pc[Main] = "wait_link"
    /\ Goto(Main, "wait_gpio")
    /\ UNCHANGED <<appVars, nvs_eco, sleeper, ethVars, dialog, raised, cause>>

(* example_register_gpio_wakeup has waited, without a limit, for the PLAY  *)
(* pin to become inactive; then the sleeper is created.                    *)
CreateSleeper ==
    /\ pc[Main] = "wait_gpio"
    /\ sleeper' = "ready"
    /\ Goto(Main, IF eco_mode = "Disabled" THEN "resume" ELSE "stop")
    /\ UNCHANGED <<appVars, nvs_eco, ethVars, dialog, raised, cause>>

MainResume ==
    /\ pc[Main] = "resume"
    /\ ResumeSleeper(Main, "started")

(* started = true, then the web server and the two interfaces.             *)
StartServing ==
    /\ pc[Main] = "started"
    /\ started' = TRUE
    /\ Goto(Main, "wait_req")
    /\ UNCHANGED <<bits, call_started, count_s, eco_mode, sipVars, nvs_eco,
                   sleeper, ethVars, dialog, raised, cause>>

MutTakeRequest ==
    /\ pc[Main] = "wait_req"
    /\ count_s' = count_s + 1
    /\ Goto(Main, "trying")
    /\ UNCHANGED <<bits, call_started, started, eco_mode, sipVars, nvs_eco,
                   sleeper, ethVars, dialog, raised, cause>>

TakeRequest ==
    /\ pc[Main] = "wait_req"
    /\ "REQUEST" \in bits
    /\ count_s' = count_s + 1
    /\ Goto(Main, "trying")
    /\ UNCHANGED <<bits, call_started, started, eco_mode, sipVars, nvs_eco,
                   sleeper, ethVars, dialog, raised, cause>>

MutTryCall ==
    /\ pc[Main] = "trying"
    /\ count_s' = count_s + 1
    /\ Goto(Main, IF "REQUEST" \in bits THEN "reg" ELSE "wait_req")
    /\ UNCHANGED <<bits, call_started, started, eco_mode, sipVars, nvs_eco,
                   sleeper, ethVars, dialog, raised, cause>>

(* The condition of the dialling loop.                                     *)
TryCall ==
    /\ pc[Main] = "trying"
    /\ Goto(Main, IF "REQUEST" \in bits THEN "reg" ELSE "wait_req")
    /\ UNCHANGED <<appVars, nvs_eco, sleeper, ethVars, dialog, raised, cause>>

MutCheckRegistered ==
    /\ pc[Main] = "reg"
    /\ Goto(Main, IF "REGISTERED" \in bits THEN "dial" ELSE "trying")
    /\ UNCHANGED <<appVars, nvs_eco, sleeper, ethVars, dialog, raised, cause>>

(* The wait for REGISTERED may time out; only the bits read after it count.*)
CheckRegistered ==
    /\ pc[Main] = "reg"
    /\ Goto(Main, IF "REGISTERED" \in bits THEN "dial" ELSE "giveup")
    /\ UNCHANGED <<appVars, nvs_eco, sleeper, ethVars, dialog, raised, cause>>

(* esp_rtc_call on the current handle: a null handle, or an instance that  *)
(* is not idle, refuses, and nobody looks at the result.                   *)
Dial ==
    /\ pc[Main] = "dial"
    /\ \/ /\ Goto(Main, "trying")
          /\ dialog' = [s \in Stacks |-> IF s = esp_sip /\ dialog[s] = "idle"
                                         THEN "calling" ELSE dialog[s]]
          /\ UNCHANGED <<appVars, nvs_eco, sleeper, ethVars, raised, cause>>
       \/ PanicOn(esp_sip)

GiveUp ==
    /\ pc[Main] = "giveup"
    /\ bits' = bits \ {"REQUEST"}
    /\ Goto(Main, "drop")
    /\ UNCHANGED <<call_started, started, count_s, eco_mode, sipVars, nvs_eco,
                   sleeper, ethVars, dialog, raised, cause>>

DropCall ==
    /\ pc[Main] = "drop"
    /\ call_started' = FALSE
    /\ Goto(Main, "no_answer")
    /\ UNCHANGED <<bits, started, count_s, eco_mode, sipVars, nvs_eco, sleeper,
                   ethVars, dialog, raised, cause>>

NoAnswerRestart ==
    /\ pc[Main] = "no_answer"
    /\ Restart("no_answer")

(* What takes more than the task itself: the boot's checks, and the pin.   *)
BootStep == Boot \/ BootAborts \/ BootReturns \/ CreateSleeper

MainStep ==
    \/ WaitLink \/ SetNet(Main) \/ MainResume \/ StartServing \/ TakeRequest
    \/ TryCall \/ CheckRegistered \/ Dial
    \/ GiveUp \/ DropCall \/ NoAnswerRestart

-----------------------------------------------------------------------------
(* The callers: call(), reached by the button or by the Call command.      *)

InCall(c) == pc[c] \in {"check", "claim", "clear_reg", "suspend", "request"}
                        \cup SetNetLabels

(* Bound: no more than MaxRequests calls per boot.                         *)
MayCall ==
    raised + Cardinality({c \in Callers : InCall(c)}) < MaxRequests

MutPressKey(c) ==
    /\ pc[c] = "idle"
    /\ Running
    /\ MayCall
    /\ Goto(c, "check")
    /\ UNCHANGED <<appVars, nvs_eco, sleeper, ethVars, dialog, raised, cause>>

PressKey(c) ==
    /\ pc[c] = "idle"
    /\ started
    /\ MayCall
    /\ Goto(c, "check")
    /\ UNCHANGED <<appVars, nvs_eco, sleeper, ethVars, dialog, raised, cause>>

CallCommand(c) ==
    /\ pc[c] = "idle"
    /\ Serving
    /\ MayCall
    /\ SuspendSleeper(c, "check")
    /\ UNCHANGED <<appVars, nvs_eco, ethVars, dialog, raised, cause>>

CheckCallStarted(c) ==
    /\ pc[c] = "check"
    /\ Goto(c, IF call_started THEN "idle" ELSE "claim")
    /\ UNCHANGED <<appVars, nvs_eco, sleeper, ethVars, dialog, raised, cause>>

ClaimCall(c) ==
    /\ pc[c] = "claim"
    /\ call_started' = TRUE
    /\ Goto(c, "clear_reg")
    /\ UNCHANGED <<bits, started, count_s, eco_mode, sipVars, nvs_eco, sleeper,
                   ethVars, dialog, raised, cause>>

(* REGISTERED is cleared, then suspend() looks at eco_mode.                *)
ClearRegistered(c) ==
    /\ pc[c] = "clear_reg"
    /\ bits' = bits \ {"REGISTERED"}
    /\ Goto(c, IF eco_mode = "Enabled" THEN "stop" ELSE "suspend")
    /\ UNCHANGED <<call_started, started, count_s, eco_mode, sipVars, nvs_eco,
                   sleeper, ethVars, dialog, raised, cause>>

SuspendInCall(c) ==
    /\ pc[c] = "suspend"
    /\ SuspendSleeper(c, "request")
    /\ UNCHANGED <<appVars, nvs_eco, ethVars, dialog, raised, cause>>

RaiseRequest(c) ==
    /\ pc[c] = "request"
    /\ bits' = bits \cup {"REQUEST"}
    /\ raised' = raised + 1
    /\ Goto(c, "idle")
    /\ UNCHANGED <<call_started, started, count_s, eco_mode, sipVars, nvs_eco,
                   sleeper, ethVars, dialog, cause>>

CallStep(c) ==
    \/ CheckCallStarted(c) \/ ClaimCall(c) \/ ClearRegistered(c)
    \/ SetNet(c) \/ SuspendInCall(c) \/ RaiseRequest(c)

-----------------------------------------------------------------------------
(* sip_service.c.  _esp_sip_event_handler runs in the event task of the    *)
(* instance, so an instance reports its next event only when the handler   *)
(* of the last one has returned (pc "idle").                               *)

(* sip_service_start and what its callers do with the result.  An instance *)
(* is new: none that a variable still names, even after it was freed (the  *)
(* model tells instances apart, not addresses).  The library may also fail *)
(* to make one.  Whatever instance esp_sip named is not touched.           *)
Unnamed == {s \in Stacks : ~Live(s) /\ s # esp_sip /\ \A t \in Starters : held[t] # s}

RtcInit(t) ==
    /\ \E new \in Unnamed \cup {NULL} :
          /\ held' = [held EXCEPT ![t] = new]
          /\ dialog' = [s \in Stacks |-> IF s = new THEN "idle" ELSE dialog[s]]
    /\ Goto(t, "sip_store")
    /\ UNCHANGED <<bits, call_started, started, count_s, eco_mode, esp_sip, nvs_eco,
                   sleeper, eth, autoneg, raised, cause>>

StoreHandle(t) ==
    /\ pc[t] = "sip_store"
    /\ esp_sip' = held[t]
    /\ Goto(t, "sip_return")
    /\ UNCHANGED <<bits, call_started, started, count_s, eco_mode, held, nvs_eco,
                   sleeper, ethVars, dialog, raised, cause>>

(* return esp_sip: the build may keep the value in a register or read the  *)
(* global again, which another task may have written in between.           *)
ReturnHandle(t) ==
    /\ pc[t] = "sip_return"
    /\ \E handle \in {held[t], esp_sip} : held' = [held EXCEPT ![t] = handle]
    /\ Goto(t, "sip_again")
    /\ UNCHANGED <<bits, call_started, started, count_s, eco_mode, esp_sip, nvs_eco,
                   sleeper, ethVars, dialog, raised, cause>>

(* The caller assigns the result to esp_sip, a second time.                *)
StoreAgain(t) ==
    /\ pc[t] = "sip_again"
    /\ esp_sip' = held[t]
    /\ held' = [held EXCEPT ![t] = NULL]
    /\ Goto(t, "idle")
    /\ UNCHANGED <<bits, call_started, started, count_s, eco_mode, nvs_eco,
                   sleeper, ethVars, dialog, raised, cause>>

StartStep(t) == StoreHandle(t) \/ ReturnHandle(t) \/ StoreAgain(t)

SipRegistered(s) ==
    /\ Live(s)
    /\ pc[s] = "idle"
    /\ bits' = bits \cup {"REGISTERED"}
    /\ UNCHANGED <<pc, call_started, started, count_s, eco_mode, sipVars,
                   nvs_eco, sleeper, ethVars, dialog, raised, cause>>

SipUnregistered(s) ==
    /\ Live(s)
    /\ pc[s] = "idle"
    /\ bits' = bits \ {"REGISTERED"}
    /\ UNCHANGED <<pc, call_started, started, count_s, eco_mode, sipVars,
                   nvs_eco, sleeper, ethVars, dialog, raised, cause>>

Incoming(s) ==
    /\ dialog[s] = "idle"
    /\ pc[s] = "idle"
    /\ dialog' = [dialog EXCEPT ![s] = "incoming"]
    /\ SuspendSleeper(s, "idle")
    /\ UNCHANGED <<appVars, nvs_eco, ethVars, raised, cause>>

(* The remote answers, or esp_rtc answers an incoming call by itself: the  *)
(* application never calls esp_rtc_answer.                                 *)
SessionBegin(s) ==
    /\ pc[s] = "idle"
    /\ \/ dialog[s] = "calling"
       \/ dialog[s] = "incoming" /\ AutoAnswer
    /\ dialog' = [dialog EXCEPT ![s] = "session"]
    /\ bits' = bits \ {"REQUEST"}
    /\ UNCHANGED <<pc, call_started, started, count_s, eco_mode, sipVars,
                   nvs_eco, sleeper, ethVars, raised, cause>>

(* The dialog is over.  A session ends with SESSION_END, whose handler has *)
(* work to do; a call not yet answered ends with HANGUP or ERROR, which    *)
(* change nothing.                                                         *)
EndDialog(s) ==
    /\ pc[s] = "idle"
    /\ dialog[s] \in {"calling", "incoming", "session"}
    /\ dialog' = [dialog EXCEPT ![s] = "idle"]
    /\ pc' = [pc EXCEPT ![s] = IF dialog[s] = "session" THEN "ended" ELSE @]
    /\ UNCHANGED <<appVars, nvs_eco, sleeper, ethVars, raised, cause>>

(* SESSION_END: tone and 1.7 s, then three unprotected accesses.           *)
ReleaseCall(s) ==
    /\ pc[s] = "ended"
    /\ call_started' = FALSE
    /\ Goto(s, "count")
    /\ UNCHANGED <<bits, started, count_s, eco_mode, sipVars, nvs_eco, sleeper,
                   ethVars, dialog, raised, cause>>

MutCheckCount(s) ==
    /\ pc[s] = "count"
    /\ \/ /\ count_s > RestartAfter
          /\ Restart("count")
       \/ /\ count_s <= RestartAfter
          /\ Goto(s, IF eco_mode # "Disabled" THEN "stop" ELSE "resume")
          /\ UNCHANGED <<appVars, nvs_eco, sleeper, ethVars, dialog, raised,
                         cause>>

CheckCount(s) ==
    /\ pc[s] = "count"
    /\ \/ /\ count_s > RestartAfter
          /\ Restart("count")
       \/ /\ count_s <= RestartAfter
          /\ Goto(s, IF eco_mode = "Enabled" THEN "stop" ELSE "resume")
          /\ UNCHANGED <<appVars, nvs_eco, sleeper, ethVars, dialog, raised,
                         cause>>

ResumeAfterSession(s) ==
    /\ pc[s] = "resume"
    /\ ResumeSleeper(s, "idle")

EndStep(s) ==
    ReleaseCall(s) \/ CheckCount(s) \/ SetNet(s) \/ ResumeAfterSession(s)

SipEvent(s) ==
    SipRegistered(s) \/ SipUnregistered(s) \/ Incoming(s) \/ SessionBegin(s)
        \/ EndDialog(s)

-----------------------------------------------------------------------------
(* The event-loop task: eth_event_handler and got_ip_event_handler.  The   *)
(* driver reports changes of the link only, so connected and disconnected  *)
(* alternate; each connected has the IP layer report GOT_IP.  One task runs*)
(* all three handlers, one after another.                                  *)

LinkUp ==
    /\ Running
    /\ pc[Loop] = "idle"
    /\ "CONNECTED" \notin bits
    /\ ipPending < MaxIpEvents
    /\ bits' = bits \cup {"CONNECTED"}
    /\ ipPending' = ipPending + 1
    /\ UNCHANGED <<pc, call_started, started, count_s, eco_mode, sipVars,
                   nvs_eco, sleeper, eth, autoneg, dialog, raised, cause>>

LinkDown ==
    /\ "CONNECTED" \in bits
    /\ pc[Loop] = "idle"
    /\ bits' = bits \ {"CONNECTED", "REGISTERED"}
    /\ UNCHANGED <<pc, call_started, started, count_s, eco_mode, sipVars,
                   nvs_eco, sleeper, ethVars, dialog, raised, cause>>

GotIp ==
    /\ ipPending > 0
    /\ pc[Loop] = "idle"
    /\ ipPending' = ipPending - 1
    /\ RtcInit(Loop)

-----------------------------------------------------------------------------
(* The other commands of init_interface and init_interface_ws that touch   *)
(* call control, and init_web with the task it spawns.                     *)

RebootCommand(c) ==
    /\ pc[c] = "idle"
    /\ Serving
    /\ Restart("command")

(* EndCall: esp_rtc_bye on the current handle.                             *)
EndCallCommand(c) ==
    /\ pc[c] = "idle"
    /\ Serving
    /\ esp_sip # NULL
    /\ EndDialog(esp_sip) \/ PanicOn(esp_sip)

(* SetSip reads esp_sip, stops that instance (esp_rtc_deinit joins its     *)
(* event task) and goes on as GotIp does.                                  *)
SetSip(c) ==
    /\ pc[c] = "idle"
    /\ Serving
    /\ held' = [held EXCEPT ![c] = esp_sip]
    /\ Goto(c, "sip_stop")
    /\ UNCHANGED <<bits, call_started, started, count_s, eco_mode, esp_sip, nvs_eco,
                   sleeper, ethVars, dialog, raised, cause>>

MutSetSipStop(c) ==
    /\ pc[c] = "sip_stop"
    /\ held[c] # NULL => pc[held[c]] = "idle"
    /\ dialog' = [s \in Stacks |-> IF s = held[c] THEN "none" ELSE dialog[s]]
    /\ held' = [held EXCEPT ![c] = NULL]
    /\ Goto(c, "idle")
    /\ UNCHANGED <<bits, call_started, started, count_s, eco_mode, esp_sip, nvs_eco,
                   sleeper, ethVars, raised, cause>>

SetSipStop(c) ==
    /\ pc[c] = "sip_stop"
    /\ held[c] # NULL => pc[held[c]] = "idle"
    /\ \/ /\ dialog' = [s \in Stacks |-> IF s = held[c] THEN "none" ELSE dialog[s]]
          /\ held' = [held EXCEPT ![c] = NULL]
          /\ Goto(c, "sip_init")
          /\ UNCHANGED <<bits, call_started, started, count_s, eco_mode, esp_sip,
                         nvs_eco, sleeper, ethVars, raised, cause>>
       \/ PanicOn(held[c])

SetSipStart(c) ==
    /\ pc[c] = "sip_init"
    /\ RtcInit(c)
    /\ UNCHANGED ipPending

(* SetNetwork changes eco_mode in RAM at once, while other tasks read it.  *)
SetNetwork(c) ==
    /\ pc[c] = "idle"
    /\ Serving
    /\ eco_mode' \in EcoModes
    /\ Goto(c, "commit")
    /\ UNCHANGED <<bits, call_started, started, count_s, sipVars, nvs_eco,
                   sleeper, ethVars, dialog, raised, cause>>

(* The writes to flash may fail, which is only logged, then esp_restart.   *)
CommitNetwork(c) ==
    /\ pc[c] = "commit"
    /\ \E flash \in {eco_mode, nvs_eco} : RestartWith("command", flash)

InitWeb(w) ==
    /\ pc[w] = "idle"
    /\ Serving
    /\ SuspendSleeper(w, "delay")
    /\ UNCHANGED <<appVars, nvs_eco, ethVars, dialog, raised, cause>>

(* resume_timeout tests call_started, and resumes in a second step.        *)
TimeoutCheck(w) ==
    /\ pc[w] = "delay"
    /\ Goto(w, IF call_started THEN "idle" ELSE "resume")
    /\ UNCHANGED <<appVars, nvs_eco, sleeper, ethVars, dialog, raised, cause>>

TimeoutResume(w) ==
    /\ pc[w] = "resume"
    /\ ResumeSleeper(w, "idle")

RemoteStep(c) == CallCommand(c) \/ RebootCommand(c) \/ EndCallCommand(c)
WsStep(c)     == \/ SetSip(c) \/ SetSipStop(c) \/ SetSipStart(c)
                 \/ SetNetwork(c) \/ CommitNetwork(c)
WebStep(w)    == InitWeb(w) \/ TimeoutCheck(w) \/ TimeoutResume(w)

-----------------------------------------------------------------------------
Next ==
    \/ BootStep \/ MainStep
    \/ LightSleep \/ WokenByGpio
    \/ LinkUp \/ LinkDown \/ GotIp
    \/ \E c \in KeyTasks    : PressKey(c)
    \/ \E c \in Callers     : CallStep(c)
    \/ \E c \in RemoteTasks : RemoteStep(c)
    \/ \E c \in WsTasks     : WsStep(c)
    \/ \E t \in Starters    : StartStep(t)
    \/ \E w \in WebTimers   : WebStep(w)
    \/ \E s \in Stacks      : SipEvent(s) \/ EndStep(s)

Spec == Init /\ [][Next]_vars

(* The kernel runs every ready task, so a task that is inside a handler,   *)
(* inside call() or in app_main finishes what it began.  Nothing is assumed*)
(* of the boot's checks, the PLAY pin, the button, the network, the link,  *)
(* the remote side or the commands.                                        *)
Fairness ==
    /\ WF_vars(MainStep)
    /\ \A c \in Callers : WF_vars(CallStep(c))
    /\ \A s \in Stacks  : WF_vars(EndStep(s))

FairSpec == Spec /\ Fairness

-----------------------------------------------------------------------------
(* Properties.                                                             *)

(* The flag started opens the gate exactly when app_main is in its loop,   *)
(* and by then driver and sleeper exist; whoever is inside call() or       *)
(* init_web got through the gate, so none of them finds a null xHandleSleep*)
(* (suspending it would stop the button or the command task for good).     *)
BootGate ==
    /\ started <=> Serving
    /\ eth = "off" <=> ~Running
    /\ Running /\ pc[Main] \notin {"wait_link", "wait_gpio"} => sleeper # "none"
    /\ \A t \in Callers \cup WebTimers :
          pc[t] # "idle" => started /\ pc[t] # "frozen"

(* Reconfiguring the link: tasks enter set_net without a lock, yet at most *)
(* one is ever past esp_eth_stop, and the driver is stopped exactly while  *)
(* one is, with auto-negotiation on only where that task has left it so.   *)
SetNetExclusive ==
    /\ \A t, u \in Tasks : InSetNet(t) /\ InSetNet(u) => t = u
    /\ (eth = "stopped") <=> (\E t \in Tasks : InSetNet(t))
    /\ \A t \in Tasks :
          /\ (pc[t] = "speed" \/ (pc[t] = "start" /\ ~Wants100M(t))) => ~autoneg
          /\ pc[t] = "nego_on" => Wants100M(t)

(* Of the checked driver calls in set_net only esp_eth_stop can ever fail: *)
(* once past it, no other task can make the later ones abort half way.     *)
OnlyStopAborts == cause # "abort_setup"

(* Outside SetSip, esp_sip names an instance that has been freed.          *)
Dangling ==
    /\ \A c \in WsTasks : pc[c] \notin SetSipLabels
    /\ esp_sip # NULL
    /\ ~Live(esp_sip)

SecondStore(t) ==
    pc[t] = "sip_again" /\ held[t] # NULL /\ ~Live(held[t]) /\ esp_sip' = held[t]

(* GOT_IP and SetSip write esp_sip without a lock, each of them twice.     *)
(* What makes it dangle, however they interleave and whichever init fails, *)
(* is always the second store, by voip_app.c of what sip_service_start has *)
(* stored already: the instance has been stopped by a SetSip in between.   *)
(* The store in sip_service_start never does, nor does a SetSip that stops *)
(* an instance without replacing it.                                       *)
DanglesBySecondStore ==
    [][~Dangling /\ Dangling' => \E t \in Starters : SecondStore(t)]_vars

(* count_s counts each request of call() at most once, so the restart that *)
(* SESSION_END makes above the limit never comes early, however requests,  *)
(* redials and sessions interleave.                                        *)
CountedOnce ==
    count_s + (IF "REQUEST" \in bits
                  /\ pc[Main] \notin {"trying", "reg", "dial", "giveup"}
               THEN 1 ELSE 0)
        <= raised

(* A check of set_net restarts the device in economic mode Enabled only,   *)
(* or while SetNetwork is changing the mode; vTaskResume does so only when *)
(* a session ends before the boot has created the sleeper.  So in the other*)
(* modes, whatever tasks call, hang up or boot at once, set_net never meets*)
(* a driver that somebody else has stopped.                                *)
AbortExplained ==
    /\ cause' = "abort_stop" =>
          eco_mode = "Enabled" \/ \E c \in WsTasks : pc[c] = "commit"
    /\ cause' = "abort_resume" => ~started /\ \E s \in Stacks : pc[s] = "resume"

AbortsExplained == [][cause' # cause => AbortExplained]_vars

(* ESP_ERROR_CHECK(esp_eth_stop) in set_net asserts that the driver stops. *)
StopSucceeds == cause # "abort_stop"

(* Hypotheses of two properties below.  The device does not go on failing  *)
(* its boot; the PLAY pin reads 0 in the end, or app_main waits for ever.  *)
BootsPass    == []<>Running
PlayInactive == []<>(pc[Main] # "wait_gpio")

(* Whatever happens to the task that stopped it, the link comes back, if   *)
(* need be with the next boot that passes its checks: no interleaving of   *)
(* boot, calls, hang-ups and commands leaves the driver stopped.           *)
LinkComesBack == BootsPass => ((eth = "stopped") ~> (eth = "started"))

(* A request that stays raised is dialled, given up, or lost to a restart. *)
RequestServed ==
    ("REQUEST" \in bits) ~>
        ("REQUEST" \notin bits \/ pc[Main] \in {"dial", "giveup", "reset"})

(* A caller past the call_started test gets its request raised, or the     *)
(* device restarts: the task cannot be stuck half way with call_started set*)
CallCompletes ==
    \A c \in Callers : (pc[c] = "claim") ~> (pc[c] = "idle")

(* A restart leads to service again, link or no link, once the checks of   *)
(* the boot pass and the wait for PLAY ends: nothing else keeps app_main off*)
(* its loop, and in no economic mode does set_net cut the boot short.      *)
BootCompletes == BootsPass /\ PlayInactive => ((pc[Main] = "reset") ~> Serving)

(* The task that is reconfiguring the link, if any.                        *)
Owner ==
    LET inside == {t \in Tasks : InSetNet(t)}
    IN  IF inside = {} THEN NULL ELSE CHOOSE t \in inside : TRUE

Abs ==
    INSTANCE Terminal WITH
        Users <- Tasks, Nobody <- NULL,
        serving <- started, taken <- count_s, owner <- Owner

(* The core implements the abstract terminal: service, requests taken at   *)
(* most once, one owner of the link at a time.                             *)
ImplementsTerminal == Abs!TSpec

=============================================================================
