------------------------------ MODULE KeyInput ------------------------------
(***************************************************************************)
(* From a GPIO to call(): the peripheral set's task (esp_peripherals.c)    *)
(* samples the buttons (button.c, periph_button.c) for every command that  *)
(* the edge interrupts and a 50 ms timer put into its queue, and sends     *)
(* what it saw into a second queue (audio_event_iface.c), from which the   *)
(* key service (input_key_service.c) calls input_key_service_cb of         *)
(* voip_app.c.  Neither sender waits for a full queue.                     *)
(*                                                                         *)
(* Time is abstracted to one fact per button: whether long_press_time has  *)
(* passed since last_press_tick.  Every event carries the number of the    *)
(* press it belongs to, which the code does not keep: with it the          *)
(* properties can say what became of each press.                           *)
(***************************************************************************)
EXTENDS Integers, Sequences

CONSTANTS
  Buttons,     \* the GPIOs of gpio_mask
  Play,        \* the one whose user id is INPUT_KEY_USER_ID_PLAY
  QueueLen,    \* DEFAULT_AUDIO_EVENT_IFACE_SIZE, the length of both queues
  MaxPresses   \* bound: how often each button is pressed

ASSUME ButtonsAssumption == Buttons \subseteq Nat /\ Play \in Buttons
ASSUME QueueLenAssumption == QueueLen \in Nat \ {0}
ASSUME MaxPressesAssumption == MaxPresses \in [Buttons -> Nat]

\* PERIPH_BUTTON_*, in the order in which _button_run sends them
PRESSED == 1
RELEASE == 2
LONG_PRESSED == 3
LONG_RELEASE == 4
Actions == PRESSED .. LONG_RELEASE

ACTIVE == 0      \* gpio_get_level of a button that is held

Event == [gpio : Buttons, action : Actions, press : Nat]

VARIABLES
  level,        \* what gpio_get_level answers for each button
  edges,        \* the buttons whose edges interrupt
  timer,        \* the 50 ms timer runs
  state,        \* state of the button peripheral
  cmds,         \* the number of commands in internal_queue, all alike
  pressed,      \* last_press_tick # 0
  late,         \* tick_get() - last_press_tick > long_press_time_ms
  longPressed,  \* long_pressed
  press,        \* how often button_get_state returned BTN_PRESSED
  mask,         \* the masks of button_result_t not yet sent
  events,       \* external_queue
  boot,         \* how far app_main has come
  key,          \* where the key service's task is
  msg,          \* its msg
  heard,        \* the events input_key_service_cb was given
  missed        \* those a full queue refused, or that came before "started"

gpioVars == <<level, edges, timer, state>>
itemVars == <<pressed, late, longPressed, press>>
taskVars == <<cmds, itemVars, mask, events>>
keyVars  == <<key, msg, heard>>
vars == <<gpioVars, taskVars, boot, keyVars, missed>>

None == [gpio |-> -1, action |-> 0, press |-> 0]

Init ==
  /\ level \in [Buttons -> {0, 1}]
  /\ edges = {} /\ timer = FALSE /\ state = "INIT"
  /\ cmds = 0
  /\ pressed = [b \in Buttons |-> FALSE]
  /\ late = [b \in Buttons |-> FALSE]
  /\ longPressed = [b \in Buttons |-> FALSE]
  /\ press = [b \in Buttons |-> 0]
  /\ mask = [a \in Actions |-> {}]
  /\ events = <<>>
  /\ boot = "created"
  /\ key = "receive" /\ msg = None
  /\ heard = {} /\ missed = {}

-----------------------------------------------------------------------------
\* The hardware, the interrupt and the timer

\* Mutant: the queue is taken for unbounded.
MutCmdFromIsr == cmds' = cmds + 1

\* audio_event_iface_cmd_from_isr: a full queue refuses the command, and
\* neither handler looks at the result.
CmdFromIsr == cmds' = IF cmds < QueueLen THEN cmds + 1 ELSE cmds

\* A finger, or a bounce of the contact.
Edge(b) ==
  /\ level[b] # ACTIVE => press[b] < MaxPresses[b]
  /\ level' = [level EXCEPT ![b] = 1 - @]
  /\ IF b \in edges THEN CmdFromIsr ELSE UNCHANGED cmds
  /\ UNCHANGED <<edges, timer, state, itemVars, mask, events, boot, keyVars, missed>>

Tick ==
  /\ timer
  /\ CmdFromIsr
  /\ UNCHANGED <<gpioVars, itemVars, mask, events, boot, keyVars, missed>>

Grow(b) ==
  /\ pressed[b] /\ ~late[b]
  /\ late' = [late EXCEPT ![b] = TRUE]
  /\ UNCHANGED <<gpioVars, cmds, pressed, longPressed, press, mask, events, boot, keyVars, missed>>

-----------------------------------------------------------------------------
\* The peripheral task

Idle == \A a \in Actions : mask[a] = {}

\* _button_init: its result is 0 even when xTimerStart finds the timer
\* service's queue full.
ButtonInit ==
  /\ state = "INIT"
  /\ state' = "RUNNING"
  /\ edges' = Buttons
  /\ timer' \in BOOLEAN
  /\ UNCHANGED <<level, taskVars, boot, keyVars, missed>>

\* Mutants: long_pressed is not looked at; every release is a short one.
MutStatus(b) ==
  CASE level[b] = ACTIVE /\ ~pressed[b] -> PRESSED
    [] level[b] # ACTIVE /\ pressed[b] /\ late[b] -> LONG_RELEASE
    [] level[b] # ACTIVE /\ pressed[b] /\ ~late[b] -> RELEASE
    [] level[b] = ACTIVE /\ pressed[b] /\ late[b] -> LONG_PRESSED
    [] OTHER -> 0
MutStatusShort(b) ==
  CASE level[b] = ACTIVE /\ ~pressed[b] -> PRESSED
    [] level[b] # ACTIVE /\ pressed[b] -> RELEASE
    [] level[b] = ACTIVE /\ pressed[b] /\ late[b] /\ ~longPressed[b] -> LONG_PRESSED
    [] OTHER -> 0

\* button_get_state
Status(b) ==
  CASE level[b] = ACTIVE /\ ~pressed[b] -> PRESSED
    [] level[b] # ACTIVE /\ pressed[b] /\ late[b] -> LONG_RELEASE
    [] level[b] # ACTIVE /\ pressed[b] /\ ~late[b] -> RELEASE
    [] level[b] = ACTIVE /\ pressed[b] /\ late[b] /\ ~longPressed[b] -> LONG_PRESSED
    [] OTHER -> 0

\* Mutant: a release does not reset long_pressed.
MutReadButtons ==
  /\ state = "RUNNING" /\ Idle /\ cmds > 0
  /\ cmds' = cmds - 1
  /\ mask' = [a \in Actions |-> {b \in Buttons : Status(b) = a}]
  /\ pressed' = [b \in Buttons |-> level[b] = ACTIVE]
  /\ late' = [b \in Buttons |-> late[b] /\ level[b] = ACTIVE]
  /\ longPressed' = [b \in Buttons |-> Status(b) = LONG_PRESSED \/ longPressed[b]]
  /\ press' = [b \in Buttons |-> IF Status(b) = PRESSED THEN press[b] + 1 ELSE press[b]]
  /\ UNCHANGED <<gpioVars, events, boot, keyVars, missed>>

\* A command reaches process_peripheral_event, _button_run and button_read.  The pins
\* are read one after another; the model reads them at one instant.  They do not
\* depend on one another, so a change between two reads can be put before or after both.
ReadButtons ==
  /\ state = "RUNNING" /\ Idle /\ cmds > 0
  /\ cmds' = cmds - 1
  /\ mask' = [a \in Actions |-> {b \in Buttons : Status(b) = a}]
  /\ pressed' = [b \in Buttons |-> level[b] = ACTIVE]
  /\ late' = [b \in Buttons |-> late[b] /\ level[b] = ACTIVE]
  /\ longPressed' = [b \in Buttons |->
       \/ Status(b) = LONG_PRESSED
       \/ longPressed[b] /\ Status(b) = 0]
  /\ press' = [b \in Buttons |-> IF Status(b) = PRESSED THEN press[b] + 1 ELSE press[b]]
  /\ UNCHANGED <<gpioVars, events, boot, keyVars, missed>>

\* The next bit of the four masks: by kind of event, then by GPIO.
NextBit(a, b) ==
  /\ b \in mask[a]
  /\ \A c \in mask[a] : b <= c
  /\ \A x \in 1 .. a - 1 : mask[x] = {}

\* button_send_event: audio_event_iface_sendout does not wait for room.
SendEvent(a, b) ==
  /\ NextBit(a, b)
  /\ mask' = [mask EXCEPT ![a] = @ \ {b}]
  /\ LET e == [gpio |-> b, action |-> a, press |-> press[b]] IN
       \/ Len(events) < QueueLen /\ events' = Append(events, e) /\ UNCHANGED missed
       \/ Len(events) >= QueueLen /\ missed' = missed \cup {e} /\ UNCHANGED events
  /\ UNCHANGED <<gpioVars, cmds, itemVars, boot, keyVars>>

PeriphTask == ButtonInit \/ ReadButtons \/ \E a \in Actions, b \in Buttons : SendEvent(a, b)

-----------------------------------------------------------------------------
\* app_main

\* input_key_service_add_key, then periph_service_set_callback
SetCallback ==
  /\ boot = "created"
  /\ boot' = "callback"
  /\ UNCHANGED <<gpioVars, taskVars, keyVars, missed>>

\* example_register_gpio_wakeup makes the pin of PLAY an input without
\* interrupt, then looks at it every 10 ms until it is inactive, which for
\* GPIO_WAKEUP_LEVEL 1 means until it reads 0.
RegisterGpioWakeup ==
  /\ boot = "callback"
  /\ boot' = "wakeup"
  /\ edges' = edges \ {Play}
  /\ UNCHANGED <<level, timer, state, taskVars, keyVars, missed>>

WaitGpioInactive ==
  /\ boot = "wakeup"
  /\ level[Play] = 0
  /\ boot' = "started"
  /\ UNCHANGED <<gpioVars, taskVars, keyVars, missed>>

AppMain == SetCallback \/ RegisterGpioWakeup \/ WaitGpioInactive

-----------------------------------------------------------------------------
\* The key service's task

Receive ==
  /\ key = "receive" /\ events # <<>>
  /\ msg' = Head(events)
  /\ events' = Tail(events)
  /\ key' = "callback"
  /\ UNCHANGED <<gpioVars, cmds, itemVars, mask, boot, heard, missed>>

\* Before "started" there is no user id for the key, no callback, or
\* input_key_service_cb returns at once.
Ignore ==
  /\ key = "callback" /\ boot # "started"
  /\ missed' = missed \cup {msg}
  /\ key' = "receive"
  /\ msg' = None
  /\ UNCHANGED <<gpioVars, taskVars, boot, heard>>

\* INPUT_KEY_SERVICE_ACTION_PRESS is the number of LONG_PRESSED.
Calls(e) == e.gpio = Play /\ e.action = LONG_PRESSED

Callback ==
  /\ key = "callback" /\ boot = "started"
  /\ heard' = heard \cup {msg}
  /\ key' = IF Calls(msg) THEN "call" ELSE "receive"
  /\ msg' = None
  /\ UNCHANGED <<gpioVars, taskVars, boot, missed>>

\* call() keeps the task for five seconds and more; VoipApp shows that it returns.
CallReturns ==
  /\ key = "call"
  /\ key' = "receive"
  /\ UNCHANGED <<gpioVars, taskVars, boot, msg, heard, missed>>

KeyService == Receive \/ Ignore \/ Callback \/ CallReturns

-----------------------------------------------------------------------------
Next ==
  \/ \E b \in Buttons : Edge(b) \/ Grow(b)
  \/ Tick
  \/ PeriphTask
  \/ AppMain
  \/ KeyService

Spec == Init /\ [][Next]_vars

\* FreeRTOS runs every ready task and the timer service; time passes.  Nobody
\* has to press a button.
FairSpec ==
  /\ Spec
  /\ WF_vars(Tick)
  /\ WF_vars(PeriphTask)
  /\ WF_vars(AppMain)
  /\ WF_vars(KeyService)
  /\ \A b \in Buttons : WF_vars(Grow(b))

-----------------------------------------------------------------------------
\* The types of all variables; neither queue exceeds its length.
TypeOK ==
  /\ level \in [Buttons -> {0, 1}]
  /\ edges \subseteq Buttons /\ timer \in BOOLEAN /\ state \in {"INIT", "RUNNING"}
  /\ cmds \in 0 .. QueueLen
  /\ pressed \in [Buttons -> BOOLEAN]
  /\ late \in [Buttons -> BOOLEAN]
  /\ longPressed \in [Buttons -> BOOLEAN]
  /\ press \in [Buttons -> Nat]
  /\ mask \in [Actions -> SUBSET Buttons]
  /\ events \in Seq(Event) /\ Len(events) <= QueueLen
  /\ boot \in {"created", "callback", "wakeup", "started"}
  /\ key \in {"receive", "callback", "call"}
  /\ msg \in IF key = "callback" THEN Event ELSE {None}
  /\ heard \subseteq Event /\ missed \subseteq Event

\* The order of a button's events: by press, and within one by kind.
Before(e, f) ==
  \/ e.press < f.press
  \/ e.press = f.press /\ e.action < f.action

\* Events the task has made and nobody has been given yet.
Pending == UNION {{[gpio |-> b, action |-> a, press |-> press[b]] : b \in mask[a]} : a \in Actions}
Queued  == {events[i] : i \in DOMAIN events}
Made == Pending \cup Queued \cup {msg} \cup heard \cup missed

\* What the callback is given of a button comes in the order in which it
\* happened and never twice, however the queues overflow: a hold of PLAY
\* starts call() at most once.
HeardInOrder ==
  [][key = "callback" /\ boot = "started" /\ key' # key =>
        \A e \in heard : e.gpio = msg.gpio => Before(e, msg)]_vars

\* Every press is told from end to end: its PRESSED, and once it is over
\* exactly one of the two releases, the long one if LONG_PRESSED was told.
PressesTold ==
  \A b \in Buttons : \A n \in 1 .. press[b] :
    LET told(a) == [gpio |-> b, action |-> a, press |-> n] \in Made
        over == n < press[b] \/ ~pressed[b]
    IN  /\ told(PRESSED)
        /\ over <=> told(RELEASE) \/ told(LONG_RELEASE)
        /\ told(RELEASE) => ~told(LONG_RELEASE) /\ ~told(LONG_PRESSED)

\* While the timer runs, a button that stays as it is gets known as it is,
\* whatever commands and events were refused before: a held one as pressed
\* for long, a free one as released, and the callback was told, unless the
\* queue was full or service not open.
LevelHeard ==
  \A b \in Buttons :
    /\ <>[](timer /\ level[b] = ACTIVE) =>
         <>[]([gpio |-> b, action |-> LONG_PRESSED, press |-> press[b]] \in heard \cup missed)
    /\ <>[](timer /\ level[b] # ACTIVE) =>
         <>[](press[b] > 0 => \E a \in {RELEASE, LONG_RELEASE} :
                [gpio |-> b, action |-> a, press |-> press[b]] \in heard \cup missed)

\* esp_peripherals/include/periph_button.h: LONG_RELEASE means "button is released and event
\* PERIPH_BUTTON_LONG_PRESSED happened".
LongReleaseAfterLongPress ==
  \A e \in Made : e.action = LONG_RELEASE => [e EXCEPT !.action = LONG_PRESSED] \in Made
=============================================================================
