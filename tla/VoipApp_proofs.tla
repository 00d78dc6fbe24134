--------------------------- MODULE VoipApp_proofs ---------------------------
(* Theorems about VoipApp for every value of its constants.                *)
EXTENDS VoipApp, TLAPS

(* Power-on puts every task at its first label.                            *)
LEMMA PowerOnTyped ==
    ASSUME NEW first \in MainLabels, pc' = PowerOn(first)
    PROVE  PcTyped'
<1>1. pc' \in [Tasks -> Labels]
  BY DEF PowerOn, Labels, SleepLabels, CallerLabels
<1>2. \A t \in Tasks : pc'[t] = IF t = Main THEN first
                                ELSE IF t = Sleeper THEN "top" ELSE "idle"
  BY DEF PowerOn
<1>3. /\ Main \in Tasks /\ Sleeper \in Tasks /\ Loop \in Tasks
      /\ Callers \subseteq Tasks /\ Stacks \subseteq Tasks /\ WebTimers \subseteq Tasks
  BY DEF Tasks
<1>4. QED
  BY <1>1, <1>2, <1>3, TasksAssumption
  DEF PcTyped, CallerLabels, StackLabels, TimerLabels, SleepLabels, LoopLabels

(* Every restart puts the program back in a well-typed state.              *)
LEMMA RestartTyped ==
    ASSUME NEW why \in Causes, NEW flash \in EcoModes, RestartWith(why, flash)
    PROVE  TypeOK'
<1>1. PcTyped'
  BY PowerOnTyped DEF RestartWith, MainLabels
<1>2. dialog' \in [Stacks -> {"none", "idle", "calling", "incoming", "session"}]
  BY DEF RestartWith, NoDialog
<1>3. ipPending' \in 0..MaxIpEvents /\ count_s' \in Nat /\ raised' \in Nat
  BY ParametersAssumption DEF RestartWith
<1>4. held' \in [Starters -> Stacks \cup {NULL}]
  BY DEF RestartWith, NoHandle
<1>5. QED
  BY <1>1, <1>2, <1>3, <1>4 DEF RestartWith, TypeOK

(* A step that moves task t to a label of its kind keeps pc typed.         *)
LEMMA GotoTyped ==
    ASSUME PcTyped, NEW t \in Tasks, NEW label \in Labels, Goto(t, label),
           t = Main => label \in MainLabels,
           t = Sleeper => label \in SleepLabels,
           t = Loop => label \in LoopLabels,
           t \in Callers => label \in CallerLabels,
           t \in Stacks => label \in StackLabels,
           t \in WebTimers => label \in TimerLabels
    PROVE  PcTyped'
<1>1. pc' \in [Tasks -> Labels]
  BY DEF PcTyped, Goto
<1>2. \A u \in Tasks : pc'[u] = IF u = t THEN label ELSE pc[u]
  BY DEF PcTyped, Goto
<1>3. /\ Main \in Tasks /\ Sleeper \in Tasks /\ Loop \in Tasks
      /\ Callers \subseteq Tasks /\ Stacks \subseteq Tasks /\ WebTimers \subseteq Tasks
  BY DEF Tasks
<1>4. QED
  BY <1>1, <1>2, <1>3 DEF PcTyped

(* The kinds of tasks are disjoint.                                        *)
LEMMA Kinds ==
    /\ Main \in Tasks /\ Sleeper \in Tasks /\ Main # Sleeper
    /\ Loop \in Tasks /\ Loop \in Starters /\ Loop # Main /\ Loop # Sleeper
    /\ Loop \notin Callers /\ Loop \notin Stacks /\ Loop \notin WebTimers
    /\ \A c \in Callers : /\ c \in Tasks /\ c # Main /\ c # Sleeper
                          /\ c \notin Stacks /\ c \notin WebTimers
    /\ \A s \in Stacks : /\ s \in Tasks /\ s # Main /\ s # Sleeper
                         /\ s \notin Callers /\ s \notin WebTimers
    /\ \A w \in WebTimers : /\ w \in Tasks /\ w # Main /\ w # Sleeper
                            /\ w \notin Callers /\ w \notin Stacks
    /\ KeyTasks \subseteq Callers /\ RemoteTasks \subseteq Callers
    /\ WsTasks \subseteq Callers /\ NULL \notin Tasks
    /\ \A t \in Starters : t = Loop \/ (t \in WsTasks /\ t \in Callers)
    /\ WsTasks \subseteq Starters
BY TasksAssumption DEF Tasks, Callers, Starters

(* A driver call of set_net keeps the types: it moves on, or restarts.     *)
LEMMA SetNetTyped ==
    ASSUME TypeOK, NEW t \in Tasks \ ({Sleeper, Loop} \cup WebTimers), SetNet(t)
    PROVE  TypeOK'
<1> USE DEF SetNetLabels, PastStop
<1>1. "suspend" \in CallerLabels /\ "resume" \in MainLabels /\ "resume" \in StackLabels
  BY DEF CallerLabels, MainLabels, StackLabels
<1>2. \A l \in SetNetLabels : l \in MainLabels /\ l \in CallerLabels /\ l \in StackLabels
  BY DEF CallerLabels, MainLabels, StackLabels
<1>3. ASSUME NEW at, NEW next \in SetNetLabels \cup {AfterSetNet(t)}, NEW ok,
             NEW failure \in Causes, NEW ACTION change,
             DriverCall(t, at, next, ok, failure, change),
             change => eth' \in {"off", "started", "stopped"} /\ autoneg' \in BOOLEAN
      PROVE  TypeOK'
  <2>1. CASE Restart(failure)
    BY <1>3, <2>1, RestartTyped DEF Restart, TypeOK
  <2>2. CASE ~Restart(failure)
    <3>1. PcTyped'
      BY <1>1, <1>2, <1>3, <2>2, Kinds, GotoTyped
      DEF TypeOK, DriverCall, AfterSetNet, Labels
    <3>2. QED
      BY <1>3, <2>2, <3>1 DEF TypeOK, DriverCall, appVars, sipVars
  <2>3. QED
    BY <2>1, <2>2
<1>4. CASE EthStop(t)
  BY <1>3, <1>4 DEF EthStop, Causes, TypeOK
<1>5. CASE AutonegOff(t)
  BY <1>3, <1>5 DEF AutonegOff, Causes, TypeOK
<1>6. CASE SetSpeed(t)
  BY <1>3, <1>6 DEF SetSpeed, Causes, TypeOK
<1>7. CASE AutonegOn(t)
  BY <1>3, <1>7 DEF AutonegOn, Causes, TypeOK
<1>8. CASE EthStart(t)
  BY <1>3, <1>8 DEF EthStart, Causes, TypeOK
<1>9. QED
  BY <1>4, <1>5, <1>6, <1>7, <1>8 DEF SetNet

LEMMA MainTyped ==
    ASSUME TypeOK, BootStep \/ MainStep
    PROVE  TypeOK'
<1> USE Kinds, GotoTyped DEF TypeOK, appVars, sipVars, ethVars, MainLabels, Labels
<1>1. CASE Boot \/ BootReturns
  BY <1>1 DEF Boot, BootReturns, Causes
<1>2. CASE BootAborts
  BY <1>2, RestartTyped DEF BootAborts, Restart, Causes
<1>3. CASE WaitLink \/ CreateSleeper
  BY <1>3 DEF WaitLink, CreateSleeper, SetNetLabels
<1>4. CASE SetNet(Main)
  BY <1>4, SetNetTyped
<1>5. CASE MainResume
  BY <1>5, RestartTyped DEF MainResume, ResumeSleeper, Restart, Causes
<1>6. CASE StartServing
  BY <1>6 DEF StartServing
<1>7. CASE TakeRequest
  BY <1>7 DEF TakeRequest
<1>8. CASE TryCall \/ CheckRegistered
  BY <1>8 DEF TryCall, CheckRegistered
<1>9. CASE Dial
  BY <1>9, RestartTyped DEF Dial, PanicOn, Restart, Causes
<1>10. CASE GiveUp \/ DropCall
  BY <1>10 DEF GiveUp, DropCall
<1>11. CASE NoAnswerRestart
  BY <1>11, RestartTyped DEF NoAnswerRestart, Restart, Causes
<1>12. QED
  BY <1>1, <1>2, <1>3, <1>4, <1>5, <1>6, <1>7, <1>8, <1>9, <1>10, <1>11
  DEF BootStep, MainStep

LEMMA EndDialogTyped ==
    ASSUME TypeOK, NEW s \in Stacks, EndDialog(s)
    PROVE  TypeOK'
BY Kinds DEF EndDialog, TypeOK, PcTyped, appVars, sipVars, ethVars, StackLabels, Labels

(* What a starter does with the new instance keeps the types.              *)
LEMMA RtcInitTyped ==
    ASSUME TypeOK, NEW t \in Starters, RtcInit(t), ipPending' \in 0..MaxIpEvents
    PROVE  TypeOK'
<1>1. PcTyped'
  BY Kinds, GotoTyped
  DEF RtcInit, TypeOK, Labels, CallerLabels, SetSipLabels, LoopLabels, StartLabels
<1>2. PICK new \in Stacks \cup {NULL} :
         /\ held' = [held EXCEPT ![t] = new]
         /\ dialog' = [s \in Stacks |-> IF s = new THEN "idle" ELSE dialog[s]]
  BY DEF RtcInit, Unnamed
<1>3. QED
  BY <1>1, <1>2 DEF RtcInit, TypeOK

LEMMA StartTyped ==
    ASSUME TypeOK, NEW t \in Starters, StartStep(t)
    PROVE  TypeOK'
<1> USE Kinds, GotoTyped
    DEF TypeOK, ethVars, Labels, CallerLabels, SetSipLabels, LoopLabels, StartLabels
<1>1. CASE StoreHandle(t)
  BY <1>1 DEF StoreHandle
<1>2. CASE ReturnHandle(t)
  BY <1>2 DEF ReturnHandle
<1>3. CASE StoreAgain(t)
  BY <1>3 DEF StoreAgain
<1>4. QED
  BY <1>1, <1>2, <1>3 DEF StartStep

LEMMA CallerTyped ==
    ASSUME TypeOK, NEW c \in Callers,
           \/ PressKey(c) \/ CallStep(c) \/ RemoteStep(c)
           \/ c \in WsTasks /\ WsStep(c)
    PROVE  TypeOK'
<1> USE Kinds, GotoTyped DEF TypeOK, appVars, sipVars, ethVars, CallerLabels, Labels
<1>1. CASE PressKey(c)
  BY <1>1 DEF PressKey
<1>2. CASE CheckCallStarted(c)
  BY <1>2 DEF CheckCallStarted
<1>3. CASE ClaimCall(c)
  BY <1>3 DEF ClaimCall
<1>4. CASE ClearRegistered(c)
  BY <1>4 DEF ClearRegistered, SetNetLabels
<1>5. CASE SetNet(c)
  BY <1>5, SetNetTyped
<1>6. CASE SuspendInCall(c)
  BY <1>6 DEF SuspendInCall, SuspendSleeper
<1>7. CASE RaiseRequest(c)
  BY <1>7 DEF RaiseRequest
<1>8. CASE CallCommand(c)
  BY <1>8 DEF CallCommand, SuspendSleeper
<1>9. CASE RebootCommand(c)
  BY <1>9, RestartTyped DEF RebootCommand, Restart, Causes
<1>10. CASE EndCallCommand(c)
  BY <1>10, EndDialogTyped, RestartTyped
  DEF EndCallCommand, PanicOn, Restart, Causes
<1>11. CASE c \in WsTasks /\ SetSip(c)
  BY <1>11 DEF SetSip, SetSipLabels
<1>12. CASE c \in WsTasks /\ SetSipStop(c)
  <2>1. CASE PanicOn(held[c])
    BY <2>1, RestartTyped DEF PanicOn, Restart, Causes
  <2>2. CASE ~PanicOn(held[c])
    <3>1. PcTyped'
      BY <1>12, <2>2 DEF SetSipStop, SetSipLabels
    <3>2. held' \in [Starters -> Stacks \cup {NULL}]
      BY <1>12, <2>2 DEF SetSipStop
    <3>3. dialog' \in [Stacks -> {"none", "idle", "calling", "incoming", "session"}]
      BY <1>12, <2>2 DEF SetSipStop
    <3>4. UNCHANGED <<bits, call_started, started, count_s, eco_mode, esp_sip, nvs_eco,
                      sleeper, ethVars, raised, cause>>
      BY <1>12, <2>2 DEF SetSipStop
    <3>5. QED
      BY <3>1, <3>2, <3>3, <3>4
  <2>3. QED
    BY <2>1, <2>2
<1>13. CASE c \in WsTasks /\ SetSipStart(c)
  BY <1>13, RtcInitTyped DEF SetSipStart
<1>14. CASE SetNetwork(c)
  BY <1>14 DEF SetNetwork
<1>15. CASE CommitNetwork(c)
  BY <1>15, RestartTyped DEF CommitNetwork, Causes
<1>16. QED
  BY <1>1, <1>2, <1>3, <1>4, <1>5, <1>6, <1>7, <1>8, <1>9, <1>10, <1>11, <1>12,
     <1>13, <1>14, <1>15
  DEF CallStep, RemoteStep, WsStep

LEMMA WebTyped ==
    ASSUME TypeOK, NEW w \in WebTimers, WebStep(w)
    PROVE  TypeOK'
<1> USE Kinds, GotoTyped DEF TypeOK, appVars, sipVars, ethVars, TimerLabels, Labels
<1>1. CASE InitWeb(w)
  BY <1>1 DEF InitWeb, SuspendSleeper
<1>2. CASE TimeoutCheck(w)
  BY <1>2 DEF TimeoutCheck
<1>3. CASE TimeoutResume(w)
  BY <1>3, RestartTyped DEF TimeoutResume, ResumeSleeper, Restart, Causes
<1>4. QED
  BY <1>1, <1>2, <1>3 DEF WebStep

LEMMA StackTyped ==
    ASSUME TypeOK, NEW s \in Stacks, SipEvent(s) \/ EndStep(s)
    PROVE  TypeOK'
<1> USE Kinds, GotoTyped DEF TypeOK, appVars, sipVars, ethVars, StackLabels, Labels
<1>1. CASE SipRegistered(s)
  BY <1>1 DEF SipRegistered, PcTyped
<1>2. CASE SipUnregistered(s)
  BY <1>2 DEF SipUnregistered, PcTyped
<1>3. CASE Incoming(s)
  BY <1>3 DEF Incoming, SuspendSleeper
<1>4. CASE SessionBegin(s)
  BY <1>4 DEF SessionBegin, PcTyped
<1>5. CASE EndDialog(s)
  BY <1>5, EndDialogTyped
<1>6. CASE ReleaseCall(s)
  BY <1>6 DEF ReleaseCall
<1>7. CASE CheckCount(s)
  BY <1>7, RestartTyped DEF CheckCount, Restart, Causes, SetNetLabels
<1>8. CASE SetNet(s)
  BY <1>8, SetNetTyped
<1>9. CASE ResumeAfterSession(s)
  BY <1>9, RestartTyped DEF ResumeAfterSession, ResumeSleeper, Restart, Causes
<1>10. QED
  BY <1>1, <1>2, <1>3, <1>4, <1>5, <1>6, <1>7, <1>8, <1>9 DEF SipEvent, EndStep

(* TypeOK is inductive.                                                    *)
LEMMA NextTyped ==
    ASSUME TypeOK, [Next]_vars
    PROVE  TypeOK'
<1>1. CASE LightSleep
  BY <1>1, Kinds, GotoTyped
  DEF LightSleep, TypeOK, appVars, sipVars, ethVars, SleepLabels, Labels
<1>2. CASE WokenByGpio
  BY <1>2, Kinds, GotoTyped
  DEF WokenByGpio, TypeOK, appVars, sipVars, ethVars, SleepLabels, Labels
<1>3. CASE LinkUp
  BY <1>3, ParametersAssumption DEF LinkUp, TypeOK, PcTyped, sipVars
<1>4. CASE LinkDown
  BY <1>4 DEF LinkDown, TypeOK, PcTyped, appVars, sipVars, ethVars
<1>5. CASE GotIp
  BY <1>5, ParametersAssumption, Kinds, RtcInitTyped DEF GotIp, TypeOK
<1>6. CASE UNCHANGED vars
  BY <1>6 DEF vars, appVars, sipVars, ethVars, TypeOK, PcTyped
<1>7. QED
  BY <1>1, <1>2, <1>3, <1>4, <1>5, <1>6, MainTyped, CallerTyped, WebTyped,
     StackTyped, StartTyped, Kinds
  DEF Next

(* Type correctness: every task stays at a label of its own code and every *)
(* variable within its type.                                               *)
THEOREM TypeCorrect == Spec => []TypeOK
<1>1. Init => TypeOK
  <2> SUFFICES ASSUME Init PROVE TypeOK
    OBVIOUS
  <2>1. PcTyped
    BY Kinds
    DEF Init, PowerOn, PcTyped, Labels, MainLabels, CallerLabels, StackLabels,
        TimerLabels, SleepLabels, LoopLabels
  <2>2. dialog \in [Stacks -> {"none", "idle", "calling", "incoming", "session"}]
    BY DEF Init, NoDialog
  <2>3. ipPending \in 0..MaxIpEvents /\ count_s \in Nat /\ raised \in Nat
    BY ParametersAssumption DEF Init
  <2>4. held \in [Starters -> Stacks \cup {NULL}]
    BY DEF Init, NoHandle
  <2>5. QED
    BY <2>1, <2>2, <2>3, <2>4 DEF Init, TypeOK, Causes
<1>2. TypeOK /\ [Next]_vars => TypeOK'
  BY NextTyped
<1>3. QED
  BY <1>1, <1>2, PTL DEF Spec

=============================================================================
