------------------------- MODULE VoipAppInv_proofs -------------------------
(***************************************************************************)
(* The safety properties of VoipApp, for every value of its constants.     *)
(* BootGate and CountedOnce are inductive with TypeOK.  So is              *)
(* SetNetExclusive with BootGate, and OnlyStopAborts follows it step by    *)
(* step: past esp_eth_stop a task owns the driver, so its later calls      *)
(* succeed.  Two properties of steps rest on invariants of their own:      *)
(* DanglesBySecondStore on HandleInv, AbortsExplained on QuietInv.         *)
(***************************************************************************)
EXTENDS VoipApp_proofs

(* What Goto does to pc.                                                   *)
LEMMA GotoAt ==
    ASSUME TypeOK, NEW t \in Tasks, NEW label, Goto(t, label)
    PROVE  \A u \in Tasks : pc'[u] = IF u = t THEN label ELSE pc[u]
BY DEF TypeOK, PcTyped, Goto

(* What power-on does to pc.                                               *)
LEMMA PowerOnAt ==
    ASSUME NEW first, pc' = PowerOn(first)
    PROVE  \A u \in Tasks : pc'[u] = IF u = Main THEN first
                                     ELSE IF u = Sleeper THEN "top" ELSE "idle"
BY DEF PowerOn

(* A restart establishes every part of the invariant.                      *)
LEMMA RestartInv ==
    ASSUME NEW why, NEW flash, RestartWith(why, flash)
    PROVE  /\ BootGate' /\ SetNetExclusive' /\ CountedOnce'
           /\ why # "abort_setup" => OnlyStopAborts'
<1>1. pc' = PowerOn("reset")
  BY DEF RestartWith
<1>2. \A u \in Tasks : pc'[u] \in {"reset", "top", "idle"}
  BY <1>1, PowerOnAt
<1>3. pc'[Main] = "reset" /\ \A t \in Callers \cup WebTimers : pc'[t] = "idle"
  BY <1>1, PowerOnAt, Kinds
<1>4. BootGate'
  BY <1>3 DEF RestartWith, BootGate, Serving, Running
<1>5. SetNetExclusive'
  BY <1>2 DEF RestartWith, SetNetExclusive, InSetNet, PastStop
<1>6. CountedOnce' /\ (why # "abort_setup" => OnlyStopAborts')
  BY <1>3 DEF RestartWith, CountedOnce, OnlyStopAborts
<1>7. QED
  BY <1>4, <1>5, <1>6

(* A step of set_net moves its task on and changes only the driver, or     *)
(* restarts the device.                                                    *)
LEMMA SetNetDoes ==
    ASSUME NEW t \in Tasks, SetNet(t)
    PROVE  /\ pc[t] \in SetNetLabels
           /\ \/ \E why \in {"abort_stop", "abort_setup"} : RestartWith(why, nvs_eco)
              \/ /\ \E next \in SetNetLabels \cup {AfterSetNet(t)} : Goto(t, next)
                 /\ eth # "off" /\ eth' # "off"
                 /\ UNCHANGED <<appVars, nvs_eco, sleeper, ipPending, dialog,
                                raised, cause>>
BY DEF SetNet, EthStop, AutonegOff, SetSpeed, AutonegOn, EthStart, DriverCall,
       SetNetLabels, PastStop, Restart

(* A command of the WebSocket interface, by task t, that is not the end of *)
(* SetNetwork: the task moves inside SetSip or to its commit.              *)
LEMMA WsDoes ==
    ASSUME NEW c \in WsTasks, WsStep(c)
    PROVE  \/ \E why \in {"command", "freed_handle"}, flash \in {eco_mode, nvs_eco} :
                 RestartWith(why, flash)
           \/ /\ \E next \in SetSipLabels \cup {"commit"} : Goto(c, next)
              /\ pc[c] = "idle" => Serving
              /\ pc[c] \in {"idle", "sip_stop", "sip_init"}
              /\ UNCHANGED <<bits, call_started, started, count_s, esp_sip, nvs_eco,
                             sleeper, ethVars, raised, cause>>
<1> USE DEF SetSipLabels, StartLabels, ethVars
<1>1. CASE SetSip(c)
  BY <1>1 DEF SetSip
<1>2. CASE SetSipStop(c)
  BY <1>2 DEF SetSipStop, PanicOn, Restart
<1>3. CASE SetSipStart(c)
  BY <1>3 DEF SetSipStart, RtcInit
<1>4. CASE SetNetwork(c)
  BY <1>4 DEF SetNetwork, sipVars
<1>5. CASE CommitNetwork(c)
  BY <1>5 DEF CommitNetwork
<1>6. QED
  BY <1>1, <1>2, <1>3, <1>4, <1>5 DEF WsStep

(* A step of sip_service_start or of the store after it.                   *)
LEMMA StartDoes ==
    ASSUME NEW t \in Starters, StartStep(t)
    PROVE  /\ pc[t] \in StartLabels
           /\ \E next \in {"sip_return", "sip_again", "idle"} : Goto(t, next)
           /\ UNCHANGED <<bits, call_started, started, count_s, eco_mode, nvs_eco,
                          sleeper, ethVars, dialog, raised, cause>>
BY DEF StartStep, StoreHandle, ReturnHandle, StoreAgain, StartLabels

-----------------------------------------------------------------------------
(* BootGate.                                                               *)

LEMMA BootGateStep ==
    ASSUME TypeOK, BootGate, [Next]_vars
    PROVE  BootGate'
<1> USE Kinds, GotoAt, RestartInv
    DEF BootGate, Serving, Running, Restart, appVars, sipVars, ethVars
<1>1. ASSUME NEW t \in Tasks, SetNet(t), t # Sleeper, t \notin WebTimers
      PROVE  BootGate'
  BY <1>1, SetNetDoes DEF AfterSetNet, SetNetLabels, PastStop
<1>2. CASE BootStep \/ MainStep
  <2>1. CASE BootStep
    BY <2>1 DEF BootStep, Boot, BootAborts, BootReturns, CreateSleeper
  <2>2. CASE WaitLink \/ MainResume \/ StartServing \/ TakeRequest
    BY <2>2 DEF WaitLink, MainResume, ResumeSleeper, StartServing, TakeRequest
  <2>3. CASE TryCall \/ CheckRegistered \/ Dial \/ GiveUp \/ DropCall \/ NoAnswerRestart
    BY <2>3 DEF TryCall, CheckRegistered, Dial, PanicOn, GiveUp,
      DropCall, NoAnswerRestart
  <2>4. QED
    BY <1>1, <1>2, <2>1, <2>2, <2>3 DEF MainStep
<1>3. ASSUME NEW c \in Callers, PressKey(c) \/ CallStep(c) \/ RemoteStep(c)
      PROVE  BootGate'
  <2>1. CASE CallStep(c)
    BY <1>1, <2>1
    DEF CallStep, CheckCallStarted, ClaimCall, ClearRegistered, SuspendInCall,
        SuspendSleeper, RaiseRequest
  <2>2. CASE PressKey(c) \/ CallCommand(c) \/ RebootCommand(c)
    BY <2>2 DEF PressKey, CallCommand, SuspendSleeper, RebootCommand
  <2>3. CASE EndCallCommand(c)
    BY <2>3 DEF EndCallCommand, PanicOn, EndDialog, TypeOK, PcTyped
  <2>4. QED
    BY <1>3, <2>1, <2>2, <2>3 DEF RemoteStep
<1>4. ASSUME NEW c \in WsTasks, WsStep(c)
      PROVE  BootGate'
  BY <1>4, WsDoes DEF SetSipLabels, StartLabels
<1>5. ASSUME NEW t \in Starters, StartStep(t)
      PROVE  BootGate'
  BY <1>5, StartDoes DEF StartLabels
<1>6. ASSUME NEW w \in WebTimers, WebStep(w)
      PROVE  BootGate'
  BY <1>6
  DEF WebStep, InitWeb, SuspendSleeper, TimeoutCheck, TimeoutResume, ResumeSleeper
<1>7. ASSUME NEW s \in Stacks, SipEvent(s) \/ EndStep(s)
      PROVE  BootGate'
  <2>1. CASE SipRegistered(s) \/ SipUnregistered(s) \/ SessionBegin(s)
    BY <2>1 DEF SipRegistered, SipUnregistered, SessionBegin
  <2>2. CASE Incoming(s)
    BY <2>2 DEF Incoming, SuspendSleeper
  <2>3. CASE EndDialog(s)
    BY <2>3 DEF EndDialog, TypeOK, PcTyped
  <2>4. CASE EndStep(s)
    BY <1>1, <2>4
    DEF EndStep, ReleaseCall, CheckCount, ResumeAfterSession, ResumeSleeper
  <2>5. QED
    BY <1>7, <2>1, <2>2, <2>3, <2>4 DEF SipEvent
<1>8. CASE LightSleep \/ WokenByGpio
  BY <1>8 DEF LightSleep, WokenByGpio
<1>9. CASE LinkUp \/ LinkDown \/ GotIp \/ UNCHANGED vars
  BY <1>9 DEF LinkUp, LinkDown, GotIp, RtcInit, vars
<1>10. QED
  BY <1>2, <1>3, <1>4, <1>5, <1>6, <1>7, <1>8, <1>9 DEF Next

(* The gate that started keeps: no caller of call() or init_web meets a    *)
(* null xHandleSleep, and the driver is there for all of them.             *)
THEOREM BootGateCorrect == Spec => []BootGate
<1>1. Init => BootGate
  BY Kinds DEF Init, PowerOn, BootGate, Serving, Running
<1>2. TypeOK /\ BootGate /\ [Next]_vars => BootGate'
  BY BootGateStep
<1>3. QED
  BY <1>1, <1>2, TypeCorrect, PTL DEF Spec

-----------------------------------------------------------------------------
(* SetNetExclusive and OnlyStopAborts.                                     *)

(* A step outside set_net keeps the exclusion: it leaves the driver alone  *)
(* and moves no task past esp_eth_stop.                                    *)
LEMMA QuietStep ==
    ASSUME SetNetExclusive, UNCHANGED <<eth, autoneg>>,
           \A u \in Tasks : \/ pc'[u] = pc[u]
                            \/ ~InSetNet(u) /\ ~InSetNet(u)'
    PROVE  SetNetExclusive'
BY DEF SetNetExclusive, InSetNet, PastStop, Wants100M

(* So does starting the driver at the boot, when nobody is in set_net.     *)
LEMMA BootExclusive ==
    ASSUME TypeOK, BootGate, SetNetExclusive, Boot
    PROVE  SetNetExclusive'
<1>1. eth = "off" /\ \A t \in Tasks : ~InSetNet(t)
  BY DEF Boot, BootGate, Running, SetNetExclusive
<1>2. \A t \in Tasks : ~InSetNet(t)'
  BY <1>1, GotoAt, Kinds DEF Boot, InSetNet, PastStop
<1>3. QED
  BY <1>2 DEF Boot, SetNetExclusive, InSetNet, PastStop

(* One driver call of set_net: only esp_eth_stop can fail.                 *)
LEMMA SetNetStep ==
    ASSUME TypeOK, SetNetExclusive, OnlyStopAborts, NEW t \in Tasks, SetNet(t),
           t # Sleeper, t \notin WebTimers
    PROVE  SetNetExclusive' /\ OnlyStopAborts'
<1> USE GotoAt, RestartInv
    DEF DriverCall, Restart, SetNetExclusive, InSetNet, PastStop, Wants100M,
        AfterSetNet, OnlyStopAborts
<1>1. CASE EthStop(t)
  BY <1>1 DEF EthStop
<1>2. CASE AutonegOff(t)
  BY <1>2 DEF AutonegOff
<1>3. CASE SetSpeed(t)
  BY <1>3 DEF SetSpeed
<1>4. CASE AutonegOn(t)
  BY <1>4 DEF AutonegOn
<1>5. CASE EthStart(t)
  BY <1>5 DEF EthStart
<1>6. QED
  BY <1>1, <1>2, <1>3, <1>4, <1>5 DEF SetNet

LEMMA ExclusiveStep ==
    ASSUME TypeOK, BootGate, SetNetExclusive, OnlyStopAborts, [Next]_vars
    PROVE  SetNetExclusive' /\ OnlyStopAborts'
<1> USE Kinds, GotoAt, RestartInv, QuietStep, SetNetStep
    DEF InSetNet, PastStop, Restart, OnlyStopAborts, appVars, ethVars
<1>1. CASE BootStep
  BY <1>1, BootExclusive DEF BootStep, Boot, BootAborts, BootReturns, CreateSleeper
<1>2. CASE MainStep
  BY <1>2
  DEF MainStep, WaitLink, MainResume, ResumeSleeper, StartServing, TakeRequest,
      TryCall, CheckRegistered, Dial, PanicOn, GiveUp,
      DropCall, NoAnswerRestart
<1>3. ASSUME NEW c \in Callers, PressKey(c) \/ CallStep(c) \/ RemoteStep(c)
      PROVE  SetNetExclusive' /\ OnlyStopAborts'
  <2>1. CASE CallStep(c)
    BY <2>1
    DEF CallStep, CheckCallStarted, ClaimCall, ClearRegistered, SuspendInCall,
        SuspendSleeper, RaiseRequest
  <2>2. CASE PressKey(c) \/ CallCommand(c) \/ RebootCommand(c)
    BY <2>2 DEF PressKey, CallCommand, SuspendSleeper, RebootCommand
  <2>3. CASE EndCallCommand(c)
    BY <2>3 DEF EndCallCommand, PanicOn, EndDialog, TypeOK, PcTyped
  <2>4. QED
    BY <1>3, <2>1, <2>2, <2>3 DEF RemoteStep
<1>4. ASSUME NEW c \in WsTasks, WsStep(c)
      PROVE  SetNetExclusive' /\ OnlyStopAborts'
  BY <1>4, WsDoes DEF SetSipLabels, StartLabels
<1>5. ASSUME NEW t \in Starters, StartStep(t)
      PROVE  SetNetExclusive' /\ OnlyStopAborts'
  BY <1>5, StartDoes DEF StartLabels
<1>6. ASSUME NEW w \in WebTimers, WebStep(w)
      PROVE  SetNetExclusive' /\ OnlyStopAborts'
  BY <1>6
  DEF WebStep, InitWeb, SuspendSleeper, TimeoutCheck, TimeoutResume, ResumeSleeper
<1>7. ASSUME NEW s \in Stacks, SipEvent(s) \/ EndStep(s)
      PROVE  SetNetExclusive' /\ OnlyStopAborts'
  <2>1. CASE SipRegistered(s) \/ SipUnregistered(s) \/ SessionBegin(s)
    BY <2>1 DEF SipRegistered, SipUnregistered, SessionBegin
  <2>2. CASE Incoming(s)
    BY <2>2 DEF Incoming, SuspendSleeper
  <2>3. CASE EndDialog(s)
    BY <2>3 DEF EndDialog, TypeOK, PcTyped
  <2>4. CASE EndStep(s)
    BY <2>4
    DEF EndStep, ReleaseCall, CheckCount, ResumeAfterSession, ResumeSleeper
  <2>5. QED
    BY <1>7, <2>1, <2>2, <2>3, <2>4 DEF SipEvent
<1>8. CASE LightSleep \/ WokenByGpio
  BY <1>8 DEF LightSleep, WokenByGpio
<1>9. CASE LinkUp \/ LinkDown \/ GotIp \/ UNCHANGED vars
  BY <1>9 DEF LinkUp, LinkDown, GotIp, RtcInit, vars
<1>10. QED
  BY <1>1, <1>2, <1>3, <1>4, <1>5, <1>6, <1>7, <1>8, <1>9 DEF Next

LEMMA ExclusiveInit == Init => SetNetExclusive /\ OnlyStopAborts
BY DEF Init, PowerOn, SetNetExclusive, OnlyStopAborts, InSetNet, PastStop

(* At most one task is ever between esp_eth_stop and esp_eth_start, though *)
(* set_net takes no lock: the failing esp_eth_stop keeps the others out.   *)
THEOREM SetNetExclusiveCorrect == Spec => []SetNetExclusive
<1>1. TypeOK /\ BootGate /\ (SetNetExclusive /\ OnlyStopAborts) /\ [Next]_vars
        => (SetNetExclusive /\ OnlyStopAborts)'
  BY ExclusiveStep
<1>2. QED
  BY <1>1, ExclusiveInit, TypeCorrect, BootGateCorrect, PTL DEF Spec

(* In set_net no check but that of esp_eth_stop ever fails.                *)
THEOREM OnlyStopAbortsCorrect == Spec => []OnlyStopAborts
<1>1. TypeOK /\ BootGate /\ (SetNetExclusive /\ OnlyStopAborts) /\ [Next]_vars
        => (SetNetExclusive /\ OnlyStopAborts)'
  BY ExclusiveStep
<1>2. QED
  BY <1>1, ExclusiveInit, TypeCorrect, BootGateCorrect, PTL DEF Spec

-----------------------------------------------------------------------------
(* CountedOnce.                                                            *)

(* Only TakeRequest counts, and only RaiseRequest raises; every other step *)
(* leaves both numbers alone, and does not bring Main to its wait while the*)
(* request is up.                                                          *)
LEMMA CountedOnceStep ==
    ASSUME TypeOK, CountedOnce, [Next]_vars
    PROVE  CountedOnce'
<1> USE Kinds, GotoAt, RestartInv DEF TypeOK, CountedOnce, Restart, appVars, ethVars
<1>1. ASSUME NEW t \in Tasks, SetNet(t), t # Sleeper, t \notin WebTimers
      PROVE  CountedOnce'
  BY <1>1, SetNetDoes DEF AfterSetNet, SetNetLabels, PastStop
<1>2. CASE BootStep
  BY <1>2
  DEF BootStep, Boot, BootAborts, BootReturns, CreateSleeper, SetNetLabels
<1>3. CASE MainStep
  <2>1. CASE WaitLink \/ MainResume \/ NoAnswerRestart
    BY <2>1 DEF WaitLink, MainResume, ResumeSleeper, NoAnswerRestart
  <2>2. CASE TakeRequest
    BY <2>2 DEF TakeRequest
  <2>3. CASE StartServing
    BY <2>3 DEF StartServing
  <2>4. CASE TryCall \/ CheckRegistered \/ Dial \/ GiveUp \/ DropCall
    BY <2>4 DEF TryCall, CheckRegistered, Dial, PanicOn, GiveUp, DropCall
  <2>5. QED
    BY <1>1, <1>3, <2>1, <2>2, <2>3, <2>4 DEF MainStep
<1>4. ASSUME NEW c \in Callers, PressKey(c) \/ CallStep(c) \/ RemoteStep(c)
      PROVE  CountedOnce'
  <2>1. CASE CallStep(c)
    BY <1>1, <2>1
    DEF CallStep, CheckCallStarted, ClaimCall, ClearRegistered, SuspendInCall,
        SuspendSleeper, RaiseRequest
  <2>2. CASE PressKey(c) \/ CallCommand(c) \/ RebootCommand(c)
    BY <2>2 DEF PressKey, CallCommand, SuspendSleeper, RebootCommand
  <2>3. CASE EndCallCommand(c)
    BY <2>3 DEF EndCallCommand, PanicOn, EndDialog, PcTyped
  <2>4. QED
    BY <1>4, <2>1, <2>2, <2>3 DEF RemoteStep
<1>5. ASSUME NEW c \in WsTasks, WsStep(c)
      PROVE  CountedOnce'
  BY <1>5, WsDoes
<1>6. ASSUME NEW t \in Starters, StartStep(t)
      PROVE  CountedOnce'
  BY <1>6, StartDoes
<1>7. ASSUME NEW w \in WebTimers, WebStep(w)
      PROVE  CountedOnce'
  BY <1>7
  DEF WebStep, InitWeb, SuspendSleeper, TimeoutCheck, TimeoutResume, ResumeSleeper
<1>8. ASSUME NEW s \in Stacks, SipEvent(s) \/ EndStep(s)
      PROVE  CountedOnce'
  <2>1. CASE SipRegistered(s) \/ SipUnregistered(s) \/ SessionBegin(s)
    BY <2>1 DEF SipRegistered, SipUnregistered, SessionBegin
  <2>2. CASE Incoming(s)
    BY <2>2 DEF Incoming, SuspendSleeper
  <2>3. CASE EndDialog(s)
    BY <2>3 DEF EndDialog, PcTyped
  <2>4. CASE EndStep(s)
    BY <1>1, <2>4
    DEF EndStep, ReleaseCall, CheckCount, ResumeAfterSession, ResumeSleeper
  <2>5. QED
    BY <1>8, <2>1, <2>2, <2>3, <2>4 DEF SipEvent
<1>9. CASE LightSleep \/ WokenByGpio
  BY <1>9 DEF LightSleep, WokenByGpio
<1>10. CASE LinkUp \/ LinkDown \/ GotIp \/ UNCHANGED vars
  BY <1>10 DEF LinkUp, LinkDown, GotIp, RtcInit, vars
<1>11. QED
  BY <1>2, <1>3, <1>4, <1>5, <1>6, <1>7, <1>8, <1>9, <1>10 DEF Next

(* count_s never runs ahead of the requests of call().                     *)
THEOREM CountedOnceCorrect == Spec => []CountedOnce
<1>1. Init => CountedOnce
  BY Kinds DEF Init, CountedOnce
<1>2. TypeOK /\ CountedOnce /\ [Next]_vars => CountedOnce'
  BY CountedOnceStep
<1>3. QED
  BY <1>1, <1>2, TypeCorrect, PTL DEF Spec

-----------------------------------------------------------------------------
(* DanglesBySecondStore.                                                   *)

(* An instance about to be stored for the first time is live, esp_sip does *)
(* not name it yet, and no other task has it in hand: so no SetSip can be  *)
(* about to stop it.                                                       *)
HandleInv ==
    \A t \in Starters : pc[t] = "sip_store" /\ held[t] # NULL =>
        /\ Live(held[t])
        /\ esp_sip # held[t]
        /\ \A u \in Starters \ {t} : held[u] # held[t]

(* A step that leaves the handles and the instances alone keeps HandleInv, *)
(* and does not make esp_sip dangle.                                       *)
LEMMA HandlesAlone ==
    ASSUME HandleInv, UNCHANGED sipVars,
           \A s \in Stacks : Live(s)' = Live(s),
           held \in [Starters -> Stacks \cup {NULL}], esp_sip \in Stacks \cup {NULL},
           \A t \in Starters : pc'[t] = "sip_store" => pc[t] = "sip_store",
           \A c \in WsTasks : pc[c] \in SetSipLabels => pc'[c] \in SetSipLabels
    PROVE  HandleInv' /\ ~(~Dangling /\ Dangling')
BY DEF HandleInv, Dangling, sipVars, Live

(* Nor does a restart.                                                     *)
LEMMA HandleRestart ==
    ASSUME NEW why, NEW flash, RestartWith(why, flash)
    PROVE  HandleInv' /\ ~Dangling'
<1>1. \A t \in Starters : pc'[t] = "idle"
  BY PowerOnAt, Kinds DEF RestartWith
<1>2. QED
  BY <1>1 DEF RestartWith, HandleInv, Dangling

(* The new instance of RtcInit is named by nothing.                        *)
LEMMA RtcInitHandles ==
    ASSUME TypeOK, HandleInv, NEW t \in Starters, RtcInit(t),
           t = Loop \/ pc[t] = "sip_init"
    PROVE  HandleInv' /\ ~(~Dangling /\ Dangling')
<1> USE Kinds DEF TypeOK
<1>1. PICK new \in Unnamed \cup {NULL} :
         /\ held' = [held EXCEPT ![t] = new]
         /\ dialog' = [s \in Stacks |-> IF s = new THEN "idle" ELSE dialog[s]]
  BY DEF RtcInit
<1>2. \A u \in Tasks : pc'[u] = IF u = t THEN "sip_store" ELSE pc[u]
  BY GotoAt DEF RtcInit
<1>3. esp_sip' = esp_sip
  BY DEF RtcInit
<1>4. \A s \in Stacks : Live(s) => Live(s)'
  BY <1>1 DEF Live
<1>5. \A u \in Starters : held'[u] = IF u = t THEN new ELSE held[u]
  BY <1>1
<1>6. new # NULL => Live(new)' /\ esp_sip # new /\ \A u \in Starters : held[u] # new
  BY <1>1 DEF Unnamed, Live
<1>7. HandleInv'
  <2> SUFFICES ASSUME NEW u \in Starters, pc'[u] = "sip_store", held'[u] # NULL
               PROVE  /\ Live(held[u])' /\ esp_sip' # held'[u]
                      /\ \A v \in Starters \ {u} : held'[v] # held'[u]
    BY DEF HandleInv
  <2>1. CASE u = t
    BY <2>1, <1>3, <1>5, <1>6 DEF Live
  <2>2. CASE u # t
    <3>1. pc[u] = "sip_store" /\ held'[u] = held[u]
      BY <2>2, <1>2, <1>5
    <3>2. held[u] \in Stacks /\ Live(held[u]) /\ esp_sip # held[u]
          /\ \A v \in Starters \ {u} : held[v] # held[u]
      BY <3>1, <2>2 DEF HandleInv
    <3>3. new # held[u]
      BY <3>2, <1>6, <2>2, <3>1
    <3>4. QED
      BY <3>1, <3>2, <3>3, <1>3, <1>4, <1>5 DEF Live
  <2>3. QED
    BY <2>1, <2>2
<1>8. ~(~Dangling /\ Dangling')
  BY <1>2, <1>3, <1>4 DEF Dangling, SetSipLabels, StartLabels
<1>9. QED
  BY <1>7, <1>8

(* The stores: the first one names a live instance, the second one is the  *)
(* one that may not.                                                       *)
LEMMA StartHandles ==
    ASSUME TypeOK, HandleInv, NEW t \in Starters, StartStep(t)
    PROVE  HandleInv' /\ (~Dangling /\ Dangling' => SecondStore(t))
<1> USE Kinds DEF TypeOK, Live, StartLabels, SetSipLabels
<1>1. PICK next \in {"sip_return", "sip_again", "idle"} :
         \A u \in Tasks : pc'[u] = IF u = t THEN next ELSE pc[u]
  BY StartDoes, GotoAt
<1>2. CASE StoreHandle(t)
  BY <1>1, <1>2 DEF StoreHandle, HandleInv, Dangling
<1>3. CASE ReturnHandle(t)
  <2>1. PICK handle \in {held[t], esp_sip} : held' = [held EXCEPT ![t] = handle]
    BY <1>3 DEF ReturnHandle
  <2>2. pc'[t] = "sip_again" /\ UNCHANGED <<esp_sip, dialog>>
    BY <1>3, GotoAt DEF ReturnHandle
  <2>3. HandleInv'
    BY <1>1, <2>1, <2>2 DEF HandleInv
  <2>4. ~(~Dangling /\ Dangling')
    BY <1>1, <2>2, <1>3 DEF ReturnHandle, Dangling
  <2>5. QED
    BY <2>3, <2>4
<1>4. CASE StoreAgain(t)
  <2>1. /\ pc[t] = "sip_again" /\ pc'[t] = "idle" /\ UNCHANGED dialog
        /\ esp_sip' = held[t] /\ held' = [held EXCEPT ![t] = NULL]
    BY <1>4, GotoAt DEF StoreAgain
  <2>2. HandleInv'
    BY <1>1, <2>1 DEF HandleInv
  <2>3. Dangling' => SecondStore(t)
    BY <2>1 DEF Dangling, SecondStore
  <2>4. QED
    BY <2>2, <2>3
<1>5. QED
  BY <1>2, <1>3, <1>4 DEF StartStep

(* SetSip takes what esp_sip names, which nobody is about to store.        *)
LEMMA WsHandles ==
    ASSUME TypeOK, HandleInv, NEW c \in WsTasks, WsStep(c)
    PROVE  HandleInv' /\ ~(~Dangling /\ Dangling')
<1> USE Kinds DEF TypeOK
<1>1. CASE SetSip(c)
  <2>1. \A u \in Tasks : pc'[u] = IF u = c THEN "sip_stop" ELSE pc[u]
    BY <1>1, GotoAt DEF SetSip
  <2>2. QED
    BY <1>1, <2>1 DEF SetSip, HandleInv, Live, Dangling, SetSipLabels
<1>2. CASE SetSipStop(c)
  <2>1. CASE PanicOn(held[c])
    BY <2>1, HandleRestart DEF PanicOn, Restart
  <2>2. CASE ~PanicOn(held[c])
    <3>1. \A u \in Tasks : pc'[u] = IF u = c THEN "sip_init" ELSE pc[u]
      BY <1>2, <2>2, GotoAt DEF SetSipStop
    <3>2. QED
      BY <1>2, <2>2, <3>1 DEF SetSipStop, HandleInv, Live, Dangling, SetSipLabels
  <2>3. QED
    BY <2>1, <2>2
<1>3. CASE SetSipStart(c)
  BY <1>3, RtcInitHandles DEF SetSipStart
<1>4. CASE SetNetwork(c)
  <2>1. \A u \in Tasks : pc'[u] = IF u = c THEN "commit" ELSE pc[u]
    BY <1>4, GotoAt DEF SetNetwork
  <2>2. pc[c] = "idle" /\ UNCHANGED <<sipVars, dialog>>
    BY <1>4 DEF SetNetwork
  <2>3. QED
    BY <2>1, <2>2, HandlesAlone DEF Live, SetSipLabels, StartLabels
<1>5. CASE CommitNetwork(c)
  BY <1>5, HandleRestart DEF CommitNetwork
<1>6. QED
  BY <1>1, <1>2, <1>3, <1>4, <1>5 DEF WsStep

LEMMA HandleStep ==
    ASSUME TypeOK, HandleInv, [Next]_vars
    PROVE  /\ HandleInv'
           /\ ~Dangling /\ Dangling' => \E t \in Starters : SecondStore(t)
<1> USE Kinds, GotoAt, HandleRestart, HandlesAlone
    DEF TypeOK, Restart, Live, appVars, SetSipLabels, StartLabels
<1>1. ASSUME NEW t \in Tasks, SetNet(t)
      PROVE  HandleInv' /\ ~(~Dangling /\ Dangling')
  BY <1>1, SetNetDoes DEF AfterSetNet, SetNetLabels, PastStop
<1>2. CASE BootStep
  BY <1>2
  DEF BootStep, Boot, BootAborts, BootReturns, CreateSleeper, SetNetLabels
<1>3. CASE MainStep
  <2>1. CASE WaitLink \/ MainResume \/ NoAnswerRestart
    BY <2>1 DEF WaitLink, MainResume, ResumeSleeper, NoAnswerRestart
  <2>2. CASE TakeRequest \/ StartServing
    BY <2>2 DEF TakeRequest, StartServing
  <2>3. CASE TryCall \/ CheckRegistered \/ GiveUp \/ DropCall
    BY <2>3 DEF TryCall, CheckRegistered, GiveUp, DropCall
  <2>4. CASE Dial
    BY <2>4 DEF Dial, PanicOn
  <2>5. QED
    BY <1>1, <1>3, <2>1, <2>2, <2>3, <2>4 DEF MainStep
<1>4. ASSUME NEW c \in Callers, PressKey(c) \/ CallStep(c) \/ RemoteStep(c)
      PROVE  HandleInv' /\ ~(~Dangling /\ Dangling')
  <2>1. CASE CallStep(c)
    BY <1>1, <2>1
    DEF CallStep, CheckCallStarted, ClaimCall, ClearRegistered, SuspendInCall,
        SuspendSleeper, RaiseRequest
  <2>2. CASE PressKey(c) \/ CallCommand(c) \/ RebootCommand(c)
    BY <2>2 DEF PressKey, CallCommand, SuspendSleeper, RebootCommand
  <2>3. CASE EndCallCommand(c)
    BY <2>3 DEF EndCallCommand, PanicOn, EndDialog, PcTyped
  <2>4. QED
    BY <1>4, <2>1, <2>2, <2>3 DEF RemoteStep
<1>5. CASE GotIp
  BY <1>5, RtcInitHandles DEF GotIp
<1>6. ASSUME NEW w \in WebTimers, WebStep(w)
      PROVE  HandleInv' /\ ~(~Dangling /\ Dangling')
  BY <1>6
  DEF WebStep, InitWeb, SuspendSleeper, TimeoutCheck, TimeoutResume, ResumeSleeper
<1>7. ASSUME NEW s \in Stacks, SipEvent(s) \/ EndStep(s)
      PROVE  HandleInv' /\ ~(~Dangling /\ Dangling')
  <2>1. CASE SipRegistered(s) \/ SipUnregistered(s) \/ SessionBegin(s)
    BY <2>1 DEF SipRegistered, SipUnregistered, SessionBegin
  <2>2. CASE Incoming(s)
    BY <2>2 DEF Incoming, SuspendSleeper
  <2>3. CASE EndDialog(s)
    BY <2>3 DEF EndDialog, PcTyped
  <2>4. CASE EndStep(s)
    BY <1>1, <2>4
    DEF EndStep, ReleaseCall, CheckCount, ResumeAfterSession, ResumeSleeper
  <2>5. QED
    BY <1>7, <2>1, <2>2, <2>3, <2>4 DEF SipEvent
<1>8. CASE LightSleep \/ WokenByGpio
  BY <1>8 DEF LightSleep, WokenByGpio
<1>9. CASE LinkUp \/ LinkDown \/ UNCHANGED vars
  BY <1>9 DEF LinkUp, LinkDown, vars
<1>10. QED
  BY <1>2, <1>3, <1>4, <1>5, <1>6, <1>7, <1>8, <1>9, WsHandles, StartHandles
  DEF Next

(* Whatever makes esp_sip dangle is the second store of a handle.          *)
THEOREM DanglesBySecondStoreCorrect == Spec => DanglesBySecondStore
<1>1. Init => HandleInv
  BY Kinds DEF Init, PowerOn, HandleInv
<1>2. TypeOK /\ HandleInv /\ [Next]_vars
        => HandleInv' /\ (~Dangling /\ Dangling' => \E t \in Starters : SecondStore(t))
  BY HandleStep
<1>3. QED
  BY <1>1, <1>2, TypeCorrect, PTL DEF Spec, DanglesBySecondStore

-----------------------------------------------------------------------------
(* AbortsExplained.                                                        *)

(* Outside mode Enabled nobody but Main is in set_net, unless a SetNetwork *)
(* has just changed the mode and is about to restart the device.           *)
QuietInv ==
    eco_mode # "Enabled" /\ (\A c \in WsTasks : pc[c] # "commit") =>
        \A t \in Callers \cup Stacks : pc[t] \notin SetNetLabels

(* Where esp_eth_stop can fail, the driver is stopped, by another task.    *)
LEMMA StopFails ==
    ASSUME TypeOK, BootGate, SetNetExclusive, QuietInv, NEW t \in Tasks,
           t # Sleeper, t \notin WebTimers, t # Loop,
           pc[t] = "stop", eth # "started"
    PROVE  eco_mode = "Enabled" \/ \E c \in WsTasks : pc[c] = "commit"
<1> SUFFICES ASSUME eco_mode # "Enabled", \A c \in WsTasks : pc[c] # "commit"
             PROVE  FALSE
  OBVIOUS
<1>1. t = Main
  BY DEF Tasks, QuietInv, SetNetLabels
<1>2. eth = "stopped"
  BY <1>1 DEF TypeOK, BootGate, Running
<1>3. PICK u \in Tasks : InSetNet(u)
  BY <1>2 DEF SetNetExclusive
<1>4. u \notin Callers \cup Stacks /\ u # Main
  BY <1>1, <1>3 DEF QuietInv, InSetNet, SetNetLabels, PastStop
<1>5. QED
  BY <1>3, <1>4
  DEF Tasks, TypeOK, PcTyped, InSetNet, PastStop, SleepLabels, TimerLabels,
      LoopLabels, StartLabels

(* A restart keeps QuietInv, whatever the mode the flash holds.            *)
LEMMA QuietRestart ==
    ASSUME NEW why, NEW flash, RestartWith(why, flash)
    PROVE  QuietInv' /\ cause' = why
<1>1. \A u \in Tasks : pc'[u] \in {"reset", "top", "idle"}
  BY PowerOnAt DEF RestartWith
<1>2. QED
  BY <1>1, Kinds DEF RestartWith, QuietInv, SetNetLabels, PastStop

LEMMA QuietSetNet ==
    ASSUME TypeOK, BootGate, SetNetExclusive, OnlyStopAborts', QuietInv,
           NEW t \in Tasks, t # Sleeper, t \notin WebTimers, t # Loop, SetNet(t)
    PROVE  QuietInv' /\ (cause' # cause => AbortExplained)
<1>1. CASE \E why \in {"abort_stop", "abort_setup"} : RestartWith(why, nvs_eco)
  <2>1. QuietInv' /\ cause' = "abort_stop"
    BY <1>1, QuietRestart DEF OnlyStopAborts
  <2>2. CASE pc[t] = "stop" /\ eth # "started"
    BY <2>1, <2>2, StopFails DEF AbortExplained
  <2>3. CASE ~(pc[t] = "stop" /\ eth # "started")
    <3>1. cause' = "abort_setup" \/ cause' = cause
      BY <2>3, GotoAt
      DEF SetNet, EthStop, AutonegOff, SetSpeed, AutonegOn, EthStart, DriverCall,
          Restart, RestartWith
    <3>2. QED
      BY <2>1, <3>1
  <2>4. QED
    BY <2>2, <2>3
<1>2. CASE ~(\E why \in {"abort_stop", "abort_setup"} : RestartWith(why, nvs_eco))
  <2>1. /\ pc[t] \in SetNetLabels /\ UNCHANGED <<eco_mode, cause>>
        /\ \E next \in SetNetLabels \cup {AfterSetNet(t)} : Goto(t, next)
    BY <1>2, SetNetDoes DEF appVars
  <2>2. QED
    BY <2>1, GotoAt, Kinds DEF QuietInv, AfterSetNet, SetNetLabels, PastStop
<1>3. QED
  BY <1>1, <1>2

LEMMA QuietInvStep ==
    ASSUME TypeOK, BootGate, SetNetExclusive, OnlyStopAborts', QuietInv, [Next]_vars
    PROVE  QuietInv' /\ (cause' # cause => AbortExplained)
<1> USE Kinds, GotoAt, QuietRestart
    DEF TypeOK, QuietInv, AbortExplained, Restart, SetNetLabels, PastStop, appVars
<1>1. CASE BootStep
  BY <1>1 DEF BootStep, Boot, BootAborts, BootReturns, CreateSleeper
<1>2. CASE MainStep
  <2>1. CASE SetNet(Main)
    BY <2>1, QuietSetNet
  <2>2. CASE MainResume
    BY <2>2 DEF MainResume, ResumeSleeper, BootGate, Running
  <2>3. CASE WaitLink \/ StartServing \/ TakeRequest \/ NoAnswerRestart
    BY <2>3 DEF WaitLink, StartServing, TakeRequest, NoAnswerRestart
  <2>4. CASE TryCall \/ CheckRegistered \/ Dial \/ GiveUp \/ DropCall
    BY <2>4 DEF TryCall, CheckRegistered, Dial, PanicOn, GiveUp, DropCall
  <2>5. QED
    BY <1>2, <2>1, <2>2, <2>3, <2>4 DEF MainStep
<1>3. ASSUME NEW c \in Callers, PressKey(c) \/ CallStep(c) \/ RemoteStep(c)
      PROVE  QuietInv' /\ (cause' # cause => AbortExplained)
  <2>1. CASE SetNet(c)
    BY <2>1, QuietSetNet
  <2>2. CASE CallStep(c) /\ ~SetNet(c)
    BY <2>2
    DEF CallStep, CheckCallStarted, ClaimCall, ClearRegistered, SuspendInCall,
        SuspendSleeper, RaiseRequest
  <2>3. CASE PressKey(c) \/ CallCommand(c) \/ RebootCommand(c)
    BY <2>3 DEF PressKey, CallCommand, SuspendSleeper, RebootCommand
  <2>4. CASE EndCallCommand(c)
    BY <2>4 DEF EndCallCommand, PanicOn, EndDialog, PcTyped
  <2>5. QED
    BY <1>3, <2>1, <2>2, <2>3, <2>4 DEF RemoteStep
<1>4. ASSUME NEW c \in WsTasks, WsStep(c)
      PROVE  QuietInv' /\ (cause' # cause => AbortExplained)
  <2>1. CASE SetNetwork(c)
    BY <2>1 DEF SetNetwork
  <2>2. CASE SetSip(c) \/ SetSipStop(c)
    BY <2>2 DEF SetSip, SetSipStop, PanicOn
  <2>3. CASE SetSipStart(c)
    BY <2>3 DEF SetSipStart, RtcInit
  <2>4. CASE CommitNetwork(c)
    BY <2>4 DEF CommitNetwork
  <2>5. QED
    BY <1>4, <2>1, <2>2, <2>3, <2>4 DEF WsStep
<1>5. ASSUME NEW t \in Starters, StartStep(t)
      PROVE  QuietInv' /\ (cause' # cause => AbortExplained)
  BY <1>5, StartDoes DEF StartLabels
<1>6. ASSUME NEW w \in WebTimers, WebStep(w)
      PROVE  QuietInv' /\ (cause' # cause => AbortExplained)
  BY <1>6
  DEF WebStep, InitWeb, SuspendSleeper, TimeoutCheck, TimeoutResume,
      ResumeSleeper, BootGate, Serving, Running
<1>7. ASSUME NEW s \in Stacks, SipEvent(s) \/ EndStep(s)
      PROVE  QuietInv' /\ (cause' # cause => AbortExplained)
  <2>1. CASE SipRegistered(s) \/ SipUnregistered(s) \/ SessionBegin(s)
    BY <2>1 DEF SipRegistered, SipUnregistered, SessionBegin
  <2>2. CASE Incoming(s)
    BY <2>2 DEF Incoming, SuspendSleeper
  <2>3. CASE EndDialog(s)
    BY <2>3 DEF EndDialog, PcTyped
  <2>4. CASE ReleaseCall(s) \/ CheckCount(s)
    BY <2>4 DEF ReleaseCall, CheckCount
  <2>5. CASE SetNet(s)
    BY <2>5, QuietSetNet
  <2>6. CASE ResumeAfterSession(s)
    BY <2>6 DEF ResumeAfterSession, ResumeSleeper, BootGate, Serving, Running
  <2>7. QED
    BY <1>7, <2>1, <2>2, <2>3, <2>4, <2>5, <2>6 DEF SipEvent, EndStep
<1>8. CASE LightSleep \/ WokenByGpio
  BY <1>8 DEF LightSleep, WokenByGpio
<1>9. CASE LinkUp \/ LinkDown \/ GotIp \/ UNCHANGED vars
  BY <1>9 DEF LinkUp, LinkDown, GotIp, RtcInit, vars
<1>10. QED
  BY <1>1, <1>2, <1>3, <1>4, <1>5, <1>6, <1>7, <1>8, <1>9 DEF Next

(* Outside mode Enabled, SetNetwork apart, no check of set_net restarts the*)
(* device; before a session ends, no vTaskResume does.                     *)
THEOREM AbortsExplainedCorrect == Spec => AbortsExplained
<1>1. Init => QuietInv
  BY Kinds DEF Init, PowerOn, QuietInv, SetNetLabels, PastStop
<1>2. TypeOK /\ BootGate /\ SetNetExclusive /\ OnlyStopAborts' /\ QuietInv
        /\ [Next]_vars
        => QuietInv' /\ (cause' # cause => AbortExplained)
  BY QuietInvStep
<1>3. QED
  BY <1>1, <1>2, TypeCorrect, BootGateCorrect, SetNetExclusiveCorrect,
     OnlyStopAbortsCorrect, PTL DEF Spec, AbortsExplained

=============================================================================
