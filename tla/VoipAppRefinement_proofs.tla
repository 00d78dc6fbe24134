---------------------- MODULE VoipAppRefinement_proofs ----------------------
(***************************************************************************)
(* VoipApp implements Terminal: each step of the core is a step of the     *)
(* abstract terminal or leaves it unchanged.                               *)
(***************************************************************************)
EXTENDS VoipAppInv_proofs

(* The invariants the step simulation rests on.                            *)
Inv == TypeOK /\ BootGate /\ SetNetExclusive /\ CountedOnce

(* The abstract owner is the one task in set_net, before and after a step. *)
LEMMA OwnerIs ==
    ASSUME SetNetExclusive
    PROVE  /\ \A t \in Tasks : InSetNet(t) => Owner = t
           /\ (\A t \in Tasks : ~InSetNet(t)) => Owner = NULL
BY DEF SetNetExclusive, Owner

LEMMA OwnerIsPrime ==
    ASSUME SetNetExclusive'
    PROVE  /\ \A t \in Tasks : InSetNet(t)' => Owner' = t
           /\ (\A t \in Tasks : ~InSetNet(t)') => Owner' = NULL
BY DEF SetNetExclusive, Owner

(* A restart of the core is a restart of the abstract terminal.            *)
LEMMA RestartRefines ==
    ASSUME NEW why, NEW flash, RestartWith(why, flash)
    PROVE  Abs!Restart
<1>1. pc' = PowerOn("reset")
  BY DEF RestartWith
<1>2. \A u \in Tasks : ~InSetNet(u)'
  BY <1>1, PowerOnAt DEF InSetNet, PastStop
<1>3. QED
  BY <1>2 DEF RestartWith, Owner, Abs!Restart

(* A step that moves no task into or out of set_net, and leaves service and*)
(* the two counts alone, is a stutter.                                     *)
LEMMA QuietRefines ==
    ASSUME SetNetExclusive, SetNetExclusive', UNCHANGED <<started, raised, count_s>>,
           \A u \in Tasks : InSetNet(u)' <=> InSetNet(u)
    PROVE  UNCHANGED Abs!tvars
<1>1. Owner' = Owner
  BY OwnerIs, OwnerIsPrime
<1>2. QED
  BY <1>1 DEF Abs!tvars

(* esp_eth_stop acquires the link, esp_eth_start releases it.              *)
LEMMA SetNetRefines ==
    ASSUME Inv, Inv', NEW t \in Tasks, SetNet(t), t # Sleeper, t \notin WebTimers
    PROVE  Abs!TNext \/ UNCHANGED Abs!tvars
<1> USE GotoAt, RestartRefines
    DEF Inv, DriverCall, Restart, InSetNet, PastStop, AfterSetNet, appVars
<1>1. CASE EthStop(t)
  <2>1. CASE eth = "started"
    <3>1. Owner = NULL
      BY <2>1, OwnerIs DEF SetNetExclusive
    <3>2. Owner' = t
      BY <1>1, <2>1, OwnerIsPrime DEF EthStop
    <3>3. (t = Main => ~started) /\ (t \in Callers => started)
      BY <1>1, <2>1 DEF EthStop, BootGate, Serving
    <3>4. Abs!Acquire(t)
      BY <1>1, <2>1, <3>1, <3>2, <3>3 DEF EthStop, Abs!Acquire
    <3>5. QED
      BY <3>4 DEF Abs!TNext
  <2>2. CASE eth # "started"
    BY <1>1, <2>2 DEF EthStop, Abs!TNext
  <2>3. QED
    BY <2>1, <2>2
<1>2. CASE AutonegOff(t)
  BY <1>2, QuietRefines DEF AutonegOff, Abs!TNext
<1>3. CASE SetSpeed(t)
  BY <1>3, QuietRefines DEF SetSpeed, Abs!TNext
<1>4. CASE AutonegOn(t)
  BY <1>4, QuietRefines DEF AutonegOn, Abs!TNext
<1>5. CASE EthStart(t)
  <2>1. CASE eth = "stopped"
    <3>1. Owner = t /\ t # NULL
      BY <1>5, OwnerIs, Kinds DEF EthStart
    <3>2. \A u \in Tasks : ~InSetNet(u)'
      BY <1>5, <2>1 DEF EthStart, SetNetExclusive
    <3>3. Owner' = NULL
      BY <3>2, OwnerIsPrime
    <3>4. Abs!Release
      BY <1>5, <2>1, <3>1, <3>3 DEF EthStart, Abs!Release
    <3>5. QED
      BY <3>4 DEF Abs!TNext
  <2>2. CASE eth # "stopped"
    BY <1>5, <2>2 DEF EthStart, Abs!TNext
  <2>3. QED
    BY <2>1, <2>2
<1>6. QED
  BY <1>1, <1>2, <1>3, <1>4, <1>5 DEF SetNet

LEMMA StepRefines ==
    ASSUME Inv, Inv', [Next]_vars
    PROVE  Abs!TNext \/ UNCHANGED Abs!tvars
<1> USE Kinds, GotoAt, RestartRefines, QuietRefines, SetNetRefines
    DEF Inv, InSetNet, PastStop, Restart, appVars, ethVars
<1>1. CASE BootStep
  BY <1>1 DEF BootStep, Boot, BootAborts, BootReturns, CreateSleeper, Abs!TNext
<1>2. CASE MainStep
  <2>1. CASE MainResume \/ NoAnswerRestart
    BY <2>1 DEF MainResume, ResumeSleeper, NoAnswerRestart, Abs!TNext
  <2>2. CASE StartServing
    <3>1. \A u \in Tasks : InSetNet(u)' <=> InSetNet(u)
      BY <2>2 DEF StartServing
    <3>2. Owner' = Owner
      BY <3>1, OwnerIs, OwnerIsPrime
    <3>3. Owner # Main
      BY <2>2, OwnerIs DEF StartServing, SetNetExclusive
    <3>4. Abs!Serve
      BY <2>2, <3>2, <3>3 DEF StartServing, BootGate, Serving, Abs!Serve
    <3>5. QED
      BY <3>4 DEF Abs!TNext
  <2>3. CASE TakeRequest
    <3>1. \A u \in Tasks : InSetNet(u)' <=> InSetNet(u)
      BY <2>3 DEF TakeRequest
    <3>2. Owner' = Owner
      BY <3>1, OwnerIs, OwnerIsPrime
    <3>3. started /\ count_s < raised
      BY <2>3 DEF TakeRequest, BootGate, Serving, CountedOnce, TypeOK
    <3>4. Abs!Take
      BY <2>3, <3>2, <3>3 DEF TakeRequest, Abs!Take
    <3>5. QED
      BY <3>4 DEF Abs!TNext
  <2>4. CASE WaitLink \/ TryCall \/ CheckRegistered \/ Dial \/ GiveUp \/ DropCall
    BY <2>4
    DEF WaitLink, TryCall, CheckRegistered, Dial, PanicOn, GiveUp, DropCall, Abs!TNext
  <2>5. QED
    BY <1>2, <2>1, <2>2, <2>3, <2>4 DEF MainStep
<1>3. ASSUME NEW c \in Callers, PressKey(c) \/ CallStep(c) \/ RemoteStep(c)
      PROVE  Abs!TNext \/ UNCHANGED Abs!tvars
  <2>1. CASE RaiseRequest(c)
    <3>1. \A u \in Tasks : InSetNet(u)' <=> InSetNet(u)
      BY <2>1 DEF RaiseRequest
    <3>2. Owner' = Owner
      BY <3>1, OwnerIs, OwnerIsPrime
    <3>3. Abs!Raise
      BY <2>1, <3>2 DEF RaiseRequest, BootGate, Abs!Raise
    <3>4. QED
      BY <3>3 DEF Abs!TNext
  <2>2. CASE CallStep(c) /\ ~RaiseRequest(c)
    BY <2>2
    DEF CallStep, CheckCallStarted, ClaimCall, ClearRegistered, SuspendInCall,
        SuspendSleeper
  <2>3. CASE PressKey(c) \/ CallCommand(c) \/ RebootCommand(c)
    BY <2>3 DEF PressKey, CallCommand, SuspendSleeper, RebootCommand, Abs!TNext
  <2>4. CASE EndCallCommand(c)
    BY <2>4 DEF EndCallCommand, PanicOn, EndDialog, TypeOK, PcTyped, Abs!TNext
  <2>5. QED
    BY <1>3, <2>1, <2>2, <2>3, <2>4 DEF RemoteStep
<1>4. ASSUME NEW c \in WsTasks, WsStep(c)
      PROVE  Abs!TNext \/ UNCHANGED Abs!tvars
  BY <1>4, WsDoes DEF SetSipLabels, StartLabels, Abs!TNext
<1>5. ASSUME NEW t \in Starters, StartStep(t)
      PROVE  Abs!TNext \/ UNCHANGED Abs!tvars
  BY <1>5, StartDoes DEF StartLabels
<1>6. ASSUME NEW w \in WebTimers, WebStep(w)
      PROVE  Abs!TNext \/ UNCHANGED Abs!tvars
  BY <1>6
  DEF WebStep, InitWeb, SuspendSleeper, TimeoutCheck, TimeoutResume,
      ResumeSleeper, Abs!TNext
<1>7. ASSUME NEW s \in Stacks, SipEvent(s) \/ EndStep(s)
      PROVE  Abs!TNext \/ UNCHANGED Abs!tvars
  <2>1. CASE SipRegistered(s) \/ SipUnregistered(s) \/ SessionBegin(s)
    BY <2>1 DEF SipRegistered, SipUnregistered, SessionBegin
  <2>2. CASE Incoming(s)
    BY <2>2 DEF Incoming, SuspendSleeper
  <2>3. CASE EndDialog(s)
    BY <2>3 DEF EndDialog, TypeOK, PcTyped
  <2>4. CASE EndStep(s)
    BY <2>4
    DEF EndStep, ReleaseCall, CheckCount, ResumeAfterSession, ResumeSleeper, Abs!TNext
  <2>5. QED
    BY <1>7, <2>1, <2>2, <2>3, <2>4 DEF SipEvent
<1>8. CASE LightSleep \/ WokenByGpio
  BY <1>8 DEF LightSleep, WokenByGpio
<1>9. CASE LinkUp \/ LinkDown \/ GotIp \/ UNCHANGED vars
  BY <1>9 DEF LinkUp, LinkDown, GotIp, RtcInit, vars
<1>10. QED
  BY <1>1, <1>2, <1>3, <1>4, <1>5, <1>6, <1>7, <1>8, <1>9 DEF Next

(* The core implements the abstract terminal.                              *)
THEOREM Refinement == Spec => ImplementsTerminal
<1>1. Init => Abs!TInit
  <2> SUFFICES ASSUME Init PROVE Abs!TInit
    OBVIOUS
  <2>1. \A u \in Tasks : ~InSetNet(u)
    BY DEF Init, PowerOn, InSetNet, PastStop
  <2>2. QED
    BY <2>1 DEF Init, Owner, Abs!TInit
<1>2. Inv /\ Inv' /\ [Next]_vars => [Abs!TNext]_(Abs!tvars)
  BY StepRefines
<1>3. TypeOK /\ BootGate /\ SetNetExclusive /\ CountedOnce => Inv
  BY DEF Inv
<1>4. QED
  BY <1>1, <1>2, <1>3, TypeCorrect, BootGateCorrect, SetNetExclusiveCorrect,
     CountedOnceCorrect, PTL
  DEF Spec, ImplementsTerminal, Abs!TSpec

=============================================================================
