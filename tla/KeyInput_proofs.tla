-------------------------- MODULE KeyInput_proofs --------------------------
(***************************************************************************)
(* Proofs about the key input, for any set of buttons, any queue length    *)
(* and any number of presses: the types, that every press is told from end *)
(* to end, and that the callback hears a button's events in order.         *)
(***************************************************************************)
EXTENDS KeyInput, TLAPS

\* What button_get_state answers, condition by condition.
LEMMA StatusMeans ==
  ASSUME NEW b \in Buttons, TypeOK
  PROVE  /\ Status(b) = PRESSED <=> level[b] = ACTIVE /\ ~pressed[b]
         /\ Status(b) = RELEASE <=> level[b] # ACTIVE /\ pressed[b] /\ ~late[b]
         /\ Status(b) = LONG_PRESSED <=>
              level[b] = ACTIVE /\ pressed[b] /\ late[b] /\ ~longPressed[b]
         /\ Status(b) = LONG_RELEASE <=> level[b] # ACTIVE /\ pressed[b] /\ late[b]
         /\ Status(b) \in Actions \cup {0}
  <1>1. CASE level[b] = ACTIVE /\ ~pressed[b]
    BY <1>1, SMT DEF Status, PRESSED, RELEASE, LONG_PRESSED, LONG_RELEASE, Actions
  <1>2. CASE level[b] # ACTIVE /\ pressed[b] /\ late[b]
    BY <1>2, SMT DEF Status, PRESSED, RELEASE, LONG_PRESSED, LONG_RELEASE, Actions
  <1>3. CASE level[b] # ACTIVE /\ pressed[b] /\ ~late[b]
    BY <1>3, SMT DEF Status, PRESSED, RELEASE, LONG_PRESSED, LONG_RELEASE, Actions
  <1>4. CASE level[b] = ACTIVE /\ pressed[b] /\ late[b] /\ ~longPressed[b]
    BY <1>4, SMT DEF Status, PRESSED, RELEASE, LONG_PRESSED, LONG_RELEASE, Actions
  <1>5. CASE \/ level[b] # ACTIVE /\ ~pressed[b]
             \/ level[b] = ACTIVE /\ pressed[b] /\ (~late[b] \/ longPressed[b])
    BY <1>5, SMT DEF Status, PRESSED, RELEASE, LONG_PRESSED, LONG_RELEASE, Actions
  <1> QED
    BY <1>1, <1>2, <1>3, <1>4, <1>5

-----------------------------------------------------------------------------
LEMMA TypeInit == Init => TypeOK
  <1> SUFFICES ASSUME Init PROVE TypeOK
    OBVIOUS
  <1>1. <<>> \in Seq(Event) /\ Len(<<>>) = 0 /\ 0 <= QueueLen
    BY QueueLenAssumption, SMT
  <1>2. mask \in [Actions -> SUBSET Buttons]
    BY DEF Init
  <1>3. cmds \in 0 .. QueueLen /\ level \in [Buttons -> {0, 1}]
    BY QueueLenAssumption, SMT DEF Init
  <1> QED
    BY <1>1, <1>2, <1>3 DEF Init, TypeOK

LEMMA TypeStep == TypeOK /\ [Next]_vars => TypeOK'
  <1> SUFFICES ASSUME TypeOK, [Next]_vars PROVE TypeOK'
    OBVIOUS
  <1>a. CmdFromIsr => cmds' \in 0 .. QueueLen
    BY QueueLenAssumption, SMT DEF CmdFromIsr, TypeOK
  <1>1. ASSUME NEW b \in Buttons, Edge(b) PROVE TypeOK'
    <2>1. level' \in [Buttons -> {0, 1}]
      BY <1>1, SMT DEF Edge, TypeOK
    <2>2. cmds' \in 0 .. QueueLen
      BY <1>1, <1>a DEF Edge, TypeOK
    <2> QED
      BY <1>1, <2>1, <2>2 DEF Edge, TypeOK, itemVars, keyVars
  <1>2. ASSUME NEW b \in Buttons, Grow(b) PROVE TypeOK'
    BY <1>2 DEF Grow, TypeOK, gpioVars, keyVars
  <1>3. CASE Tick
    BY <1>3, <1>a DEF Tick, TypeOK, gpioVars, itemVars, keyVars
  <1>4. CASE ButtonInit
    BY <1>4 DEF ButtonInit, TypeOK, taskVars, itemVars, keyVars
  <1>5. CASE ReadButtons
    <2>1. cmds' \in 0 .. QueueLen
      BY <1>5, QueueLenAssumption, SMT DEF ReadButtons, TypeOK
    <2>2. mask' \in [Actions -> SUBSET Buttons]
      BY <1>5 DEF ReadButtons
    <2>3. /\ pressed' \in [Buttons -> BOOLEAN]
          /\ late' \in [Buttons -> BOOLEAN]
          /\ longPressed' \in [Buttons -> BOOLEAN]
      <3>1. \A b \in Buttons : (late[b] /\ level[b] = ACTIVE) \in BOOLEAN
        OBVIOUS
      <3>2. \A b \in Buttons :
              (Status(b) = LONG_PRESSED \/ (longPressed[b] /\ Status(b) = 0)) \in BOOLEAN
        OBVIOUS
      <3> QED
        BY <1>5, <3>1, <3>2, Zenon DEF ReadButtons
    <2>4. press' \in [Buttons -> Nat]
      <3>1. \A b \in Buttons :
              (IF Status(b) = PRESSED THEN press[b] + 1 ELSE press[b]) \in Nat
        BY SMT DEF TypeOK
      <3> QED
        BY <1>5, <3>1 DEF ReadButtons
    <2> QED
      BY <1>5, <2>1, <2>2, <2>3, <2>4 DEF ReadButtons, TypeOK, gpioVars, keyVars
  <1>6. ASSUME NEW a \in Actions, NEW b \in Buttons, SendEvent(a, b) PROVE TypeOK'
    <2> DEFINE e == [gpio |-> b, action |-> a, press |-> press[b]]
    <2>1. e \in Event
      BY DEF Event, TypeOK
    <2>2. mask' \in [Actions -> SUBSET Buttons]
      BY <1>6 DEF SendEvent, TypeOK
    <2>3. events' \in Seq(Event) /\ Len(events') <= QueueLen /\ missed' \subseteq Event
      <3> HIDE DEF e
      <3>1. CASE Len(events) < QueueLen /\ events' = Append(events, e) /\ UNCHANGED missed
        BY <2>1, <3>1, QueueLenAssumption, SMT DEF TypeOK
      <3>2. CASE missed' = missed \cup {e} /\ UNCHANGED events
        BY <2>1, <3>2 DEF TypeOK
      <3> QED
        BY <1>6, <3>1, <3>2 DEF SendEvent, e
    <2> QED
      BY <1>6, <2>2, <2>3 DEF SendEvent, TypeOK, gpioVars, itemVars, keyVars
  <1>7. CASE AppMain
    BY <1>7
       DEF AppMain, SetCallback, RegisterGpioWakeup, WaitGpioInactive, TypeOK,
           gpioVars, taskVars, itemVars, keyVars
  <1>8. CASE Receive
    <2>1. Head(events) \in Event /\ Tail(events) \in Seq(Event)
          /\ Len(Tail(events)) <= QueueLen
      BY <1>8, QueueLenAssumption, SMT DEF Receive, TypeOK
    <2> QED
      BY <1>8, <2>1 DEF Receive, TypeOK, gpioVars, itemVars
  <1>9. CASE Ignore \/ Callback \/ CallReturns
    BY <1>9
       DEF Ignore, Callback, CallReturns, TypeOK, gpioVars, taskVars, itemVars
  <1>10. CASE UNCHANGED vars
    BY <1>10 DEF vars, TypeOK, gpioVars, taskVars, itemVars, keyVars
  <1> QED
    BY <1>1, <1>2, <1>3, <1>4, <1>5, <1>6, <1>7, <1>8, <1>9, <1>10
       DEF Next, PeriphTask, KeyService

\* Every variable of the key input has its type, and neither queue is ever
\* longer than it was made.
THEOREM KeyTypeCorrect == Spec => []TypeOK
  BY TypeInit, TypeStep, PTL DEF Spec

-----------------------------------------------------------------------------
\* The events made of a button, each as its kind and the number of its press.
ToldOf(b) ==
  {x \in Actions \X Nat : [gpio |-> b, action |-> x[1], press |-> x[2]] \in Made}

\* The inductive form of PressesTold for one button, with the events told of
\* it, the number of its last press, and whether that goes on (down), for
\* long, and is known to.  No event is about a press to come, and LONG_PRESSED
\* is remembered as long as the press lasts.
Well(told, n, down, long, known) ==
  /\ (long => down) /\ (known => long) /\ (down => n > 0)
  /\ \A x \in told : x[2] \in 1 .. n
  /\ down /\ <<LONG_PRESSED, n>> \in told => known
  /\ \A i \in 1 .. n :
       /\ <<PRESSED, i>> \in told
       /\ (i < n \/ ~down) <=> (<<RELEASE, i>> \in told \/ <<LONG_RELEASE, i>> \in told)
       /\ <<RELEASE, i>> \in told =>
            <<LONG_RELEASE, i>> \notin told /\ <<LONG_PRESSED, i>> \notin told

ToldInv ==
  \A b \in Buttons :
    Well(ToldOf(b), press[b], pressed[b], late[b], longPressed[b])

LEMMA Numbers ==
  /\ PRESSED = 1 /\ RELEASE = 2 /\ LONG_PRESSED = 3 /\ LONG_RELEASE = 4
  /\ Actions = 1 .. 4
  BY DEF PRESSED, RELEASE, LONG_PRESSED, LONG_RELEASE, Actions

\* ToldInv says what PressesTold says.
LEMMA ToldInvTells == TypeOK /\ ToldInv => PressesTold
  <1> SUFFICES ASSUME TypeOK, ToldInv, NEW b \in Buttons, NEW n \in 1 .. press[b]
               PROVE  LET told(a) == [gpio |-> b, action |-> a, press |-> n] \in Made
                          over == n < press[b] \/ ~pressed[b]
                      IN  /\ told(PRESSED)
                          /\ over <=> told(RELEASE) \/ told(LONG_RELEASE)
                          /\ told(RELEASE) => ~told(LONG_RELEASE) /\ ~told(LONG_PRESSED)
    BY DEF PressesTold
  <1>1. n \in Nat
    BY SMT DEF TypeOK
  <1>2. \A a \in Actions :
          <<a, n>> \in ToldOf(b) <=> [gpio |-> b, action |-> a, press |-> n] \in Made
    BY <1>1 DEF ToldOf
  <1>3. Well(ToldOf(b), press[b], pressed[b], late[b], longPressed[b])
    BY DEF ToldInv
  <1> QED
    BY <1>2, <1>3, Numbers DEF Well

\* At the start there is no press, and no event.
LEMMA ToldInit == Init => ToldInv
  <1> SUFFICES ASSUME Init, NEW b \in Buttons
               PROVE  Well(ToldOf(b), press[b], pressed[b], late[b], longPressed[b])
    BY DEF ToldInv
  <1>1. Pending = {}
    BY DEF Init, Pending
  <1>2. Queued = {}
    BY DEF Init, Queued
  <1>3. Made = {None}
    BY <1>1, <1>2 DEF Init, Made
  <1>4. \A a \in Actions, n \in Nat : [gpio |-> b, action |-> a, press |-> n] # None
    BY Numbers, SMT DEF None
  <1>5. ToldOf(b) = {}
    BY <1>3, <1>4 DEF ToldOf
  <1>6. press[b] = 0 /\ ~pressed[b] /\ ~late[b] /\ ~longPressed[b]
    BY DEF Init
  <1> QED
    BY <1>5, <1>6, SMT DEF Well

\* One look at a button, with its events and fields before and after.
LEMMA WellRead ==
  ASSUME NEW told \in SUBSET (Actions \X Nat), NEW n \in Nat,
         NEW down \in BOOLEAN, NEW long \in BOOLEAN, NEW known \in BOOLEAN,
         Well(told, n, down, long, known)
  PROVE  /\ ~down => Well(told \cup {<<PRESSED, n + 1>>}, n + 1, TRUE, FALSE, FALSE)
         /\ down /\ ~long => Well(told \cup {<<RELEASE, n>>}, n, FALSE, FALSE, FALSE)
         /\ down /\ long /\ ~known =>
              Well(told \cup {<<LONG_PRESSED, n>>}, n, TRUE, TRUE, TRUE)
         /\ down /\ long => Well(told \cup {<<LONG_RELEASE, n>>}, n, FALSE, FALSE, FALSE)
         /\ down => Well(told, n, TRUE, TRUE, known)
  <1> USE Numbers
  <1>1. CASE ~down
    <2>1. \A a \in Actions : <<a, n + 1>> \notin told
      BY SMT DEF Well
    <2> QED
      BY <1>1, <2>1, SMT DEF Well
  <1>2. CASE down /\ ~long
    BY <1>2, SMT DEF Well
  <1>3. CASE down /\ long
    BY <1>3, SMT DEF Well
  <1> QED
    BY <1>1, <1>2, <1>3

\* A step that makes no event and changes of the buttons at most late.
LEMMA ToldKept ==
  ASSUME TypeOK, ToldInv, UNCHANGED <<pressed, longPressed, press>>,
         \A b \in Buttons : (late[b] => late'[b]) /\ (late'[b] => late[b] \/ pressed[b]),
         Made' \ {None} = Made \ {None}
  PROVE  ToldInv'
  <1> SUFFICES ASSUME NEW b \in Buttons
               PROVE  Well(ToldOf(b)', press[b], pressed[b], late'[b], longPressed[b])
    BY DEF ToldInv
  <1>1. \A a \in Actions, n \in Nat : [gpio |-> b, action |-> a, press |-> n] # None
    BY Numbers, SMT DEF None
  <1>2. ToldOf(b)' = ToldOf(b)
    BY <1>1 DEF ToldOf
  <1>3. Well(ToldOf(b), press[b], pressed[b], late[b], longPressed[b])
    BY DEF ToldInv
  <1> QED
    BY <1>2, <1>3 DEF Well

\* Sampling the buttons makes exactly one event for each change.
LEMMA ToldRead == TypeOK /\ ToldInv /\ ReadButtons => ToldInv'
  <1> SUFFICES ASSUME TypeOK, ToldInv, ReadButtons, NEW b \in Buttons
               PROVE  Well(ToldOf(b)', press'[b], pressed'[b], late'[b], longPressed'[b])
    BY DEF ToldInv
  <1>1. /\ press' = [c \in Buttons |-> IF Status(c) = PRESSED THEN press[c] + 1 ELSE press[c]]
        /\ pressed' = [c \in Buttons |-> level[c] = ACTIVE]
        /\ late' = [c \in Buttons |-> late[c] /\ level[c] = ACTIVE]
        /\ longPressed' = [c \in Buttons |->
              Status(c) = LONG_PRESSED \/ (longPressed[c] /\ Status(c) = 0)]
        /\ mask' = [a \in Actions |-> {c \in Buttons : Status(c) = a}]
    BY Zenon DEF ReadButtons
  <1> USE Numbers
  <1>0. UNCHANGED <<events, msg, heard, missed>>
    BY DEF ReadButtons, keyVars
  <1>2. press'[b] = IF Status(b) = PRESSED THEN press[b] + 1 ELSE press[b]
    BY <1>1
  <1>3. /\ pressed'[b] <=> level[b] = ACTIVE
        /\ late'[b] <=> late[b] /\ level[b] = ACTIVE
        /\ longPressed'[b] <=> Status(b) = LONG_PRESSED \/ (longPressed[b] /\ Status(b) = 0)
    BY <1>1, Zenon
  <1>4. /\ press[b] \in Nat /\ pressed[b] \in BOOLEAN /\ late[b] \in BOOLEAN
        /\ longPressed[b] \in BOOLEAN /\ ToldOf(b) \in SUBSET (Actions \X Nat)
        /\ press'[b] \in Nat /\ pressed'[b] \in BOOLEAN /\ late'[b] \in BOOLEAN
        /\ longPressed'[b] \in BOOLEAN
    <2>1. TypeOK'
      BY TypeStep DEF Next, PeriphTask
    <2> QED
      BY <2>1 DEF TypeOK, ToldOf
  <1>5. \A x \in Actions \X Nat :
          x \in ToldOf(b)' <=> x \in ToldOf(b) \/ x = <<Status(b), press'[b]>>
    <2> SUFFICES ASSUME NEW a \in Actions, NEW n \in Nat
                 PROVE  <<a, n>> \in ToldOf(b)' <=>
                          <<a, n>> \in ToldOf(b) \/ (a = Status(b) /\ n = press'[b])
      OBVIOUS
    <2> DEFINE e == [gpio |-> b, action |-> a, press |-> n]
    <2>1. Pending = {}
      BY DEF ReadButtons, Idle, Pending
    <2>2. e \in Pending' <=> a = Status(b) /\ n = press'[b]
      <3>1. e \in Pending' <=>
              \E x \in Actions : \E c \in mask'[x] :
                 e = [gpio |-> c, action |-> x, press |-> press'[c]]
        BY DEF Pending
      <3>2. \A x \in Actions, c \in Buttons :
              e = [gpio |-> c, action |-> x, press |-> press'[c]] <=>
                b = c /\ a = x /\ n = press'[c]
        OBVIOUS
      <3>3. \A x \in Actions, c \in Buttons : c \in mask'[x] <=> Status(c) = x
        BY <1>1
      <3>4. \A x \in Actions : mask'[x] \subseteq Buttons
        BY <1>1
      <3> HIDE DEF e
      <3> QED
        BY <3>1, <3>2, <3>3, <3>4
    <2>3. Queued' = Queued
      BY <1>0 DEF Queued
    <2>4. e \in Made' <=> e \in Made \/ (a = Status(b) /\ n = press'[b])
      BY <1>0, <2>1, <2>2, <2>3 DEF Made
    <2> QED
      BY <2>4 DEF ToldOf
  <1>6. Well(ToldOf(b), press[b], pressed[b], late[b], longPressed[b])
    BY DEF ToldInv
  <1>7. ToldOf(b)' = IF Status(b) = 0 THEN ToldOf(b)
                                      ELSE ToldOf(b) \cup {<<Status(b), press'[b]>>}
    <2>1. ToldOf(b)' \subseteq Actions \X Nat /\ ToldOf(b) \subseteq Actions \X Nat
      BY DEF ToldOf
    <2>2. Status(b) = 0 => <<Status(b), press'[b]>> \notin Actions \X Nat
      BY SMT
    <2>3. Status(b) # 0 => <<Status(b), press'[b]>> \in Actions \X Nat
      BY <1>4, StatusMeans
    <2> HIDE DEF ToldOf
    <2> QED
      BY <1>5, <2>1, <2>2, <2>3
  <1>8. (late[b] => pressed[b]) /\ (longPressed[b] => late[b])
    BY <1>6 DEF Well
  <1>9. CASE Status(b) = PRESSED
    <2>1. level[b] = ACTIVE /\ ~pressed[b]
      BY <1>9, StatusMeans
    <2>2. press'[b] = press[b] + 1
      BY <1>2, <1>9
    <2>3. pressed'[b] /\ ~late'[b] /\ ~longPressed'[b]
      BY <1>3, <1>8, <1>9, <2>1
    <2>4. Well(ToldOf(b) \cup {<<PRESSED, press[b] + 1>>}, press[b] + 1, TRUE, FALSE, FALSE)
      BY <1>4, <1>6, <2>1, WellRead
    <2>5. ToldOf(b)' = ToldOf(b) \cup {<<PRESSED, press[b] + 1>>}
      BY <1>7, <1>9, <2>2
    <2> QED
      BY <2>2, <2>3, <2>4, <2>5 DEF Well
  <1>10. CASE Status(b) = RELEASE
    <2>1. level[b] # ACTIVE /\ pressed[b] /\ ~late[b]
      BY <1>10, StatusMeans
    <2>2. press'[b] = press[b]
      BY <1>2, <1>10
    <2>3. ~pressed'[b] /\ ~late'[b] /\ ~longPressed'[b]
      BY <1>3, <1>8, <1>10, <2>1
    <2>4. Well(ToldOf(b) \cup {<<RELEASE, press[b]>>}, press[b], FALSE, FALSE, FALSE)
      BY <1>4, <1>6, <2>1, WellRead
    <2>5. ToldOf(b)' = ToldOf(b) \cup {<<RELEASE, press[b]>>}
      BY <1>7, <1>10, <2>2
    <2> QED
      BY <2>2, <2>3, <2>4, <2>5 DEF Well
  <1>11. CASE Status(b) = LONG_PRESSED
    <2>1. level[b] = ACTIVE /\ pressed[b] /\ late[b] /\ ~longPressed[b]
      BY <1>11, StatusMeans
    <2>2. press'[b] = press[b]
      BY <1>2, <1>11
    <2>3. pressed'[b] /\ late'[b] /\ longPressed'[b]
      <3>1. longPressed'[b]
        BY <1>3, <1>11
      <3> QED
        BY <1>3, <2>1, <3>1
    <2>4. Well(ToldOf(b) \cup {<<LONG_PRESSED, press[b]>>}, press[b], TRUE, TRUE, TRUE)
      BY <1>4, <1>6, <2>1, WellRead
    <2>5. ToldOf(b)' = ToldOf(b) \cup {<<LONG_PRESSED, press[b]>>}
      BY <1>7, <1>11, <2>2
    <2> QED
      BY <2>2, <2>3, <2>4, <2>5 DEF Well
  <1>12. CASE Status(b) = LONG_RELEASE
    <2>1. level[b] # ACTIVE /\ pressed[b] /\ late[b]
      BY <1>12, StatusMeans
    <2>2. press'[b] = press[b]
      BY <1>2, <1>12
    <2>3. ~pressed'[b] /\ ~late'[b] /\ ~longPressed'[b]
      BY <1>3, <1>8, <1>12, <2>1
    <2>4. Well(ToldOf(b) \cup {<<LONG_RELEASE, press[b]>>}, press[b], FALSE, FALSE, FALSE)
      BY <1>4, <1>6, <2>1, WellRead
    <2>5. ToldOf(b)' = ToldOf(b) \cup {<<LONG_RELEASE, press[b]>>}
      BY <1>7, <1>12, <2>2
    <2> QED
      BY <2>2, <2>3, <2>4, <2>5 DEF Well
  <1>13. CASE Status(b) = 0
    <2>1. (level[b] = ACTIVE) = pressed[b]
      BY <1>4, <1>13, StatusMeans
    <2>2. /\ press'[b] = press[b] /\ pressed'[b] = pressed[b] /\ late'[b] = late[b]
          /\ longPressed'[b] = longPressed[b]
      BY <1>2, <1>3, <1>4, <1>8, <1>13, <2>1
    <2> QED
      BY <1>6, <1>7, <1>13, <2>2
  <1> QED
    BY <1>9, <1>10, <1>11, <1>12, <1>13, StatusMeans

\* What Append and Tail do to the elements of a sequence.
Elements(s) == {s[i] : i \in DOMAIN s}

LEMMA AppendedRange ==
  ASSUME NEW S, NEW s \in Seq(S), NEW x
  PROVE  Elements(Append(s, x)) = Elements(s) \cup {x}
  <1> DEFINE r == Append(s, x)
  <1>1. Len(s) \in Nat /\ DOMAIN s = 1 .. Len(s) /\ DOMAIN r = 1 .. Len(s) + 1
    BY SMT
  <1>2. \A i \in 1 .. Len(s) : r[i] = s[i]
    BY SMT
  <1>3. r[Len(s) + 1] = x
    BY SMT
  <1>4. \A i \in 1 .. Len(s) + 1 : i \in 1 .. Len(s) \/ i = Len(s) + 1
    BY <1>1, SMT
  <1>5. 1 .. Len(s) \subseteq 1 .. Len(s) + 1 /\ Len(s) + 1 \in 1 .. Len(s) + 1
    BY <1>1, SMT
  <1> HIDE DEF r
  <1>6. {r[i] : i \in DOMAIN r} = {s[i] : i \in DOMAIN s} \cup {x}
    BY <1>1, <1>2, <1>3, <1>4, <1>5, Zenon
  <1> QED
    BY <1>6 DEF r, Elements

LEMMA HeadRange ==
  ASSUME NEW S, NEW s \in Seq(S), s # <<>>
  PROVE  Elements(s) = Elements(Tail(s)) \cup {Head(s)}
  <1> DEFINE r == Tail(s)
             n == Len(s)
  <1>1. n \in Nat /\ n > 0 /\ DOMAIN s = 1 .. n /\ DOMAIN r = 1 .. n - 1 /\ Head(s) = s[1]
    BY SMT
  <1>2. \A i \in 1 .. n - 1 : i + 1 \in 1 .. n /\ r[i] = s[i + 1]
    BY <1>1, SMT
  <1>3. ASSUME NEW i \in 1 .. n, i # 1
        PROVE  i - 1 \in 1 .. n - 1 /\ r[i - 1] = s[i]
    <2>1. i - 1 \in 1 .. n - 1 /\ (i - 1) + 1 = i
      BY <1>1, <1>3, SMT
    <2>2. \A j \in 1 .. n - 1 : r[j] = s[j + 1]
      BY <1>2
    <2> HIDE DEF r
    <2> QED
      BY <2>1, <2>2
  <1>4. 1 \in 1 .. n
    BY <1>1, SMT
  <1> HIDE DEF r, n
  <1>5. {s[i] : i \in DOMAIN s} = {r[i] : i \in DOMAIN r} \cup {Head(s)}
    <2>1. \A i \in 1 .. n : s[i] \in {r[j] : j \in 1 .. n - 1} \cup {s[1]}
      BY <1>3, Zenon
    <2>2. \A j \in 1 .. n - 1 : r[j] \in {s[i] : i \in 1 .. n}
      BY <1>2, Zenon
    <2> QED
      BY <1>1, <1>4, <2>1, <2>2, Zenon
  <1> QED
    BY <1>5 DEF r, Elements

\* The other steps only move events on.
LEMMA MadeKept ==
  ASSUME TypeOK,
         \/ \E a \in Actions, b \in Buttons : SendEvent(a, b)
         \/ Receive \/ Ignore \/ Callback
  PROVE  Made' \ {None} = Made \ {None}
  <1>1. ASSUME NEW a \in Actions, NEW b \in Buttons, SendEvent(a, b)
        PROVE  Made' = Made
    <2> DEFINE e == [gpio |-> b, action |-> a, press |-> press[b]]
    <2>1. e \in Pending /\ Pending = Pending' \cup {e}
      BY <1>1 DEF SendEvent, NextBit, Pending, itemVars, TypeOK
    <2> HIDE DEF e
    <2>2. CASE events' = Append(events, e) /\ missed' = missed
      <3>1. Elements(Append(events, e)) = Elements(events) \cup {e}
        <4>1. events \in Seq(Event)
          BY DEF TypeOK
        <4> QED
          BY <4>1, AppendedRange
      <3>2. Queued' = Queued \cup {e}
        BY <2>2, <3>1 DEF Queued, Elements
      <3> QED
        BY <1>1, <2>1, <2>2, <3>2 DEF SendEvent, Made, keyVars
    <2>3. CASE missed' = missed \cup {e} /\ events' = events
      <3>1. Queued' = Queued
        BY <2>3 DEF Queued
      <3> QED
        BY <1>1, <2>1, <2>3, <3>1 DEF SendEvent, Made, keyVars
    <2> QED
      BY <1>1, <2>2, <2>3 DEF SendEvent, e
  <1>2. Receive \/ Ignore \/ Callback => Pending' = Pending
    BY DEF Receive, Ignore, Callback, Pending, taskVars, itemVars
  <1>3. CASE Receive
    <2>1. Queued = Queued' \cup {msg'}
      <3>1. events \in Seq(Event) /\ events # <<>>
        BY <1>3 DEF Receive, TypeOK
      <3>2. Elements(events) = Elements(Tail(events)) \cup {Head(events)}
        BY <3>1, HeadRange
      <3> QED
        BY <1>3, <3>2 DEF Receive, Queued, Elements
    <2>2. msg = None
      BY <1>3 DEF Receive, TypeOK
    <2> QED
      BY <1>2, <1>3, <2>1, <2>2 DEF Receive, Made
  <1>4. CASE Ignore \/ Callback
    <2>1. Queued' = Queued
      BY <1>4 DEF Ignore, Callback, Queued, taskVars
    <2> QED
      BY <1>2, <1>4, <2>1 DEF Ignore, Callback, Made
  <1> QED
    BY <1>1, <1>3, <1>4

LEMMA ToldStep == TypeOK /\ ToldInv /\ [Next]_vars => ToldInv'
  <1> SUFFICES ASSUME TypeOK, ToldInv, [Next]_vars PROVE ToldInv'
    OBVIOUS
  <1>1. CASE ReadButtons
    BY <1>1, ToldRead
  <1>2. CASE (\E a \in Actions, b \in Buttons : SendEvent(a, b))
             \/ Receive \/ Ignore \/ Callback
    <2>1. UNCHANGED <<pressed, late, longPressed, press>>
      BY <1>2 DEF SendEvent, Receive, Ignore, Callback, taskVars, itemVars
    <2>2. Made' \ {None} = Made \ {None}
      BY <1>2, MadeKept
    <2> QED
      BY <2>1, <2>2, ToldKept
  <1>3. CASE \/ \E b \in Buttons : Edge(b) \/ Grow(b)
             \/ Tick \/ ButtonInit \/ AppMain \/ CallReturns \/ UNCHANGED vars
    <2>1. UNCHANGED <<pressed, longPressed, press, mask, events, msg, heard, missed>>
      BY <1>3
         DEF Edge, Grow, Tick, ButtonInit, AppMain, SetCallback, RegisterGpioWakeup,
             WaitGpioInactive, CallReturns, vars, gpioVars, taskVars, itemVars, keyVars
    <2>2. Made' = Made
      BY <2>1 DEF Made, Pending, Queued
    <2>3. \A b \in Buttons : (late[b] => late'[b]) /\ (late'[b] => late[b] \/ pressed[b])
      <3>1. ASSUME NEW c \in Buttons, Grow(c), NEW b \in Buttons
            PROVE  (late[b] => late'[b]) /\ (late'[b] => late[b] \/ pressed[b])
        <4>1. late' = [late EXCEPT ![c] = TRUE] /\ pressed[c]
          BY <3>1 DEF Grow
        <4> QED
          BY <4>1 DEF TypeOK
      <3>2. CASE UNCHANGED late
        BY <3>2
      <3> QED
        BY <1>3, <3>1, <3>2
           DEF Edge, Tick, ButtonInit, AppMain, SetCallback, RegisterGpioWakeup,
               WaitGpioInactive, CallReturns, vars, taskVars, itemVars
    <2> QED
      BY <2>1, <2>2, <2>3, ToldKept
  <1> QED
    BY <1>1, <1>2, <1>3 DEF Next, PeriphTask, KeyService

\* Every press of every button is told from end to end: PRESSED, and once it
\* is over exactly one release, the short one only if no LONG_PRESSED came.
THEOREM PressesToldCorrect == Spec => []PressesTold
  BY TypeInit, TypeStep, ToldInit, ToldStep, ToldInvTells, PTL DEF Spec

-----------------------------------------------------------------------------
\* Two events of one button, the first of which happened earlier.
InLine(e, f) == e.gpio = f.gpio => Before(e, f)

\* The events on their way stand in line: heard, then msg, then the queue,
\* then the masks, and of each button at most one is in the masks.
OrderInv ==
  /\ \A e \in heard, i \in DOMAIN events : InLine(e, events[i])
  /\ \A i, j \in DOMAIN events : i < j => InLine(events[i], events[j])
  /\ \A e \in heard \cup Queued, p \in Pending : InLine(e, p)
  /\ key = "callback" =>
       /\ \A e \in heard : InLine(e, msg)
       /\ \A i \in DOMAIN events : InLine(msg, events[i])
       /\ \A p \in Pending : InLine(msg, p)
  /\ \A a, c \in Actions : a # c => mask[a] \cap mask[c] = {}

\* An event that is told was made before what button_get_state says next.
LEMMA ToldBefore ==
  ASSUME TypeOK, ToldInv, ReadButtons,
         NEW e \in Event, e \in Made, Status(e.gpio) # 0
  PROVE  \/ e.press < press'[e.gpio]
         \/ e.press = press'[e.gpio] /\ e.action < Status(e.gpio)
  <1> DEFINE b == e.gpio
             n == e.press
             a == e.action
             told == ToldOf(b)
  <1>1. b \in Buttons /\ n \in Nat /\ a \in Actions /\ press[b] \in Nat
    BY DEF Event, TypeOK
  <1>2. <<a, n>> \in told
    <2>1. e = [gpio |-> b, action |-> a, press |-> n]
      BY DEF Event
    <2> HIDE DEF b, n, a
    <2> QED
      BY <1>1, <2>1 DEF ToldOf
  <1>3. Well(told, press[b], pressed[b], late[b], longPressed[b])
    BY <1>1 DEF ToldInv
  <1>4. press'[b] = IF Status(b) = PRESSED THEN press[b] + 1 ELSE press[b]
    BY <1>1 DEF ReadButtons
  <1>5. n \in 1 .. press[b]
    BY <1>2, <1>3 DEF Well
  <1> HIDE DEF b, n, a, told
  <1> USE Numbers
  <1>6. CASE Status(b) = PRESSED
    BY <1>1, <1>4, <1>5, <1>6, SMT DEF b, n, a
  <1>7. ASSUME Status(b) # PRESSED, n = press[b], pressed[b]
        PROVE  a \in {PRESSED, LONG_PRESSED} /\ (a = LONG_PRESSED => longPressed[b])
    <2>1. a # RELEASE /\ a # LONG_RELEASE
      <3>1. <<RELEASE, n>> \notin told /\ <<LONG_RELEASE, n>> \notin told
        <4>1. (n < press[b] \/ ~pressed[b]) <=>
                (<<RELEASE, n>> \in told \/ <<LONG_RELEASE, n>> \in told)
          BY <1>3, <1>5 DEF Well
        <4>2. ~(n < press[b]) /\ pressed[b]
          BY <1>1, <1>7, SMT
        <4> QED
          BY <4>1, <4>2, Zenon
      <3> QED
        BY <1>2, <3>1
    <2>2. a = LONG_PRESSED => longPressed[b]
      BY <1>2, <1>3, <1>7 DEF Well
    <2> QED
      BY <1>1, <2>1, <2>2, SMT
  <1>8. CASE Status(b) # PRESSED
    <2>1. press'[b] = press[b]
      BY <1>4, <1>8
    <2>2. pressed[b]
      BY <1>1, <1>8, StatusMeans DEF b
    <2>3. CASE n < press[b]
      BY <2>1, <2>3 DEF b, n
    <2>4. CASE n = press[b]
      <3>1. a \in {PRESSED, LONG_PRESSED} /\ (a = LONG_PRESSED => longPressed[b])
        BY <1>7, <1>8, <2>2, <2>4
      <3>2. longPressed[b] => late[b]
        BY <1>3 DEF Well
      <3>3. a < Status(b)
        <4>1. CASE Status(b) = RELEASE
          BY <1>1, <3>1, <3>2, <4>1, StatusMeans, SMT
        <4>2. CASE Status(b) = LONG_PRESSED
          BY <1>1, <3>1, <3>2, <4>2, StatusMeans, SMT
        <4>3. CASE Status(b) = LONG_RELEASE
          BY <3>1, <4>3, SMT
        <4> QED
          BY <1>1, <1>8, <4>1, <4>2, <4>3, StatusMeans DEF b
      <3> QED
        BY <2>1, <2>4, <3>3 DEF b, n, a
    <2> QED
      BY <1>1, <1>5, <2>3, <2>4, SMT
  <1> QED
    BY <1>6, <1>8

LEMMA OrderInit == Init => OrderInv
  <1> SUFFICES ASSUME Init PROVE OrderInv
    OBVIOUS
  <1>1. Pending = {} /\ DOMAIN events = {} /\ Queued = {}
    BY DEF Init, Pending, Queued
  <1>2. \A a \in Actions : mask[a] = {}
    BY DEF Init
  <1> QED
    BY <1>1, <1>2 DEF Init, OrderInv

\* What is sampled stands behind everything that is on its way.
LEMMA OrderRead == TypeOK /\ ToldInv /\ OrderInv /\ ReadButtons => OrderInv'
  <1> SUFFICES ASSUME TypeOK, ToldInv, OrderInv, ReadButtons PROVE OrderInv'
    OBVIOUS
  <1>1. UNCHANGED <<events, msg, heard, key>>
    BY DEF ReadButtons, keyVars
  <1>2. mask' = [a \in Actions |-> {c \in Buttons : Status(c) = a}]
    BY DEF ReadButtons
  <1>3. ASSUME NEW e \in Event, e \in Made, NEW p \in Pending' PROVE InLine(e, p)
    <2>1. PICK a \in Actions, b \in Buttons :
            b \in mask'[a] /\ p = [gpio |-> b, action |-> a, press |-> press'[b]]
      BY <1>2 DEF Pending
    <2>2. Status(b) = a /\ a # 0
      BY <1>2, <2>1, Numbers, SMT
    <2>3. p.gpio = b /\ p.action = a /\ p.press = press'[b]
      BY <2>1
    <2>4. CASE e.gpio = b
      BY <1>3, <2>2, <2>3, <2>4, ToldBefore DEF InLine, Before
    <2> QED
      BY <2>3, <2>4 DEF InLine
  <1>4. \A e \in heard \cup Queued : e \in Event /\ e \in Made
    BY DEF TypeOK, Queued, Made
  <1>5. key = "callback" => msg \in Event /\ msg \in Made
    BY DEF TypeOK, Made
  <1>6. Queued' = Queued
    BY <1>1 DEF Queued
  <1>7. \A a, c \in Actions : a # c => mask'[a] \cap mask'[c] = {}
    BY <1>2
  <1> QED
    BY <1>1, <1>3, <1>4, <1>5, <1>6, <1>7 DEF OrderInv

\* The event sent is the last of the queue, and nothing of its button stays
\* in the masks.
LEMMA OrderSend ==
  ASSUME TypeOK, OrderInv, NEW a \in Actions, NEW b \in Buttons, SendEvent(a, b)
  PROVE  OrderInv'
  <1> DEFINE e == [gpio |-> b, action |-> a, press |-> press[b]]
  <1>1. e \in Pending /\ Pending' \subseteq Pending
    BY DEF SendEvent, NextBit, Pending, itemVars, TypeOK
  <1>2. \A p \in Pending' : p.gpio # e.gpio
    <2> SUFFICES ASSUME NEW c \in Actions, NEW d \in mask'[c] PROVE d # b
      BY DEF Pending
    <2>1. b \in mask[a] /\ mask' = [mask EXCEPT ![a] = @ \ {b}]
      BY DEF SendEvent, NextBit
    <2> QED
      BY <2>1 DEF OrderInv, TypeOK
  <1>3. UNCHANGED <<key, msg, heard>>
    BY DEF SendEvent, keyVars
  <1>4. \A x, y \in Actions : x # y => mask'[x] \cap mask'[y] = {}
    BY DEF SendEvent, OrderInv, TypeOK
  <1> HIDE DEF e
  <1>5. CASE events' = events
    <2>1. Queued' = Queued
      BY <1>5 DEF Queued
    <2> QED
      BY <1>1, <1>3, <1>4, <1>5, <2>1 DEF OrderInv
  <1>6. CASE events' = Append(events, e)
    <2>1. DOMAIN events' = 1 .. Len(events) + 1 /\ DOMAIN events = 1 .. Len(events)
          /\ Len(events) \in Nat
      BY <1>6, SMT DEF TypeOK
    <2>2. \A i \in DOMAIN events : events'[i] = events[i]
      BY <1>6, SMT DEF TypeOK
    <2>3. events'[Len(events) + 1] = e
      BY <1>6, SMT DEF TypeOK
    <2>4. \A i \in DOMAIN events' : i \in DOMAIN events \/ i = Len(events) + 1
      BY <2>1, SMT
    <2>5. \A i \in DOMAIN events : events[i] \in Queued
      BY DEF Queued
    <2>6. Queued' = Queued \cup {e}
      BY <2>1, <2>2, <2>3, <2>4 DEF Queued
    <2>7. \A x \in heard, i \in DOMAIN events' : InLine(x, events'[i])
      BY <1>1, <2>2, <2>3, <2>4 DEF OrderInv
    <2>8. \A i, j \in DOMAIN events' : i < j => InLine(events'[i], events'[j])
      <3> SUFFICES ASSUME NEW i \in DOMAIN events', NEW j \in DOMAIN events', i < j
                   PROVE  InLine(events'[i], events'[j])
        OBVIOUS
      <3>1. i \in DOMAIN events
        BY <2>1, SMT
      <3>2. CASE j \in DOMAIN events
        BY <2>2, <3>1, <3>2 DEF OrderInv
      <3>3. CASE j = Len(events) + 1
        BY <1>1, <2>2, <2>3, <2>5, <3>1, <3>3 DEF OrderInv
      <3> QED
        BY <2>4, <3>2, <3>3
    <2>9. \A p \in Pending' : InLine(e, p)
      BY <1>2 DEF InLine
    <2>10. \A x \in heard \cup Queued', p \in Pending' : InLine(x, p)
      BY <1>1, <2>6, <2>9 DEF OrderInv
    <2>11. key = "callback" =>
             /\ \A x \in heard : InLine(x, msg)
             /\ \A i \in DOMAIN events' : InLine(msg, events'[i])
             /\ \A p \in Pending' : InLine(msg, p)
      BY <1>1, <2>2, <2>3, <2>4 DEF OrderInv
    <2> QED
      BY <1>3, <1>4, <2>7, <2>8, <2>10, <2>11 DEF OrderInv
  <1> QED
    BY <1>5, <1>6 DEF SendEvent, e

\* The first of the queue becomes msg.
LEMMA OrderReceive == TypeOK /\ OrderInv /\ Receive => OrderInv'
  <1> SUFFICES ASSUME TypeOK, OrderInv, Receive PROVE OrderInv'
    OBVIOUS
  <1>1. Pending' = Pending /\ UNCHANGED <<heard, mask>> /\ key' = "callback"
        /\ msg' = Head(events) /\ events' = Tail(events)
    BY DEF Receive, Pending, itemVars
  <1>2. events \in Seq(Event) /\ events # <<>>
    BY DEF Receive, TypeOK
  <1> DEFINE n == Len(events)
  <1>3. n \in Nat /\ n > 0 /\ DOMAIN events = 1 .. n /\ DOMAIN Tail(events) = 1 .. n - 1
        /\ Head(events) = events[1]
    BY <1>2, SMT
  <1>4. \A i \in 1 .. n - 1 : i + 1 \in 1 .. n /\ Tail(events)[i] = events[i + 1]
    BY <1>2, <1>3, SMT
  <1>5. 1 \in 1 .. n /\ \A i \in 1 .. n - 1 : 1 < i + 1 /\ i \in Int
    BY <1>3, SMT
  <1> HIDE DEF n
  <1>6. \A x \in heard : InLine(x, events[1])
    BY <1>3, <1>5 DEF OrderInv
  <1>7. \A i \in 1 .. n - 1 : InLine(events[1], Tail(events)[i])
    BY <1>3, <1>4, <1>5 DEF OrderInv
  <1>8. \A i, j \in 1 .. n - 1 : i < j => InLine(Tail(events)[i], Tail(events)[j])
    <2> SUFFICES ASSUME NEW i \in 1 .. n - 1, NEW j \in 1 .. n - 1, i < j
                 PROVE  InLine(Tail(events)[i], Tail(events)[j])
      OBVIOUS
    <2>1. i + 1 < j + 1
      BY <1>3, SMT
    <2> QED
      BY <1>3, <1>4, <2>1 DEF OrderInv
  <1>9. \A x \in heard, i \in 1 .. n - 1 : InLine(x, Tail(events)[i])
    BY <1>3, <1>4 DEF OrderInv
  <1>10. Queued' \subseteq Queued /\ events[1] \in Queued
    BY <1>1, <1>3, <1>4, <1>5 DEF Queued
  <1>11. \A p \in Pending : InLine(events[1], p)
    BY <1>10 DEF OrderInv
  <1>12. \A x \in heard \cup Queued', p \in Pending : InLine(x, p)
    BY <1>10 DEF OrderInv
  <1>13. \A x, y \in Actions : x # y => mask[x] \cap mask[y] = {}
    BY DEF OrderInv
  <1> QED
    BY <1>1, <1>3, <1>6, <1>7, <1>8, <1>9, <1>11, <1>12, <1>13 DEF OrderInv

LEMMA OrderStep == TypeOK /\ ToldInv /\ OrderInv /\ [Next]_vars => OrderInv'
  <1> SUFFICES ASSUME TypeOK, ToldInv, OrderInv, [Next]_vars PROVE OrderInv'
    OBVIOUS
  <1>1. CASE ReadButtons
    BY <1>1, OrderRead
  <1>2. CASE \E a \in Actions, b \in Buttons : SendEvent(a, b)
    BY <1>2, OrderSend
  <1>3. CASE Receive
    BY <1>3, OrderReceive
  <1>4. CASE Ignore
    <2>1. Pending' = Pending /\ Queued' = Queued /\ UNCHANGED <<mask, events, heard>>
          /\ key' = "receive"
      BY <1>4 DEF Ignore, Pending, Queued, taskVars, itemVars
    <2> QED
      BY <2>1 DEF OrderInv
  <1>5. CASE Callback
    <2>1. Pending' = Pending /\ Queued' = Queued /\ UNCHANGED <<mask, events>>
          /\ key = "callback" /\ heard' = heard \cup {msg} /\ key' # "callback"
      BY <1>5 DEF Callback, Pending, Queued, taskVars, itemVars
    <2> QED
      BY <2>1 DEF OrderInv
  <1>6. CASE \/ \E b \in Buttons : Edge(b) \/ Grow(b)
             \/ Tick \/ ButtonInit \/ AppMain \/ UNCHANGED vars
    <2>1. UNCHANGED <<press, mask, events, msg, heard, key>>
      BY <1>6
         DEF Edge, Grow, Tick, ButtonInit, AppMain, SetCallback, RegisterGpioWakeup,
             WaitGpioInactive, vars, gpioVars, taskVars, itemVars, keyVars
    <2>2. Pending' = Pending /\ Queued' = Queued
      BY <2>1 DEF Pending, Queued
    <2> QED
      BY <2>1, <2>2 DEF OrderInv
  <1>7. CASE CallReturns
    <2>1. Pending' = Pending /\ Queued' = Queued /\ UNCHANGED <<mask, events, msg, heard>>
          /\ key' = "receive"
      BY <1>7 DEF CallReturns, Pending, Queued, taskVars, itemVars
    <2> QED
      BY <2>1 DEF OrderInv
  <1> QED
    BY <1>1, <1>2, <1>3, <1>4, <1>5, <1>6, <1>7 DEF Next, PeriphTask, KeyService

\* input_key_service_cb is given the events of a button in the order in which
\* they happened and none twice, however often the queues overflow.
THEOREM HeardInOrderCorrect == Spec => HeardInOrder
  <1>1. ASSUME OrderInv PROVE [key = "callback" /\ boot = "started" /\ key' # key =>
                                 \A e \in heard : e.gpio = msg.gpio => Before(e, msg)]_vars
    BY <1>1 DEF OrderInv, InLine
  <1> QED
    BY <1>1, TypeInit, TypeStep, ToldInit, ToldStep, OrderInit, OrderStep, PTL
       DEF Spec, HeardInOrder

=============================================================================
