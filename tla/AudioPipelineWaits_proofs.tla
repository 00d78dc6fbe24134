-------------------- MODULE AudioPipelineWaits_proofs --------------------
(***************************************************************************)
(* Proofs about what the caller of AudioPipeline and the elements' tasks   *)
(* wait for.  A task that does not run its element sleeps (IdleSleeps); a  *)
(* caller that waits for a bit has its answer under way (AnswerComes); and *)
(* audio_pipeline_wait_for_stop returns after the last access of a process *)
(* (StoppedWhenWaited).  Each rests on the order of the handlers' writes,  *)
(* which the first part states once for every handler.                     *)
(***************************************************************************)
EXTENDS AudioPipeline_proofs

-----------------------------------------------------------------------------
\* The writes these invariants look at.
MaxWait == <<"wait", "max">>
ZeroWait == <<"wait", "zero">>
RunOn == <<"isRunning", TRUE>>
RunOff == <<"isRunning", FALSE>>
State(s) == <<"state", s>>
Stopped == Set("STOPPED")
Resumed == Set("RESUMED")
Paused == Set("PAUSED")
Ended == {"STOPPED", "FINISHED"}

\* In t, no y comes before the first x.
After(t, x, y) == \A k \in DOMAIN t : t[k] = y => \E j \in 1 .. k - 1 : t[j] = x

LEMMA WriteNames ==
  /\ MaxWait # ZeroWait /\ RunOn # RunOff
  /\ Stopped # Resumed /\ Stopped # Paused /\ Resumed # Paused
  /\ \A b \in Bits : /\ Clear(b)[1] = "clear" /\ Set(b)[1] = "set" /\ Clear(b)[2] = b /\ Set(b)[2] = b
  /\ MaxWait[1] = "wait" /\ ZeroWait[1] = "wait" /\ RunOn[1] = "isRunning" /\ RunOff[1] = "isRunning"
  /\ \A s : State(s)[1] = "state" /\ State(s)[2] = s
  /\ StopDone[1] = "stopping"
  /\ <<"isOpen", FALSE>>[1] = "isOpen" /\ <<"isOpen", TRUE>>[1] = "isOpen"
  /\ \A x \in {"reset", "done", "abort"} : <<"rings", x>>[1] = "rings"
  <1>1. RunOn # RunOff
    BY Zenon DEF RunOn, RunOff
  <1>2. MaxWait # ZeroWait
    BY DEF MaxWait, ZeroWait
  <1>3. Stopped # Resumed /\ Stopped # Paused /\ Resumed # Paused
    BY DEF Stopped, Resumed, Paused, Set
  <1>4. \A b \in Bits : /\ Clear(b)[1] = "clear" /\ Set(b)[1] = "set" /\ Clear(b)[2] = b /\ Set(b)[2] = b
    BY Zenon DEF Set, Clear
  <1>5. MaxWait[1] = "wait" /\ ZeroWait[1] = "wait" /\ RunOn[1] = "isRunning" /\ RunOff[1] = "isRunning"
    BY Zenon DEF MaxWait, ZeroWait, RunOn, RunOff
  <1>6. \A s : State(s)[1] = "state" /\ State(s)[2] = s
    BY Zenon DEF State
  <1>7. /\ StopDone[1] = "stopping"
        /\ <<"isOpen", FALSE>>[1] = "isOpen" /\ <<"isOpen", TRUE>>[1] = "isOpen"
        /\ \A x \in {"reset", "done", "abort"} : <<"rings", x>>[1] = "rings"
    BY Zenon DEF StopDone
  <1> QED
    BY <1>1, <1>2, <1>3, <1>4, <1>5, <1>6, <1>7

\* What one write does to each field.
LEMMA WrittenFields ==
  ASSUME NEW r \in Record, NEW w \in Writes
  PROVE  /\ w = MaxWait => Written(r, w).wait = "max"
         /\ w \notin {MaxWait, ZeroWait} => Written(r, w).wait = r.wait
         /\ w = RunOn => Written(r, w).isRunning
         /\ w = RunOff => ~Written(r, w).isRunning
         /\ w \notin {RunOn, RunOff} => Written(r, w).isRunning = r.isRunning
         /\ \A s \in States : w = State(s) => Written(r, w).state = s
         /\ (\A s \in States : w # State(s)) => Written(r, w).state = r.state
         /\ w[1] # "taskRun" => Written(r, w).taskRun = r.taskRun
         /\ \A b \in Bits :
              b \in Written(r, w).bits <=> w = Set(b) \/ (b \in r.bits /\ w # Clear(b))
  <1> DEFINE Goal ==
         /\ w = MaxWait => Written(r, w).wait = "max"
         /\ w \notin {MaxWait, ZeroWait} => Written(r, w).wait = r.wait
         /\ w = RunOn => Written(r, w).isRunning
         /\ w = RunOff => ~Written(r, w).isRunning
         /\ w \notin {RunOn, RunOff} => Written(r, w).isRunning = r.isRunning
         /\ \A s \in States : w = State(s) => Written(r, w).state = s
         /\ (\A s \in States : w # State(s)) => Written(r, w).state = r.state
         /\ w[1] # "taskRun" => Written(r, w).taskRun = r.taskRun
         /\ \A b \in Bits :
              b \in Written(r, w).bits <=> w = Set(b) \/ (b \in r.bits /\ w # Clear(b))
  <1>1. ASSUME NEW b \in Bits, w = Set(b)
        PROVE  Goal
    <2>1. Written(r, w) = [r EXCEPT !.bits = @ \cup {b}]
      BY <1>1 DEF Written, Set
    <2>2. /\ Written(r, w).wait = r.wait /\ Written(r, w).isRunning = r.isRunning
          /\ Written(r, w).state = r.state /\ Written(r, w).taskRun = r.taskRun
          /\ Written(r, w).bits = r.bits \cup {b}
      BY <2>1, SMT DEF Record
    <2>3. \A c \in Bits : w # Clear(c) /\ (w = Set(c) <=> c = b)
      BY <1>1, WriteNames
    <2>4. w \notin {MaxWait, ZeroWait, RunOn, RunOff} /\ \A s \in States : w # State(s)
      BY <1>1, WriteNames
    <2> QED
      BY <2>2, <2>3, <2>4
  <1>2. ASSUME NEW b \in Bits, w = Clear(b)
        PROVE  Goal
    <2>1. Written(r, w) = [r EXCEPT !.bits = @ \ {b}]
      BY <1>2 DEF Written, Clear
    <2>2. /\ Written(r, w).wait = r.wait /\ Written(r, w).isRunning = r.isRunning
          /\ Written(r, w).state = r.state /\ Written(r, w).taskRun = r.taskRun
          /\ Written(r, w).bits = r.bits \ {b}
      BY <2>1, SMT DEF Record
    <2>3. \A c \in Bits : w # Set(c) /\ (w = Clear(c) <=> c = b)
      BY <1>2, WriteNames
    <2>4. w \notin {MaxWait, ZeroWait, RunOn, RunOff} /\ \A s \in States : w # State(s)
      BY <1>2, WriteNames
    <2> QED
      BY <2>2, <2>3, <2>4
  <1>3. ASSUME w[1] \notin {"set", "clear"}
        PROVE  \A b \in Bits : w # Set(b) /\ w # Clear(b)
    BY <1>3, WriteNames
  <1>4. ASSUME w[1] = "rings"
        PROVE  Goal
    <2>1. Written(r, w) = r
      BY <1>4 DEF Written
    <2> QED
      BY <2>1, <1>3, <1>4, WriteNames
  <1>5. ASSUME NEW v \in BOOLEAN, NEW f \in {"isOpen", "taskRun", "stopping"}, w = <<f, v>>
        PROVE  Goal
    <2>1. w[1] = f /\ f \notin {"set", "clear", "rings", "wait", "isRunning", "state"}
      BY <1>5
    <2>2. Written(r, w) = [r EXCEPT ![f] = v]
      BY <1>5, <2>1, Zenon DEF Written
    <2>3. /\ Written(r, w).wait = r.wait /\ Written(r, w).isRunning = r.isRunning
          /\ Written(r, w).state = r.state /\ (f # "taskRun" => Written(r, w).taskRun = r.taskRun)
          /\ Written(r, w).bits = r.bits
      BY <2>1, <2>2, SMT DEF Record
    <2> QED
      BY <1>3, <2>1, <2>3, WriteNames
  <1>6. ASSUME NEW v \in BOOLEAN, w = <<"isRunning", v>>
        PROVE  Goal
    <2>1. w[1] = "isRunning"
      BY <1>6
    <2>2. Written(r, w) = [r EXCEPT !.isRunning = v]
      BY <1>6, <2>1, Zenon DEF Written
    <2>3. /\ Written(r, w).wait = r.wait /\ Written(r, w).isRunning = v
          /\ Written(r, w).state = r.state /\ Written(r, w).taskRun = r.taskRun
          /\ Written(r, w).bits = r.bits
      BY <2>2, SMT DEF Record
    <2>4. (w = RunOn => v = TRUE) /\ (w = RunOff => v = FALSE)
      BY <1>6, Zenon DEF RunOn, RunOff
    <2>5. v = TRUE \/ v = FALSE
      OBVIOUS
    <2>6. (v = TRUE => w = RunOn) /\ (v = FALSE => w = RunOff)
      BY <1>6, Zenon DEF RunOn, RunOff
    <2> QED
      BY <1>3, <2>1, <2>3, <2>4, <2>5, <2>6, WriteNames
  <1>7. ASSUME NEW s \in States, w = <<"state", s>>
        PROVE  Goal
    <2>1. w[1] = "state" /\ w = State(s)
      BY <1>7 DEF State
    <2>2. Written(r, w) = [r EXCEPT !.state = s]
      BY <1>7 DEF Written
    <2>3. /\ Written(r, w).wait = r.wait /\ Written(r, w).isRunning = r.isRunning
          /\ Written(r, w).state = s /\ Written(r, w).taskRun = r.taskRun
          /\ Written(r, w).bits = r.bits
      BY <2>2, SMT DEF Record
    <2> QED
      BY <1>3, <2>1, <2>3, WriteNames
  <1>8. ASSUME NEW m \in {"zero", "max"}, w = <<"wait", m>>
        PROVE  Goal
    <2>1. w[1] = "wait" /\ (w = MaxWait <=> m = "max") /\ (w = ZeroWait <=> m = "zero")
      BY <1>8 DEF MaxWait, ZeroWait
    <2>2. Written(r, w) = [r EXCEPT !.wait = m]
      BY <1>8, <2>1, Zenon DEF Written
    <2>3. /\ Written(r, w).wait = m /\ Written(r, w).isRunning = r.isRunning
          /\ Written(r, w).state = r.state /\ Written(r, w).taskRun = r.taskRun
          /\ Written(r, w).bits = r.bits
      BY <2>2, SMT DEF Record
    <2> QED
      BY <1>3, <2>1, <2>3, WriteNames
  <1>9. \/ \E b \in Bits : w = Set(b) \/ w = Clear(b)
        \/ w[1] = "rings"
        \/ \E f \in {"isOpen", "taskRun", "stopping"} : \E v \in BOOLEAN : w = <<f, v>>
        \/ \E v \in BOOLEAN : w = <<"isRunning", v>>
        \/ \E s \in States : w = <<"state", s>>
        \/ \E m \in {"zero", "max"} : w = <<"wait", m>>
    <2>1. CASE w \in Ordinary
      <3>1. CASE w \in {"set", "clear"} \X {"STOPPED", "PAUSED", "RESUMED"}
        <4>1. PICK f \in {"set", "clear"}, b \in {"STOPPED", "PAUSED", "RESUMED"} : w = <<f, b>>
          BY <3>1
        <4>2. b \in Bits
          BY DEF Bits
        <4> QED
          BY <4>1, <4>2 DEF Set, Clear
      <3>2. CASE w \in {"rings"} \X {"reset", "done", "abort"}
        BY <3>2
      <3>3. CASE w \in {"isOpen", "isRunning"} \X BOOLEAN
        <4>1. PICK f \in {"isOpen", "isRunning"}, v \in BOOLEAN : w = <<f, v>>
          BY <3>3
        <4> QED
          BY <4>1
      <3>4. CASE w \in {"state"} \X States
        BY <3>4
      <3>5. CASE w \in {"wait"} \X {"zero", "max"}
        BY <3>5
      <3> QED
        BY <2>1, <3>1, <3>2, <3>3, <3>4, <3>5 DEF Ordinary
    <2>2. CASE w \in {StopDone, <<"taskRun", TRUE>>, <<"taskRun", FALSE>>}
      BY <2>2, Zenon DEF StopDone
    <2>3. CASE w \in {Set("CREATED"), Set("DESTROYED")}
      BY <2>3 DEF Bits
    <2> QED
      BY <2>1, <2>2, <2>3 DEF Writes, Plain, Birth
  <1> HIDE DEF Goal
  <1>10. Goal
    BY <1>1, <1>2, <1>4, <1>5, <1>6, <1>7, <1>8, <1>9, Zenon
  <1> QED
    BY <1>10 DEF Goal

-----------------------------------------------------------------------------
\* Sequences: what is in a literal, a tail and a concatenation, and in which order.
LEMMA LiteralHas ==
  /\ \A x : ~Has(<<>>, x)
  /\ \A a, x : Has(<<a>>, x) <=> x = a
  /\ \A a, b, x : Has(<<a, b>>, x) <=> x \in {a, b}
  /\ \A a, b, c, x : Has(<<a, b, c>>, x) <=> x \in {a, b, c}
  /\ \A a, b, c, d, x : Has(<<a, b, c, d>>, x) <=> x \in {a, b, c, d}
  /\ \A a, b, c, d, f, x : Has(<<a, b, c, d, f>>, x) <=> x \in {a, b, c, d, f}
  /\ \A a, b, c, d, f, g, x : Has(<<a, b, c, d, f, g>>, x) <=> x \in {a, b, c, d, f, g}
  <1>1. /\ \A x : ~Has(<<>>, x)
        /\ \A a, x : Has(<<a>>, x) <=> x = a
        /\ \A a, b, x : Has(<<a, b>>, x) <=> x \in {a, b}
    BY SMT DEF Has
  <1>2. \A a, b, c, x : Has(<<a, b, c>>, x) <=> x \in {a, b, c}
    BY SMT DEF Has
  <1>3. \A a, b, c, d, x : Has(<<a, b, c, d>>, x) <=> x \in {a, b, c, d}
    BY SMT DEF Has
  <1>4. \A a, b, c, d, f, x : Has(<<a, b, c, d, f>>, x) <=> x \in {a, b, c, d, f}
    BY SMT DEF Has
  <1>5. \A a, b, c, d, f, g, x : Has(<<a, b, c, d, f, g>>, x) <=> x \in {a, b, c, d, f, g}
    BY SMT DEF Has
  <1> QED
    BY <1>1, <1>2, <1>3, <1>4, <1>5, Zenon

LEMMA JoinedHas ==
  ASSUME NEW S, NEW s \in Seq(S), NEW t \in Seq(S)
  PROVE  \A x : Has(s \o t, x) <=> Has(s, x) \/ Has(t, x)
  <1>1. \A k \in 1 .. Len(s) + Len(t) : k \in 1 .. Len(s) \/ k - Len(s) \in 1 .. Len(t)
    <2>1. Len(s) \in Nat /\ Len(t) \in Nat
      BY JoinedSeq
    <2> QED
      BY <2>1, SMT
  <1>2. \A k \in 1 .. Len(s) + Len(t) : (s \o t)[k] = IF k <= Len(s) THEN s[k] ELSE t[k - Len(s)]
    BY ConcatProperties
  <1>3. ASSUME NEW x, Has(s \o t, x)
        PROVE  Has(s, x) \/ Has(t, x)
    <2>1. PICK k \in 1 .. Len(s) + Len(t) : (s \o t)[k] = x
      BY <1>3, JoinedSeq DEF Has
    <2>2. \/ (s \o t)[k] = s[k] /\ k \in 1 .. Len(s)
          \/ (s \o t)[k] = t[k - Len(s)] /\ k - Len(s) \in 1 .. Len(t)
      <3>1. Len(s) \in Nat /\ Len(t) \in Nat
        BY JoinedSeq
      <3> QED
        <4>1. k <= Len(s) => k \in 1 .. Len(s)
          BY <3>1, SMT
        <4>2. ~(k <= Len(s)) => k - Len(s) \in 1 .. Len(t)
          BY <3>1, <1>1, SMT
        <4>3. k <= Len(s) => (s \o t)[k] = s[k]
          BY <1>2
        <4>4. ~(k <= Len(s)) => (s \o t)[k] = t[k - Len(s)]
          BY <1>2
        <4> QED
          BY <4>1, <4>2, <4>3, <4>4
    <2> QED
      BY <2>1, <2>2, JoinedSeq DEF Has
  <1> QED
    BY <1>3, JoinedSeq

LEMMA JoinedAfter ==
  ASSUME NEW S, NEW s \in Seq(S), NEW t \in Seq(S), NEW x, NEW y,
         After(s, x, y), Has(s, x) \/ After(t, x, y)
  PROVE  After(s \o t, x, y)
  <1>1. /\ Len(s) \in Nat /\ Len(t) \in Nat /\ DOMAIN (s \o t) = 1 .. Len(s) + Len(t)
        /\ DOMAIN s = 1 .. Len(s) /\ DOMAIN t = 1 .. Len(t)
    BY JoinedSeq
  <1>2. \A k \in 1 .. Len(s) + Len(t) : (s \o t)[k] = IF k <= Len(s) THEN s[k] ELSE t[k - Len(s)]
    BY ConcatProperties
  <1>3. SUFFICES ASSUME NEW k \in 1 .. Len(s) + Len(t), (s \o t)[k] = y
                 PROVE  \E j \in 1 .. k - 1 : (s \o t)[j] = x
    BY <1>1 DEF After
  <1>4. CASE k \in 1 .. Len(s)
    <2>1. s[k] = y
      BY <1>1, <1>2, <1>3, <1>4, SMT
    <2>2. PICK j \in 1 .. k - 1 : s[j] = x
      BY <1>1, <1>4, <2>1 DEF After
    <2>3. j \in 1 .. Len(s) + Len(t) /\ j <= Len(s)
      BY <1>1, <1>4, SMT
    <2> QED
      BY <1>2, <2>2, <2>3
  <1>5. CASE k \notin 1 .. Len(s) /\ Has(s, x)
    <2>1. PICK j \in 1 .. Len(s) : s[j] = x
      BY <1>1, <1>5 DEF Has
    <2>2. j \in 1 .. k - 1 /\ j \in 1 .. Len(s) + Len(t) /\ j <= Len(s)
      BY <1>1, <1>5, SMT
    <2> QED
      BY <1>2, <2>1, <2>2
  <1>6. CASE k \notin 1 .. Len(s) /\ After(t, x, y)
    <2>1. k - Len(s) \in 1 .. Len(t) /\ ~(k <= Len(s))
      BY <1>1, <1>6, SMT
    <2>2. t[k - Len(s)] = y
      BY <1>2, <1>3, <2>1
    <2>3. PICK i \in 1 .. k - Len(s) - 1 : t[i] = x
      BY <1>1, <1>6, <2>1, <2>2 DEF After
    <2>4. /\ i + Len(s) \in 1 .. k - 1 /\ i + Len(s) \in 1 .. Len(s) + Len(t)
          /\ ~(i + Len(s) <= Len(s)) /\ i + Len(s) - Len(s) = i
      BY <1>1, <2>1, SMT
    <2>5. (s \o t)[i + Len(s)] = x
      BY <1>2, <2>3, <2>4
    <2> QED
      BY <2>4, <2>5
  <1> QED
    BY <1>4, <1>5, <1>6

\* In t, no y comes before any x.
Before(t, x, y) == \A j, k \in DOMAIN t : t[j] = y /\ t[k] = x => k < j

LEMMA TailBefore ==
  ASSUME NEW S, NEW s \in Seq(S), s # <<>>, NEW x, NEW y, Before(s, x, y)
  PROVE  Before(Tail(s), x, y) /\ (Has(Tail(s), x) => Head(s) # y)
  <1>1. /\ Head(s) = s[1] /\ Len(s) \in Nat \ {0} /\ Len(Tail(s)) = Len(s) - 1 /\ Tail(s) \in Seq(S)
        /\ \A k \in DOMAIN Tail(s) : k + 1 \in DOMAIN s /\ Tail(s)[k] = s[k + 1]
    BY TailHas
  <1>2. DOMAIN s = 1 .. Len(s) /\ DOMAIN Tail(s) = 1 .. Len(s) - 1 /\ 1 \in DOMAIN s
    BY <1>1, SMT
  <1>3. ASSUME NEW j \in DOMAIN Tail(s), NEW k \in DOMAIN Tail(s), Tail(s)[j] = y, Tail(s)[k] = x
        PROVE  k < j
    <2>1. k + 1 < j + 1
      BY <1>1, <1>3 DEF Before
    <2> QED
      BY <1>1, <1>2, <2>1, SMT
  <1>4. ASSUME NEW k \in DOMAIN Tail(s), Tail(s)[k] = x, Head(s) = y
        PROVE  FALSE
    <2>1. k + 1 < 1
      BY <1>1, <1>2, <1>4 DEF Before
    <2> QED
      BY <1>1, <1>2, <2>1, SMT
  <1> QED
    BY <1>3, <1>4 DEF Before, Has

LEMMA JoinedBefore ==
  ASSUME NEW S, NEW s \in Seq(S), NEW t \in Seq(S), NEW x, NEW y,
         ~Has(s, y), ~Has(s, x), Before(t, x, y)
  PROVE  Before(s \o t, x, y)
  <1>1. /\ Len(s) \in Nat /\ Len(t) \in Nat /\ DOMAIN (s \o t) = 1 .. Len(s) + Len(t)
        /\ DOMAIN s = 1 .. Len(s) /\ DOMAIN t = 1 .. Len(t)
        /\ \A k \in 1 .. Len(s) : (s \o t)[k] = s[k]
        /\ \A k \in 1 .. Len(t) : (s \o t)[Len(s) + k] = t[k]
    BY JoinedSeq
  <1>2. ASSUME NEW k \in DOMAIN (s \o t), (s \o t)[k] \in {x, y}
        PROVE  k - Len(s) \in DOMAIN t /\ (s \o t)[k] = t[k - Len(s)]
    <2>1. k \notin 1 .. Len(s)
      BY <1>1, <1>2 DEF Has
    <2>2. k - Len(s) \in 1 .. Len(t) /\ Len(s) + (k - Len(s)) = k
      BY <1>1, <2>1, SMT
    <2>3. (s \o t)[Len(s) + (k - Len(s))] = t[k - Len(s)]
      BY <1>1, <2>2
    <2> QED
      BY <1>1, <2>2, <2>3
  <1>3. ASSUME NEW j \in DOMAIN (s \o t), NEW k \in DOMAIN (s \o t), (s \o t)[j] = y, (s \o t)[k] = x
        PROVE  k < j
    <2>1. k - Len(s) < j - Len(s)
      BY <1>2, <1>3 DEF Before
    <2> QED
      BY <1>1, <2>1, SMT
  <1> QED
    BY <1>3 DEF Before

LEMMA TailAfter ==
  ASSUME NEW S, NEW s \in Seq(S), s # <<>>, NEW x, NEW y, After(s, x, y), Head(s) # x
  PROVE  After(Tail(s), x, y) /\ Head(s) # y
  <1>1. /\ Head(s) = s[1] /\ Len(s) \in Nat \ {0} /\ Len(Tail(s)) = Len(s) - 1 /\ Tail(s) \in Seq(S)
        /\ \A k \in DOMAIN Tail(s) : k + 1 \in DOMAIN s /\ Tail(s)[k] = s[k + 1]
    BY TailHas
  <1>2. DOMAIN s = 1 .. Len(s) /\ DOMAIN Tail(s) = 1 .. Len(s) - 1
    BY <1>1, SMT
  <1>3. Head(s) # y
    <2>1. 1 \in DOMAIN s /\ 1 .. 1 - 1 = {}
      BY <1>1, <1>2, SMT
    <2> QED
      BY <1>1, <2>1 DEF After
  <1>4. ASSUME NEW k \in DOMAIN Tail(s), Tail(s)[k] = y
        PROVE  \E j \in 1 .. k - 1 : Tail(s)[j] = x
    <2>1. PICK j \in 1 .. k + 1 - 1 : s[j] = x
      BY <1>1, <1>4 DEF After
    <2>2. j # 1
      BY <1>1, <2>1
    <2>3. j - 1 \in 1 .. k - 1 /\ j - 1 \in DOMAIN Tail(s) /\ j - 1 + 1 = j
      BY <1>2, <2>1, <2>2, SMT
    <2>4. Tail(s)[j - 1] = x
      BY <1>1, <2>1, <2>3
    <2> QED
      BY <2>3, <2>4
  <1> QED
    BY <1>3, <1>4 DEF After

LEMMA NothingAfter ==
  ASSUME NEW s, NEW x, NEW y, ~Has(s, y)
  PROVE  After(s, x, y)
  BY DEF After, Has

\* What is still to be written, one write later.
LEMMA TailKeeps ==
  ASSUME NEW S, NEW s \in Seq(S), s # <<>>
  PROVE  /\ \A x : Has(s, x) => Has(Tail(s), x) \/ Head(s) = x
         /\ \A x : Has(Tail(s), x) => Has(s, x)
         /\ Has(s, Head(s))
  <1>1. \A k \in DOMAIN Tail(s) : k + 1 \in DOMAIN s /\ Tail(s)[k] = s[k + 1]
    BY TailHas
  <1>2. 1 \in DOMAIN s /\ s[1] = Head(s)
    <2>1. Len(s) \in Nat \ {0} /\ Head(s) = s[1]
      BY TailHas
    <2> QED
      BY <2>1, SMT
  <1>3. \A x : Has(s, x) /\ Head(s) # x => Has(Tail(s), x)
    BY TailHas
  <1> QED
    BY <1>1, <1>2, <1>3 DEF Has

-----------------------------------------------------------------------------
\* The handlers after which the element no longer runs: they write is_running before they
\* set STOPPED, never one without the other, and put the task to sleep unless it sleeps.
HaltWrites ==
  {<<"isOpen", FALSE>>, State("STOPPED"), State("FINISHED"), State("ERROR"), MaxWait, RunOff,
   StopDone, Stopped, <<"rings", "done">>, <<"rings", "abort">>}
Halts(r, t) ==
  /\ t \in Seq(Plain)
  /\ \A x : Has(t, x) => x \in HaltWrites
  /\ Has(t, RunOff) <=> Has(t, Stopped)
  /\ After(t, RunOff, Stopped)
  /\ Has(t, RunOff) => Has(t, MaxWait) \/ r.state \in Ended
  /\ \A s \in Ended : Has(t, State(s)) => Has(t, RunOff)

LEMMA HaltNames ==
  \A x \in HaltWrites :
    /\ x \notin {RunOn, ZeroWait, Resumed, Paused}
    /\ \A b \in Bits : x # Clear(b) /\ (x = Set(b) => b = "STOPPED")
    /\ \A s \in States : x = State(s) => s \in {"STOPPED", "FINISHED", "ERROR"}
  <1>1. \A x \in {State("STOPPED"), State("FINISHED"), State("ERROR")} :
          /\ x[1] = "state" /\ x[2] \in {"STOPPED", "FINISHED", "ERROR"}
    BY WriteNames
  <1>2. \A x \in {<<"isOpen", FALSE>>, StopDone, <<"rings", "done">>, <<"rings", "abort">>} :
          x[1] \in {"isOpen", "stopping", "rings"}
    BY WriteNames, Zenon
  <1>3. Stopped[1] = "set" /\ Stopped[2] = "STOPPED" /\ Resumed[1] = "set" /\ Paused[1] = "set"
    BY DEF Stopped, Resumed, Paused, Set
  <1>4. SUFFICES ASSUME NEW x \in HaltWrites
                 PROVE  /\ x \notin {RunOn, ZeroWait, Resumed, Paused}
                        /\ \A b \in Bits : x # Clear(b) /\ (x = Set(b) => b = "STOPPED")
                        /\ \A s \in States : x = State(s) => s \in {"STOPPED", "FINISHED", "ERROR"}
    OBVIOUS
  <1>5. CASE x \in {State("STOPPED"), State("FINISHED"), State("ERROR")}
    BY <1>1, <1>3, <1>5, WriteNames
  <1>6. CASE x \in {<<"isOpen", FALSE>>, StopDone, <<"rings", "done">>, <<"rings", "abort">>}
    <2>1. x[1] \in {"isOpen", "stopping", "rings"}
      BY <1>2, <1>6, Zenon
    <2> QED
      BY <2>1, <1>3, WriteNames
  <1>7. CASE x \in {MaxWait, RunOff}
    BY <1>3, <1>7, WriteNames
  <1>8. CASE x = Stopped
    BY <1>3, <1>8, WriteNames
  <1> QED
    BY <1>4, <1>5, <1>6, <1>7, <1>8 DEF HaltWrites

LEMMA OnStopHalts ==
  ASSUME NEW r
  PROVE  Halts(r, OnStop(r)) /\ (r.isRunning => Has(OnStop(r), RunOff))
  <1> DEFINE a == <<"isOpen", FALSE>>
             b == State("STOPPED")
  <1>1. a \in HaltWrites /\ b \in HaltWrites /\ MaxWait \in HaltWrites /\ RunOff \in HaltWrites
        /\ StopDone \in HaltWrites /\ Stopped \in HaltWrites
    BY DEF HaltWrites
  <1>2. /\ a # Stopped /\ b # Stopped /\ MaxWait # Stopped /\ RunOff # Stopped /\ StopDone # Stopped
        /\ a # RunOff /\ StopDone # RunOff /\ \A s : StopDone # State(s)
    BY WriteNames DEF Stopped, Bits
  <1>3. OnStop(r) = IF r.state \notin Ended THEN <<a, b, MaxWait, RunOff, StopDone, Stopped>>
                    ELSE IF r.state = "STOPPED" /\ ~r.isRunning THEN <<StopDone>>
                    ELSE <<b, RunOff, StopDone, Stopped>>
    BY DEF OnStop, MaxWait, RunOff, StopDone, Stopped, State, Ended
  <1>4. OnStop(r) \in Seq(Plain)
    BY OnStopPlain
  <1> HIDE DEF a, b
  <1>5. After(<<a, b, MaxWait, RunOff, StopDone, Stopped>>, RunOff, Stopped)
    BY <1>2, SMT DEF After
  <1>6. After(<<b, RunOff, StopDone, Stopped>>, RunOff, Stopped)
    BY <1>2, SMT DEF After
  <1>7. After(<<StopDone>>, RunOff, Stopped)
    BY <1>2, SMT DEF After
  <1>8. CASE r.state \notin Ended
    <2>1. OnStop(r) = <<a, b, MaxWait, RunOff, StopDone, Stopped>>
      BY <1>3, <1>8
    <2> QED
      BY <1>1, <1>4, <1>5, <2>1, LiteralHas DEF Halts
  <1>9. CASE r.state \in Ended /\ r.state = "STOPPED" /\ ~r.isRunning
    <2>1. OnStop(r) = <<StopDone>>
      BY <1>3, <1>9
    <2> QED
      BY <1>1, <1>2, <1>4, <1>7, <1>9, <2>1, LiteralHas DEF Halts
  <1>10. CASE r.state \in Ended /\ ~(r.state = "STOPPED" /\ ~r.isRunning)
    <2>1. OnStop(r) = <<b, RunOff, StopDone, Stopped>>
      BY <1>3, <1>10
    <2> QED
      BY <1>1, <1>4, <1>6, <1>10, <2>1, LiteralHas DEF Halts
  <1> QED
    BY <1>8, <1>9, <1>10

LEMMA OthersHalt ==
  ASSUME NEW r
  PROVE  /\ Halts(r, OnError(r)) /\ (r.state # "STOPPED" => Has(OnError(r), RunOff))
         /\ Halts(r, OnFinish(r))
  <1> DEFINE a == <<"isOpen", FALSE>>
             b == State("ERROR")
             c == State("FINISHED")
  <1>1. a \in HaltWrites /\ b \in HaltWrites /\ c \in HaltWrites /\ MaxWait \in HaltWrites
        /\ RunOff \in HaltWrites /\ Stopped \in HaltWrites
    BY DEF HaltWrites
  <1>2. /\ a # Stopped /\ b # Stopped /\ c # Stopped /\ MaxWait # Stopped /\ RunOff # Stopped
    BY WriteNames DEF Stopped, Bits
  <1>3. /\ OnError(r) = IF r.state = "STOPPED" THEN <<>> ELSE <<a, b, MaxWait, RunOff, Stopped>>
        /\ OnFinish(r) = IF r.state \in {"ERROR", "STOPPED"} THEN <<>>
                         ELSE <<a, c, MaxWait, RunOff, Stopped>>
    BY DEF OnError, OnFinish, MaxWait, RunOff, Stopped, State
  <1>4. OnError(r) \in Seq(Plain) /\ OnFinish(r) \in Seq(Plain)
    BY OtherHandlersPlain
  <1> HIDE DEF a, b, c
  <1>5. After(<<a, b, MaxWait, RunOff, Stopped>>, RunOff, Stopped)
    BY <1>2, SMT DEF After
  <1>6. After(<<a, c, MaxWait, RunOff, Stopped>>, RunOff, Stopped)
    BY <1>2, SMT DEF After
  <1>7. \A t : t \in Seq(Plain) /\ t = <<>> => Halts(r, t)
    <2>1. \A x : ~Has(<<>>, x)
      BY LiteralHas
    <2>2. After(<<>>, RunOff, Stopped)
      BY <2>1, NothingAfter
    <2> QED
      BY <2>1, <2>2 DEF Halts
  <1>8. \A t : t \in Seq(Plain) /\ t = <<a, b, MaxWait, RunOff, Stopped>> => Halts(r, t)
    BY <1>1, <1>5, LiteralHas DEF Halts
  <1>9. \A t : t \in Seq(Plain) /\ t = <<a, c, MaxWait, RunOff, Stopped>> => Halts(r, t)
    BY <1>1, <1>6, LiteralHas DEF Halts
  <1>10. Has(<<a, b, MaxWait, RunOff, Stopped>>, RunOff)
    BY LiteralHas
  <1> QED
    BY <1>3, <1>4, <1>7, <1>8, <1>9, <1>10

LEMMA HaltsMore ==
  ASSUME NEW r, NEW s, Halts(r, s), Has(s, RunOff),
         NEW t \in Seq(Plain), \A x : Has(t, x) => x \in HaltWrites
  PROVE  Halts(r, s \o t) /\ Has(s \o t, RunOff)
  <1>1. s \in Seq(Plain) /\ s \o t \in Seq(Plain)
    BY JoinedSeq DEF Halts
  <1>2. \A x : Has(s \o t, x) <=> Has(s, x) \/ Has(t, x)
    BY <1>1, JoinedHas
  <1>3. After(s \o t, RunOff, Stopped)
    BY <1>1, JoinedAfter DEF Halts
  <1> QED
    BY <1>1, <1>2, <1>3 DEF Halts

LEMMA HaltsPrefix ==
  ASSUME NEW r, NEW q, NEW s, Halts(q, s), q.state \in Ended => r.state \in Ended,
         NEW x \in {State("ERROR"), <<"rings", "done">>}
  PROVE  /\ Halts(r, <<x>> \o s)
         /\ \A y : Has(<<x>> \o s, y) <=> y = x \/ Has(s, y)
  <1>1. /\ x \in Plain /\ x \in HaltWrites /\ x # RunOff /\ x # Stopped
        /\ \A z \in Ended : x # State(z)
    <2>1. State("ERROR") \in Plain /\ <<"rings", "done">> \in Plain
      BY OrdinaryWrites, StateNames DEF State
    <2>2. /\ Stopped[1] = "set" /\ RunOff[1] = "isRunning" /\ <<"rings", "done">>[1] = "rings"
          /\ State("ERROR")[1] = "state" /\ State("ERROR")[2] = "ERROR"
          /\ \A z : State(z)[1] = "state" /\ State(z)[2] = z
      BY WriteNames DEF Stopped, Bits
    <2>3. x \in HaltWrites
      BY DEF HaltWrites
    <2> QED
      BY <2>1, <2>2, <2>3 DEF Ended
  <1>2. <<x>> \in Seq(Plain) /\ s \in Seq(Plain) /\ <<x>> \o s \in Seq(Plain)
    <2>1. <<x>> \in Seq(Plain)
      BY <1>1, ShortSeqs
    <2> QED
      BY <2>1, JoinedSeq DEF Halts
  <1>3. \A y : Has(<<x>> \o s, y) <=> y = x \/ Has(s, y)
    <2>1. \A y : Has(<<x>> \o s, y) <=> Has(<<x>>, y) \/ Has(s, y)
      BY <1>2, JoinedHas
    <2>2. \A y : Has(<<x>>, y) <=> y = x
      BY LiteralHas
    <2> QED
      BY <2>1, <2>2
  <1>4. After(<<x>> \o s, RunOff, Stopped)
    <2>1. ~Has(<<x>>, Stopped)
      BY <1>1, LiteralHas
    <2>2. After(<<x>>, RunOff, Stopped)
      BY <2>1, NothingAfter
    <2> QED
      BY <1>2, <2>2, JoinedAfter DEF Halts
  <1> QED
    BY <1>1, <1>2, <1>3, <1>4, Zenon DEF Halts

\* open fails while the element runs, as it does from OnResume on.
LEMMA OpenFailedHalts ==
  ASSUME NEW r \in Record, r.isRunning, NEW res
  PROVE  Halts(r, OpenFailed(r, res)) /\ Halts(r, OpenFailed(r, res) \o << Stopped >>)
  <1> DEFINE q == [r EXCEPT !.state = "ERROR"]
             u == IF res = "ABORT" THEN OnStop(r) ELSE << State("ERROR") >> \o OnError(q)
             v == << <<"rings", "abort">>, RunOff >>
  <1>1. q.state = "ERROR"
    BY SMT DEF Record
  <1> HIDE DEF q
  <1>2. Halts(q, OnError(q)) /\ Has(OnError(q), RunOff)
    BY <1>1, OthersHalt
  <1>3. Halts(r, << State("ERROR") >> \o OnError(q)) /\ Has(<< State("ERROR") >> \o OnError(q), RunOff)
    <2>1. q.state \in Ended => r.state \in Ended
      BY <1>1 DEF Ended
    <2> QED
      BY <1>2, <2>1, HaltsPrefix
  <1>4. Halts(r, u) /\ Has(u, RunOff)
    BY <1>3, OnStopHalts
  <1> HIDE DEF u
  <1>5. /\ v \in Seq(Plain) /\ \A x : Has(v, x) => x \in HaltWrites
        /\ << Stopped >> \in Seq(Plain) /\ \A x : Has(<< Stopped >>, x) => x \in HaltWrites
    <2>1. <<"rings", "abort">> \in Plain /\ RunOff \in Plain /\ Stopped \in Plain
      BY OrdinaryWrites DEF RunOff, Stopped
    <2>2. <<"rings", "abort">> \in HaltWrites /\ RunOff \in HaltWrites /\ Stopped \in HaltWrites
      BY DEF HaltWrites
    <2> QED
      BY <2>1, <2>2, ShortSeqs, LiteralHas
  <1> HIDE DEF v
  <1>6. Halts(r, u \o v) /\ Has(u \o v, RunOff)
    BY <1>4, <1>5, HaltsMore
  <1>7. OpenFailed(r, res) = u \o v
    BY Zenon DEF OpenFailed, u, v, q, State, RunOff
  <1> QED
    BY <1>5, <1>6, <1>7, HaltsMore

LEMMA FinishHalts ==
  ASSUME NEW r
  PROVE  Halts(r, << <<"rings", "done">> >> \o OnFinish(r))
  BY OthersHalt, HaltsPrefix

-----------------------------------------------------------------------------
\* The other handlers.
PauseWrites == {State("PAUSED"), <<"isOpen", FALSE>>, MaxWait, RunOff, Paused}
ResumeWrites == {<<"rings", "reset">>, RunOn, Resumed, <<"isOpen", TRUE>>, State("INITIALIZING")}
ExitWrites == {RunOff, Stopped, State("STOPPED"), <<"isOpen", FALSE>>, StopDone,
               <<"taskRun", FALSE>>, Resumed, Set("DESTROYED")}

LEMMA OnPauseHas ==
  /\ \A x : Has(OnPause, x) <=> x \in PauseWrites
  /\ \A k \in DOMAIN OnPause : OnPause[k] = Paused => k = Len(OnPause)
  /\ Stopped \notin PauseWrites /\ RunOn \notin PauseWrites /\ Resumed \notin PauseWrites
  /\ ZeroWait \notin PauseWrites /\ \A b \in Bits : Clear(b) \notin PauseWrites
  /\ \A s \in Ended : State(s) \notin PauseWrites
  <1>1. OnPause = <<State("PAUSED"), <<"isOpen", FALSE>>, MaxWait, RunOff, Paused>>
    BY DEF OnPause, State, MaxWait, RunOff, Paused
  <1>2. /\ Stopped[1] = "set" /\ Resumed[1] = "set" /\ Paused[1] = "set"
        /\ Stopped # Paused /\ Resumed # Paused
    BY WriteNames DEF Stopped, Resumed, Paused, Bits
  <1>3. /\ State("PAUSED") # Paused /\ <<"isOpen", FALSE>> # Paused /\ MaxWait # Paused /\ RunOff # Paused
    BY <1>2, WriteNames
  <1>4. /\ Stopped \notin PauseWrites /\ RunOn \notin PauseWrites /\ Resumed \notin PauseWrites
        /\ ZeroWait \notin PauseWrites /\ \A b \in Bits : Clear(b) \notin PauseWrites
        /\ \A s \in Ended : State(s) \notin PauseWrites
    <2>1. \A x \in PauseWrites :
            x[1] \in {"state", "isOpen", "wait", "isRunning", "set"} /\ (x[1] = "state" => x[2] = "PAUSED")
      <3>1. State("PAUSED")[1] = "state" /\ State("PAUSED")[2] = "PAUSED"
        BY WriteNames
      <3>2. <<"isOpen", FALSE>>[1] = "isOpen" /\ MaxWait[1] = "wait" /\ RunOff[1] = "isRunning"
        BY WriteNames
      <3>3. SUFFICES ASSUME NEW x \in PauseWrites
                     PROVE  /\ x[1] \in {"state", "isOpen", "wait", "isRunning", "set"}
                            /\ x[1] = "state" => x[2] = "PAUSED"
        OBVIOUS
      <3>4. CASE x = State("PAUSED")
        BY <3>1, <3>4
      <3>5. CASE x \in {MaxWait, RunOff, Paused}
        BY <1>2, <3>2, <3>5
      <3>6. CASE x = <<"isOpen", FALSE>>
        <4>1. x[1] = "isOpen"
          BY <3>2, <3>6, Zenon
        <4> QED
          BY <4>1
      <3> QED
        BY <3>3, <3>4, <3>5, <3>6, Zenon DEF PauseWrites
    <2>2. Stopped \notin PauseWrites /\ Resumed \notin PauseWrites
      BY <1>2, WriteNames, Zenon DEF PauseWrites
    <2>3. RunOn \notin PauseWrites /\ ZeroWait \notin PauseWrites
      BY <1>2, WriteNames, Zenon DEF PauseWrites
    <2> QED
      BY <2>1, <2>2, <2>3, WriteNames DEF Ended
  <1>5. \A x : Has(OnPause, x) <=> x \in PauseWrites
    <2> DEFINE a == State("PAUSED")
               b == <<"isOpen", FALSE>>
    <2>1. OnPause = <<a, b, MaxWait, RunOff, Paused>> /\ PauseWrites = {a, b, MaxWait, RunOff, Paused}
      BY <1>1 DEF PauseWrites
    <2> HIDE DEF a, b
    <2> QED
      BY <2>1, LiteralHas
  <1>6. \A k \in DOMAIN OnPause : OnPause[k] = Paused => k = Len(OnPause)
    <2> DEFINE a == State("PAUSED")
               b == <<"isOpen", FALSE>>
    <2>1. a # Paused /\ b # Paused
      BY <1>3
    <2> HIDE DEF a, b
    <2>2. \A k \in DOMAIN <<a, b, MaxWait, RunOff, Paused>> :
            <<a, b, MaxWait, RunOff, Paused>>[k] = Paused => k = Len(<<a, b, MaxWait, RunOff, Paused>>)
      BY <1>3, <2>1, SMT
    <2> QED
      BY <1>1, <2>2 DEF a, b
  <1> QED
    BY <1>4, <1>5, <1>6

LEMMA OnResumeHas ==
  ASSUME NEW r
  PROVE  /\ \A x : Has(OnResume(r), x) => x \in ResumeWrites
         /\ Has(OnResume(r), RunOn) /\ Has(OnResume(r), Resumed)
         /\ Before(OnResume(r), RunOn, Resumed)
         /\ Stopped \notin ResumeWrites /\ RunOff \notin ResumeWrites /\ Paused \notin ResumeWrites
         /\ ZeroWait \notin ResumeWrites /\ MaxWait \notin ResumeWrites
         /\ \A b \in Bits : Clear(b) \notin ResumeWrites
         /\ \A s \in States : State(s) \in ResumeWrites => s = "INITIALIZING"
  <1> DEFINE a == <<"rings", "reset">>
             b == <<"isOpen", TRUE>>
             c == State("INITIALIZING")
  <1>1. /\ Stopped[1] = "set" /\ Resumed[1] = "set" /\ Paused[1] = "set" /\ RunOn[1] = "isRunning"
        /\ Stopped # Resumed /\ Resumed # Paused /\ RunOn # RunOff
        /\ a[1] = "rings" /\ b[1] = "isOpen" /\ c[1] = "state" /\ c[2] = "INITIALIZING"
    <2>1. Stopped[1] = "set" /\ Resumed[1] = "set" /\ Paused[1] = "set"
      BY WriteNames DEF Stopped, Resumed, Paused, Bits
    <2> QED
      BY <2>1, WriteNames, Zenon
  <1>2. a # Resumed /\ RunOn # Resumed /\ a # RunOn /\ b \notin {RunOn, Resumed} /\ c \notin {RunOn, Resumed}
    BY <1>1
  <1>3. \/ OnResume(r) = <<RunOn, Resumed>>
        \/ OnResume(r) = <<>> \o <<RunOn, Resumed, b, c>>
        \/ OnResume(r) = <<a>> \o <<RunOn, Resumed, b, c>>
    BY DEF OnResume, RunOn, Resumed, State
  <1>4. /\ Stopped \notin ResumeWrites /\ RunOff \notin ResumeWrites /\ Paused \notin ResumeWrites
        /\ ZeroWait \notin ResumeWrites /\ MaxWait \notin ResumeWrites
        /\ \A e \in Bits : Clear(e) \notin ResumeWrites
        /\ \A s \in States : State(s) \in ResumeWrites => s = "INITIALIZING"
    <2>1. \A x \in ResumeWrites :
            /\ x[1] \in {"rings", "isRunning", "set", "isOpen", "state"}
            /\ x[1] = "set" => x = Resumed
            /\ x[1] = "isRunning" => x = RunOn
            /\ x[1] = "state" => x = c
      BY <1>1, Zenon DEF ResumeWrites
    <2>2. /\ Stopped \notin ResumeWrites /\ RunOff \notin ResumeWrites /\ Paused \notin ResumeWrites
          /\ ZeroWait \notin ResumeWrites /\ MaxWait \notin ResumeWrites
      BY <1>1, <2>1, WriteNames
    <2>3. \A e \in Bits : Clear(e) \notin ResumeWrites
      BY <2>1, WriteNames
    <2>4. \A s \in States : State(s) \in ResumeWrites => s = "INITIALIZING"
      BY <1>1, <2>1, WriteNames
    <2> QED
      BY <2>2, <2>3, <2>4
  <1>5. {a, RunOn, Resumed, b, c} = ResumeWrites
    BY DEF ResumeWrites
  <1>6. a \in Plain /\ b \in Plain /\ c \in Plain /\ RunOn \in Plain /\ Resumed \in Plain
    BY OrdinaryWrites, StateNames DEF RunOn, Resumed, State
  <1> DEFINE t == <<RunOn, Resumed, b, c>>
  <1> HIDE DEF a, b, c
  <1>7. /\ <<>> \in Seq(Plain) /\ <<a>> \in Seq(Plain) /\ t \in Seq(Plain)
        /\ Before(<<RunOn, Resumed>>, RunOn, Resumed) /\ Before(t, RunOn, Resumed)
        /\ ~Has(<<>>, Resumed) /\ ~Has(<<a>>, Resumed) /\ ~Has(<<>>, RunOn) /\ ~Has(<<a>>, RunOn)
    <2>1. <<>> \in Seq(Plain) /\ <<a>> \in Seq(Plain) /\ t \in Seq(Plain)
      BY <1>6, ShortSeqs
    <2>2. Before(<<RunOn, Resumed>>, RunOn, Resumed) /\ Before(t, RunOn, Resumed)
      BY <1>1, <1>2, SMT DEF Before
    <2>3. ~Has(<<>>, Resumed) /\ ~Has(<<a>>, Resumed) /\ ~Has(<<>>, RunOn) /\ ~Has(<<a>>, RunOn)
      BY <1>2, LiteralHas
    <2> QED
      BY <2>1, <2>2, <2>3
  <1>8. /\ \A x : Has(<<RunOn, Resumed>>, x) => x \in ResumeWrites
        /\ Has(<<RunOn, Resumed>>, RunOn) /\ Has(<<RunOn, Resumed>>, Resumed)
    BY <1>5, LiteralHas
  <1>9. ASSUME NEW s \in {<<>>, <<a>>}
        PROVE  /\ \A x : Has(s \o t, x) => x \in ResumeWrites
               /\ Has(s \o t, RunOn) /\ Has(s \o t, Resumed) /\ Before(s \o t, RunOn, Resumed)
    <2>0. s \in Seq(Plain) /\ ~Has(s, Resumed) /\ ~Has(s, RunOn)
      BY <1>7
    <2>1. \A x : Has(s \o t, x) <=> Has(s, x) \/ Has(t, x)
      <3>1. s \in Seq(Plain) /\ t \in Seq(Plain)
        BY <1>7, <2>0
      <3> HIDE DEF t
      <3> QED
        BY <3>1, JoinedHas, Zenon
    <2>2. /\ \A x : Has(t, x) => x \in ResumeWrites
          /\ \A x : Has(s, x) => x \in ResumeWrites
          /\ Has(t, RunOn) /\ Has(t, Resumed)
      BY <1>5, LiteralHas
    <2>3. Before(s \o t, RunOn, Resumed)
      BY <1>7, <2>0, JoinedBefore
    <2> QED
      BY <2>1, <2>2, <2>3
  <1> HIDE DEF t
  <1>10. CASE OnResume(r) = <<RunOn, Resumed>>
    BY <1>4, <1>7, <1>8, <1>10
  <1>11. CASE \E s \in {<<>>, <<a>>} : OnResume(r) = s \o t
    BY <1>4, <1>9, <1>11
  <1> QED
    BY <1>3, <1>10, <1>11 DEF t, a, b, c

LEMMA OpenedHas ==
  /\ \A x : Has(Opened, x) <=> x \in {State("RUNNING"), ZeroWait, Clear("STOPPED")}
  /\ Head(Opened) = State("RUNNING")
  /\ \A x \in {State("RUNNING"), ZeroWait, Clear("STOPPED")} :
       /\ x \notin {RunOn, RunOff, MaxWait}
       /\ \A b \in Bits : x # Set(b)
       /\ \A s \in States : x = State(s) => s = "RUNNING"
  <1>1. Opened = <<State("RUNNING"), ZeroWait, Clear("STOPPED")>>
    BY DEF Opened, State, ZeroWait
  <1>2. Clear("STOPPED")[1] = "clear" /\ State("RUNNING")[1] = "state" /\ State("RUNNING")[2] = "RUNNING"
    BY WriteNames DEF Bits
  <1>3. \A x \in {State("RUNNING"), ZeroWait, Clear("STOPPED")} :
          /\ x \notin {RunOn, RunOff, MaxWait}
          /\ \A b \in Bits : x # Set(b)
          /\ \A s \in States : x = State(s) => s = "RUNNING"
    BY <1>2, WriteNames
  <1> DEFINE a == State("RUNNING")
             b == Clear("STOPPED")
  <1> HIDE DEF a, b
  <1>4. Head(<<a, ZeroWait, b>>) = a /\ \A x : Has(<<a, ZeroWait, b>>, x) <=> x \in {a, ZeroWait, b}
    BY LiteralHas
  <1> QED
    BY <1>1, <1>3, <1>4 DEF a, b

LEMMA ExitNames ==
  \A x \in ExitWrites \cup {Clear("STOPPED")} :
    /\ x \notin {RunOn, ZeroWait, MaxWait, Paused, Set("CREATED")}
    /\ \A s \in States : x = State(s) => s = "STOPPED"
    /\ \A b \in Bits : x = Clear(b) => x \notin ExitWrites
  <1>1. /\ Clear("STOPPED")[1] = "clear" /\ Set("CREATED")[1] = "set" /\ Set("CREATED")[2] = "CREATED"
        /\ Stopped[1] = "set" /\ Stopped[2] = "STOPPED" /\ Resumed[1] = "set" /\ Resumed[2] = "RESUMED"
        /\ Set("DESTROYED")[1] = "set" /\ Set("DESTROYED")[2] = "DESTROYED"
        /\ Paused[1] = "set" /\ Paused[2] = "PAUSED"
    BY WriteNames DEF Bits, Stopped, Resumed, Paused
  <1>2. State("STOPPED")[1] = "state" /\ State("STOPPED")[2] = "STOPPED"
    BY WriteNames
  <1>3. <<"isOpen", FALSE>>[1] = "isOpen" /\ <<"taskRun", FALSE>>[1] = "taskRun" /\ StopDone[1] = "stopping"
    BY Zenon DEF StopDone
  <1>4. \A x \in {<<"isOpen", FALSE>>, <<"taskRun", FALSE>>, StopDone} : x[1] \in {"isOpen", "taskRun", "stopping"}
    BY <1>3, Zenon
  <1>5. \A x \in ExitWrites : \/ x = RunOff
                              \/ x \in {Stopped, Resumed, Set("DESTROYED")}
                              \/ x = State("STOPPED")
                              \/ x[1] \in {"isOpen", "taskRun", "stopping"}
    BY <1>4, Zenon DEF ExitWrites
  <1>6. SUFFICES ASSUME NEW x \in ExitWrites \cup {Clear("STOPPED")}
                 PROVE  /\ x \notin {RunOn, ZeroWait, MaxWait, Paused, Set("CREATED")}
                        /\ \A s \in States : x = State(s) => s = "STOPPED"
                        /\ \A b \in Bits : x = Clear(b) => x \notin ExitWrites
    OBVIOUS
  <1>7. CASE x = RunOff
    BY <1>1, <1>7, WriteNames
  <1>8. CASE x \in {Stopped, Resumed, Set("DESTROYED")}
    BY <1>1, <1>8, WriteNames
  <1>9. CASE x = State("STOPPED")
    BY <1>1, <1>2, <1>9, WriteNames
  <1>10. CASE x[1] \in {"isOpen", "taskRun", "stopping"}
    BY <1>1, <1>10, WriteNames
  <1>11. CASE x = Clear("STOPPED")
    <2>1. x[1] = "clear"
      BY <1>1, <1>11
    <2>2. x \notin ExitWrites
      BY <1>1, <1>2, <1>5, <2>1, WriteNames
    <2> QED
      BY <1>1, <2>1, <2>2, WriteNames
  <1> QED
    BY <1>5, <1>6, <1>7, <1>8, <1>9, <1>10, <1>11

LEMMA ExitHas ==
  ASSUME NEW r
  PROVE  /\ \A x : Has(OnExit(r), x) => x \in ExitWrites
         /\ \A x : Has(<<RunOff, Stopped>> \o OnExit(r), x) => x \in ExitWrites
         /\ \A x : Has(<< <<"taskRun", FALSE>>, Clear("STOPPED") >> \o OnExit(r), x)
                     => x \in ExitWrites \cup {Clear("STOPPED")}
         /\ Has(<<RunOff, Stopped>> \o OnExit(r), RunOff)
         /\ Has(<<RunOff, Stopped>> \o OnExit(r), Stopped)
         /\ After(<<RunOff, Stopped>> \o OnExit(r), RunOff, Stopped)
  <1> DEFINE a == <<"isOpen", FALSE>>
             b == <<"taskRun", FALSE>>
             c == Set("DESTROYED")
             d == State("STOPPED")
             u == IF r.isOpen THEN <<d>> ELSE <<>>
             v == <<a, StopDone, b, Stopped, Resumed, c>>
             w == << b, Clear("STOPPED") >>
  <1>1. ExitWrites = {RunOff, Stopped, d, a, StopDone, b, Resumed, c}
    BY DEF ExitWrites
  <1>2. OnExit(r) = u \o v
    BY DEF OnExit, State, Stopped, Resumed, StopDone
  <1>3. \A x \in {a, b, c, d, Stopped, Resumed, StopDone, RunOff, Clear("STOPPED")} : x \in Writes
    <2>1. a \in Plain /\ d \in Plain /\ Stopped \in Plain /\ Resumed \in Plain /\ StopDone \in Plain
          /\ RunOff \in Plain /\ Clear("STOPPED") \in Plain
      BY OrdinaryWrites, StateNames DEF State, Stopped, Resumed, RunOff
    <2> QED
      BY <2>1, PlainIsNotSpecial DEF Writes
  <1>4. RunOff # Stopped
    BY WriteNames DEF Stopped, Bits
  <1> HIDE DEF a, b, c, d
  <1>5. /\ u \in Seq(Writes) /\ v \in Seq(Writes) /\ <<RunOff, Stopped>> \in Seq(Writes)
        /\ w \in Seq(Writes)
    BY <1>3, ShortSeqs
  <1>6. /\ \A x : Has(u, x) => x \in ExitWrites
        /\ \A x : Has(v, x) => x \in ExitWrites
        /\ \A x : Has(<<RunOff, Stopped>>, x) <=> x \in {RunOff, Stopped}
        /\ \A x : Has(w, x) => x \in ExitWrites \cup {Clear("STOPPED")}
    BY <1>1, LiteralHas
  <1>7. After(<<RunOff, Stopped>>, RunOff, Stopped)
    BY <1>4, SMT DEF After
  <1> HIDE DEF u, v, w
  <1>8. u \o v \in Seq(Writes) /\ \A x : Has(u \o v, x) => x \in ExitWrites
    BY <1>5, <1>6, JoinedSeq, JoinedHas
  <1> DEFINE t == OnExit(r)
  <1>9. t \in Seq(Writes) /\ \A x : Has(t, x) => x \in ExitWrites
    BY <1>2, <1>8
  <1> HIDE DEF t
  <1>10. /\ \A x : Has(<<RunOff, Stopped>> \o t, x) <=> Has(<<RunOff, Stopped>>, x) \/ Has(t, x)
         /\ \A x : Has(w \o t, x) <=> Has(w, x) \/ Has(t, x)
         /\ After(<<RunOff, Stopped>> \o t, RunOff, Stopped)
    BY <1>5, <1>6, <1>7, <1>9, JoinedHas, JoinedAfter
  <1>11. RunOff \in ExitWrites /\ Stopped \in ExitWrites
    BY <1>1
  <1>12. /\ \A x : Has(t, x) => x \in ExitWrites
         /\ \A x : Has(<<RunOff, Stopped>> \o t, x) => x \in ExitWrites
         /\ \A x : Has(w \o t, x) => x \in ExitWrites \cup {Clear("STOPPED")}
         /\ Has(<<RunOff, Stopped>> \o t, RunOff)
         /\ Has(<<RunOff, Stopped>> \o t, Stopped)
    BY <1>6, <1>9, <1>10, <1>11
  <1> QED
    BY <1>10, <1>12 DEF t, w, b

LEMMA FirstHas ==
  ASSUME NEW t, t = << <<"taskRun", TRUE>>, Set("CREATED"), <<"state", "INIT">>, <<"wait", "max">> >>
  PROVE  /\ \A x : Has(t, x) <=> x \in {<<"taskRun", TRUE>>, Set("CREATED"), State("INIT"), MaxWait}
         /\ \A x : Has(t, x) =>
              /\ x \notin {ZeroWait, RunOn, RunOff}
              /\ \A b \in Bits : x # Clear(b) /\ (x = Set(b) => b = "CREATED")
              /\ \A s \in States : x = State(s) => s = "INIT"
  <1> DEFINE a == <<"taskRun", TRUE>>
             b == Set("CREATED")
             c == State("INIT")
  <1>1. a[1] = "taskRun" /\ b[1] = "set" /\ b[2] = "CREATED" /\ c[1] = "state" /\ c[2] = "INIT"
    <2>1. a[1] = "taskRun"
      BY Zenon
    <2> QED
      BY <2>1, WriteNames DEF Bits
  <1>2. t = <<a, b, c, MaxWait>>
    BY DEF State, MaxWait
  <1> HIDE DEF a, b, c
  <1>3. \A x : Has(<<a, b, c, MaxWait>>, x) <=> x \in {a, b, c, MaxWait}
    BY LiteralHas
  <1>4. \A x \in {a, b, c, MaxWait} :
              /\ x \notin {ZeroWait, RunOn, RunOff}
              /\ \A d \in Bits : x # Clear(d) /\ (x = Set(d) => d = "CREATED")
              /\ \A s \in States : x = State(s) => s = "INIT"
    BY <1>1, WriteNames
  <1> QED
    <2>1. \A x : Has(t, x) <=> x \in {a, b, c, MaxWait}
      BY <1>2, <1>3, Zenon
    <2>2. \A x : Has(t, x) =>
              /\ x \notin {ZeroWait, RunOn, RunOff}
              /\ \A d \in Bits : x # Clear(d) /\ (x = Set(d) => d = "CREATED")
              /\ \A s \in States : x = State(s) => s = "INIT"
      BY <1>4, <2>1
    <2> QED
      BY <2>1, <2>2, Zenon DEF a, b, c

LEMMA ClearHas ==
  /\ \A x : Has(<< Clear("STOPPED") >>, x) <=> x = Clear("STOPPED")
  /\ Clear("STOPPED") \notin {RunOn, RunOff, MaxWait, ZeroWait}
  /\ \A b \in Bits : Clear("STOPPED") # Set(b)
  /\ \A s : Clear("STOPPED") # State(s)
  <1>1. Clear("STOPPED")[1] = "clear"
    BY WriteNames DEF Bits
  <1> QED
    BY <1>1, WriteNames, LiteralHas

-----------------------------------------------------------------------------
\* What a task does between two writes: it takes up a handler, or goes on to the next place.
Taken(e, c) ==
  cmdq[e] # <<>> /\ Head(cmdq[e]) = c /\ cmdq' = [cmdq EXCEPT ![e] = Tail(@)]

Passes(e) ==
  /\ pc[e] \in Loop \ {"open", "reopen"} /\ cmdq' = cmdq
  /\ \E p \in {"wait", "blocked", "process", "busy"} :
       /\ Then(e, p, <<>>)
       /\ p = "busy" => el[e].isRunning /\ el[e].state # "INIT"
Halted(e) ==
  /\ \/ pc[e] \in {"open", "reopen", "busy"} /\ cmdq' = cmdq
     \/ pc[e] \in {"wait", "blocked"} /\ Taken(e, "STOP")
  /\ \E p \in {"wait", "process"} : \E ws \in Seq(Plain) : Then(e, p, ws) /\ Halts(el[e], ws)
PausesNow(e) == pc[e] \in {"wait", "blocked"} /\ Taken(e, "PAUSE") /\ Then(e, "process", OnPause)
Resumes(e) ==
  /\ \/ pc[e] \in {"wait", "blocked"} /\ Taken(e, "RESUME")
     \/ pc[e] = "busy" /\ el[e].state = "INIT" /\ cmdq' = cmdq
  /\ \E p \in {"process", "open", "reopen"} : Then(e, p, OnResume(el[e]))
Opens(e) ==
  /\ pc[e] \in {"open", "reopen"} /\ cmdq' = cmdq
  /\ \E p \in {"wait", "process"} : Then(e, p, Opened)
Begins(e) ==
  /\ pc[e] = "begin" /\ cmdq' = cmdq
  /\ Then(e, "init", << <<"taskRun", TRUE>>, Set("CREATED"), <<"state", "INIT">>, <<"wait", "max">> >>)
Allocates(e) == pc[e] = "init" /\ cmdq' = cmdq /\ Then(e, "wait", << Clear("STOPPED") >>)
GivesUp(e) ==
  /\ pc[e] = "init" /\ cmdq' = cmdq /\ fault'
  /\ Then(e, "exit", << <<"taskRun", FALSE>>, Clear("STOPPED") >> \o OnExit(el[e]))
Goes(e) ==
  /\ pc[e] \in {"wait", "blocked"} /\ Taken(e, "DESTROY")
  /\ Then(e, "exit", <<RunOff, Stopped>> \o OnExit(el[e]))
Ends(e) == pc[e] = "exit" /\ cmdq' = cmdq /\ Then(e, "none", <<>>)

Moves(e) ==
  /\ todo[e] = <<>>
  /\ UNCHANGED <<el, pstate, last, agenda, at, failed>>
  /\ \/ Passes(e) \/ Halted(e) \/ PausesNow(e) \/ Resumes(e) \/ Opens(e)
     \/ Begins(e) \/ Allocates(e) \/ GivesUp(e) \/ Goes(e) \/ Ends(e)

\* An element that opens runs: OnResume writes is_running before it calls open.
OpensRunning(e) ==
  pc[e] \in {"open", "reopen"} => (el[e].isRunning \/ Has(todo[e], RunOn)) /\ ~Has(todo[e], RunOff)

LEMMA TaskKinds ==
  ASSUME Shapes, NEW e \in HasTask, OpensRunning(e), Task(e) \/ Fail(e)
  PROVE  Write(e) \/ Moves(e)
  <1>1. e \in Elements /\ el[e] \in Record
    BY ChainAssumption DEF Shapes, TaskTypes
  <1>2. \A p \in {"wait", "blocked", "process", "busy", "open", "reopen"} : p \in Loop
    BY PlaceNames
  <1>3. ASSUME Begin(e) PROVE Moves(e)
    BY <1>3 DEF Begin, Moves, Begins, callVars
  <1>4. ASSUME Allocate(e) PROVE Moves(e)
    BY <1>4 DEF Allocate, Moves, Allocates, GivesUp
  <1>5. ASSUME Wait(e) PROVE Moves(e)
    <2>1. \E p \in {"blocked", "process"} : Then(e, p, <<>>)
      BY <1>5 DEF Wait
    <2>2. Passes(e)
      BY <1>2, <1>5, <2>1 DEF Wait, Passes
    <2> QED
      BY <1>5, <2>2 DEF Wait, Moves, callVars
  <1>6. ASSUME Command(e) PROVE Moves(e)
    <2>1. /\ pc[e] \in {"wait", "blocked"} /\ todo[e] = <<>> /\ cmdq[e] # <<>>
          /\ cmdq' = [cmdq EXCEPT ![e] = Tail(@)]
          /\ UNCHANGED <<el, pstate, last, agenda, at, failed>>
      BY <1>6 DEF Command, callVars
    <2>2. CASE Head(cmdq[e]) = "STOP" /\ Then(e, "process", OnStop(el[e]))
      <3>1. Halts(el[e], OnStop(el[e])) /\ OnStop(el[e]) \in Seq(Plain)
        BY OnStopHalts, OnStopPlain
      <3>2. Halted(e)
        BY <1>2, <2>1, <2>2, <3>1 DEF Halted, Taken
      <3> QED
        BY <2>1, <3>2 DEF Moves
    <2>3. CASE Head(cmdq[e]) = "PAUSE" /\ Then(e, "process", OnPause)
      BY <2>1, <2>3 DEF Moves, PausesNow, Taken
    <2>4. CASE Head(cmdq[e]) = "RESUME"
               /\ Then(e, IF el[e].state = "RUNNING" THEN "process" ELSE "open", OnResume(el[e]))
      <3>1. \E p \in {"process", "open", "reopen"} : Then(e, p, OnResume(el[e]))
        BY <2>4
      <3>2. Resumes(e)
        BY <2>1, <2>4, <3>1 DEF Resumes, Taken
      <3> QED
        BY <2>1, <3>2 DEF Moves
    <2>5. CASE Head(cmdq[e]) = "DESTROY"
               /\ Then(e, "exit", << <<"isRunning", FALSE>>, Set("STOPPED") >> \o OnExit(el[e]))
      <3>1. Goes(e)
        BY <2>1, <2>5, Zenon DEF Goes, Taken, RunOff, Stopped
      <3> QED
        BY <2>1, <3>1 DEF Moves
    <2> QED
      BY <1>6, <2>2, <2>3, <2>4, <2>5 DEF Command
  <1>7. ASSUME Open(e) PROVE Moves(e)
    <2>1. /\ pc[e] \in {"open", "reopen"} /\ todo[e] = <<>> /\ cmdq' = cmdq
          /\ UNCHANGED <<el, pstate, last, agenda, at, failed>>
      BY <1>7 DEF Open, callVars
    <2>2. el[e].isRunning
      <3>1. ~Has(todo[e], RunOn)
        BY <2>1, LiteralHas
      <3> QED
        BY <2>1, <3>1 DEF OpensRunning
    <2> DEFINE next == IF pc[e] = "open" THEN "process" ELSE "wait"
    <2>3. next \in {"wait", "process"}
      OBVIOUS
    <2>4. CASE Then(e, next, Opened)
      <3>1. Opens(e)
        BY <2>1, <2>3, <2>4 DEF Opens
      <3> QED
        BY <2>1, <3>1 DEF Moves
    <2>5. ASSUME NEW res \in {"ABORT", "FAIL"},
                 Then(e, next, OpenFailed(el[e], res)
                               \o (IF pc[e] = "open" THEN << Set("STOPPED") >> ELSE <<>>))
          PROVE  Moves(e)
      <3>1. /\ Halts(el[e], OpenFailed(el[e], res))
            /\ Halts(el[e], OpenFailed(el[e], res) \o << Set("STOPPED") >>)
        BY <1>1, <2>2, OpenFailedHalts DEF Stopped
      <3>2. OpenFailed(el[e], res) \o <<>> = OpenFailed(el[e], res)
        <4>1. OpenFailed(el[e], res) \in Seq(Plain)
          BY <3>1 DEF Halts
        <4> QED
          BY <4>1, ConcatEmptySeq
      <3>3. \E ws : Then(e, next, ws) /\ Halts(el[e], ws)
        BY <2>5, <3>1, <3>2
      <3>4. Halted(e)
        BY <1>2, <2>1, <2>3, <3>3 DEF Halted, Halts
      <3> QED
        BY <2>1, <3>4 DEF Moves
    <2> QED
      BY <1>7, <2>4, <2>5 DEF Open
  <1>8. ASSUME Process(e) PROVE Moves(e)
    <2>1. \/ Then(e, "wait", <<>>)
          \/ Then(e, "busy", <<>>) /\ el[e].isRunning /\ el[e].state # "INIT"
      BY <1>8 DEF Process
    <2>2. Passes(e)
      BY <1>2, <1>8, <2>1 DEF Process, Passes
    <2> QED
      BY <1>8, <2>2 DEF Process, Moves, callVars
  <1>9. ASSUME Busy(e) PROVE Moves(e)
    <2>1. /\ pc[e] = "busy" /\ todo[e] = <<>> /\ cmdq' = cmdq
          /\ UNCHANGED <<el, pstate, last, agenda, at, failed>>
      BY <1>9 DEF Busy, callVars
    <2>2. CASE Then(e, "wait", <<>>)
      <3>1. Passes(e)
        BY <1>2, <2>1, <2>2 DEF Passes
      <3> QED
        BY <2>1, <3>1 DEF Moves
    <2>3. CASE \E ws : Then(e, "wait", ws) /\ Halts(el[e], ws)
      <3>1. Halted(e)
        BY <1>2, <2>1, <2>3 DEF Halted, Halts
      <3> QED
        BY <2>1, <3>1 DEF Moves
    <2>4. CASE el[e].state = "INIT" /\ Then(e, "reopen", OnResume(el[e]))
      <3>1. Resumes(e)
        BY <2>1, <2>4 DEF Resumes
      <3> QED
        BY <2>1, <3>1 DEF Moves
    <2>5. /\ Halts(el[e], OnStop(el[e]))
          /\ Halts(el[e], << <<"rings", "done">> >> \o OnFinish(el[e]))
      BY OnStopHalts, FinishHalts
    <2> QED
      BY <1>9, <2>2, <2>3, <2>4, <2>5, Zenon DEF Busy
  <1>10. ASSUME Fail(e) PROVE Moves(e)
    <2>1. Halts(el[e], OnError(el[e]))
      BY OthersHalt
    <2>2. Halted(e)
      BY <1>2, <1>10, <2>1 DEF Fail, Halted, Halts
    <2> QED
      BY <1>10, <2>2 DEF Fail, Moves, callVars
  <1>11. ASSUME Exit(e) PROVE Moves(e)
    BY <1>11 DEF Exit, Moves, Ends, callVars
  <1> QED
    BY <1>3, <1>4, <1>5, <1>6, <1>7, <1>8, <1>9, <1>10, <1>11 DEF Task

\* One write: the element, its todo, and nothing else.
LEMMA WriteStep ==
  ASSUME Shapes, NEW e \in HasTask, Write(e)
  PROVE  /\ todo[e] \in Seq(Writes) /\ todo[e] # <<>> /\ Head(todo[e]) \in Writes
         /\ el[e] \in Record /\ el'[e] = Written(el[e], Head(todo[e]))
         /\ todo'[e] = Tail(todo[e])
         /\ pc' = pc /\ cmdq' = cmdq /\ UNCHANGED <<pstate, last, agenda, at, failed, fault>>
  <1>1. e \in Elements /\ todo[e] \in Seq(Writes) /\ el[e] \in Record
    BY ChainAssumption DEF Shapes, TaskTypes
  <1>2. todo[e] # <<>> /\ el' = [el EXCEPT ![e] = Written(@, Head(todo[e]))]
        /\ todo' = [todo EXCEPT ![e] = Tail(@)]
        /\ pc' = pc /\ cmdq' = cmdq /\ UNCHANGED <<pstate, last, agenda, at, failed, fault>>
    BY DEF Write, callVars
  <1>3. el'[e] = Written(el[e], Head(todo[e])) /\ todo'[e] = Tail(todo[e])
    BY <1>1, <1>2 DEF Shapes, TaskTypes
  <1> QED
    BY <1>1, <1>2, <1>3, TailHas

\* A task's step touches no other element.
LEMMA TaskApart ==
  ASSUME Shapes, NEW d \in HasTask, Task(d) \/ Fail(d), NEW e \in HasTask, e # d
  PROVE  /\ pc'[e] = pc[e] /\ todo'[e] = todo[e] /\ el'[e] = el[e] /\ cmdq'[e] = cmdq[e]
         /\ UNCHANGED <<pstate, last, agenda, at, failed>>
  <1>1. d \in Elements /\ e \in Elements
    BY ChainAssumption
  <1>2. pc'[e] = pc[e] /\ todo'[e] = todo[e]
    BY TaskElsewhere
  <1>3. \/ el' = el
        \/ el' = [el EXCEPT ![d] = Written(@, Head(todo[d]))]
    BY DEF Task, Write, Begin, Allocate, Wait, Command, Open, Process, Busy, Fail, Exit
  <1>4. cmdq' = cmdq \/ cmdq' = [cmdq EXCEPT ![d] = Tail(@)]
    BY DEF Task, Write, Begin, Allocate, Wait, Command, Open, Process, Busy, Fail, Exit
  <1>5. UNCHANGED <<pstate, last, agenda, at, failed>>
    BY DEF Task, Write, Begin, Allocate, Wait, Command, Open, Process, Busy, Fail, Exit, callVars
  <1>6. el'[e] = el[e]
    BY <1>1, <1>3 DEF Shapes, TaskTypes
  <1>7. cmdq'[e] = cmdq[e]
    BY <1>1, <1>4 DEF Shapes, TaskTypes
  <1> QED
    BY <1>2, <1>5, <1>6, <1>7

-----------------------------------------------------------------------------
\* What a call does to the element it is made on.
Fields(e, st, wt, bs) ==
  /\ el'[e].state = st /\ el'[e].wait = wt /\ el'[e].bits = bs
  /\ el'[e].isRunning = el[e].isRunning /\ el'[e].taskRun = el[e].taskRun
SameFields(e) == Fields(e, el[e].state, el[e].wait, el[e].bits)

LEMMA CallFields ==
  ASSUME Shapes, NEW e \in Elements, Callee = e
  PROVE  /\ \A b \in Bits : With(b) => Fields(e, el[e].state, el[e].wait, el[e].bits \cup {b})
         /\ \A b \in Bits : Without(b) => Fields(e, el[e].state, el[e].wait, el[e].bits \ {b})
         /\ \A s \in States : Update([el[e] EXCEPT !.state = s]) => Fields(e, s, el[e].wait, el[e].bits)
         /\ Update([el[e] EXCEPT !.wait = "zero"]) => Fields(e, el[e].state, "zero", el[e].bits)
         /\ \A v \in BOOLEAN : Update([el[e] EXCEPT !.stopping = v]) => SameFields(e)
         /\ Update([el[e] EXCEPT !.bits = @ \ {"CREATED"}, !.state = "ERROR"])
              => Fields(e, "ERROR", el[e].wait, el[e].bits \ {"CREATED"})
         /\ Update(el[e]) => SameFields(e)
         /\ UNCHANGED el => SameFields(e)
  <1> DEFINE r == el[e]
  <1>1. r \in Record
    BY DEF Shapes, TaskTypes
  <1>2. \A x : Update(x) => el'[e] = x
    BY UpdatedRecord
  <1>3. ASSUME NEW b \in Bits, With(b)
        PROVE  Fields(e, r.state, r.wait, r.bits \cup {b})
    <2>1. el'[e] = [r EXCEPT !.bits = @ \cup {b}]
      BY <1>2, <1>3 DEF With
    <2> QED
      BY <1>1, <2>1, SMT DEF Fields, Record
  <1>4. ASSUME NEW b \in Bits, Without(b)
        PROVE  Fields(e, r.state, r.wait, r.bits \ {b})
    <2>1. el'[e] = [r EXCEPT !.bits = @ \ {b}]
      BY <1>2, <1>4 DEF Without
    <2> QED
      BY <1>1, <2>1, SMT DEF Fields, Record
  <1>5. ASSUME NEW s \in States, Update([r EXCEPT !.state = s])
        PROVE  Fields(e, s, r.wait, r.bits)
    <2>1. el'[e] = [r EXCEPT !.state = s]
      BY <1>2, <1>5
    <2> QED
      BY <1>1, <2>1, SMT DEF Fields, Record
  <1>6. ASSUME Update([r EXCEPT !.wait = "zero"])
        PROVE  Fields(e, r.state, "zero", r.bits)
    <2>1. el'[e] = [r EXCEPT !.wait = "zero"]
      BY <1>2, <1>6
    <2> QED
      BY <1>1, <2>1, SMT DEF Fields, Record
  <1>7. ASSUME NEW v \in BOOLEAN, Update([r EXCEPT !.stopping = v])
        PROVE  SameFields(e)
    <2>1. el'[e] = [r EXCEPT !.stopping = v]
      BY <1>2, <1>7
    <2> QED
      BY <1>1, <2>1, SMT DEF Fields, SameFields, Record
  <1>8. ASSUME Update([r EXCEPT !.bits = @ \ {"CREATED"}, !.state = "ERROR"])
        PROVE  Fields(e, "ERROR", r.wait, r.bits \ {"CREATED"})
    <2>1. el'[e] = [r EXCEPT !.bits = @ \ {"CREATED"}, !.state = "ERROR"]
      BY <1>2, <1>8
    <2> QED
      BY <1>1, <2>1, SMT DEF Fields, Record
  <1>9. Update(r) => SameFields(e)
    BY <1>2 DEF Fields, SameFields
  <1>10. UNCHANGED el => SameFields(e)
    BY DEF Fields, SameFields
  <1> QED
    BY <1>3, <1>4, <1>5, <1>6, <1>7, <1>8, <1>9, <1>10

\* The callee has a task: which fields the call writes at which step, what it sends, and
\* where the caller arrives.
Touches(e) ==
  /\ el'[e].isRunning = el[e].isRunning /\ el'[e].taskRun = el[e].taskRun
  /\ el'[e].wait = el[e].wait \/ el[e].state = "PAUSED"
  /\ \/ el'[e].state = el[e].state
     \/ el'[e].state = "ERROR"
     \/ el'[e].state = "INIT" /\ (Caller("wait", 3, e) \/ Caller("reset_state", 1, e))
     \/ el'[e].state = "PAUSED" /\ Caller("pause", 1, e)
  /\ \A b \in Bits :
       /\ b \in el'[e].bits =>
            b \in el[e].bits \/ (b = "STOPPED" /\ Caller("stop", 2, e) /\ ~el[e].isRunning)
       /\ b \in el[e].bits =>
            \/ b \in el'[e].bits
            \/ b = "STOPPED" /\ Caller("stop", 4, e)
            \/ b = "RESUMED" /\ Caller("resume", 2, e)
            \/ b = "PAUSED" /\ Caller("pause", 1, e)
            \/ b = "CREATED" /\ Caller("run", 1, e)
            \/ b = "DESTROYED" /\ Caller("terminate", 2, e)
Sends(e) ==
  \/ cmdq' = cmdq /\ UNCHANGED <<pc, todo>>
  \/ /\ Caller("run", 1, e) /\ ~Uses(e) /\ cmdq' = [cmdq EXCEPT ![e] = <<>>]
     /\ \/ UNCHANGED <<pc, todo>>
        \/ Then(e, "begin", <<>>) /\ Goto(2) /\ "CREATED" \notin el'[e].bits
  \/ /\ UNCHANGED <<pc, todo>>
     /\ \/ /\ Caller("resume", 2, e) /\ cmdq' = [cmdq EXCEPT ![e] = Append(@, "RESUME")]
           /\ Goto(3) /\ "RESUMED" \notin el'[e].bits
        \/ Caller("pause", 2, e) /\ cmdq' = [cmdq EXCEPT ![e] = Append(@, "PAUSE")] /\ Goto(3)
        \/ Caller("stop", 6, e) /\ cmdq' = [cmdq EXCEPT ![e] = Append(@, "STOP")] /\ Return
        \/ Caller("terminate", 2, e) /\ cmdq' = [cmdq EXCEPT ![e] = Append(@, "DESTROY")] /\ Goto(3)
\* The steps at which the caller stays in the function, and what it has seen by then.
Stays(e) ==
  \/ /\ Return \/ ReturnFail \/ GiveUp \/ GiveUpFail
     /\ Caller("resume", 2, e) => GiveUpFail
     /\ Caller("resume", 3, e) => "RESUMED" \in el[e].bits \/ GiveUpFail
     /\ Caller("pause", 3, e) => "PAUSED" \in el[e].bits \/ GiveUp
  \/ \E j, k \in 1 .. 6 : Caller("stop", j, e) /\ Goto(k)
  \/ Caller("run", 1, e) /\ Goto(2) /\ pc'[e] = "begin"
  \/ Caller("resume", 1, e) /\ Goto(2) /\ el[e].taskRun
  \/ /\ Caller("resume", 2, e) /\ Goto(3)
     /\ cmdq' = [cmdq EXCEPT ![e] = Append(@, "RESUME")] /\ "RESUMED" \notin el'[e].bits
  \/ Caller("pause", 1, e) /\ Goto(2) /\ el[e].taskRun /\ "PAUSED" \notin el'[e].bits
  \/ Caller("pause", 2, e) /\ Goto(3) /\ cmdq' = [cmdq EXCEPT ![e] = Append(@, "PAUSE")]
  \/ Caller("wait", 1, e) /\ Goto(2) /\ el[e].isRunning
  \/ Caller("wait", 1, e) /\ Goto(3) /\ ~el[e].isRunning
  \/ Caller("wait", 2, e) /\ "STOPPED" \in el[e].bits /\ Goto(3)
  \/ Caller("wait_ms", 1, e) /\ Goto(2) /\ el[e].isRunning
  \/ Caller("terminate", 1, e) /\ Goto(2) /\ el[e].taskRun
  \/ Caller("terminate", 2, e) /\ Goto(3) /\ cmdq' = [cmdq EXCEPT ![e] = Append(@, "DESTROY")]

LEMMA RunCall ==
  ASSUME Shapes, NEW e \in HasTask, Callee = e, ElementRun
  PROVE  Touches(e) /\ Sends(e) /\ Stays(e)
  <1>1. e \in Elements /\ el[e] \in Record /\ el[e].bits \subseteq Bits
    BY ChainAssumption DEF Shapes, TaskTypes, Record
  <1>2. /\ \A f, g, k, j : Caller(f, k, e) /\ Caller(g, j, e) => f = g /\ k = j
        /\ \A f, k : Caller(f, k, e) <=> At(f, k)
    BY CallerUnique DEF Caller
  <1>3. "CREATED" \in Bits /\ "ERROR" \in States
    BY DEF Bits, States
  <1>4. CASE At("run", 1)
    <2>1. CASE Return /\ UNCHANGED <<el, taskVars, ring, live>>
      <3>1. SameFields(e)
        BY <1>1, <2>1, CallFields
      <3> QED
        BY <1>2, <1>4, <2>1, <3>1 DEF Touches, Sends, Stays, Fields, SameFields, taskVars
    <2>2. CASE /\ ~Uses(e) /\ cmdq' = [cmdq EXCEPT ![e] = <<>>]
               /\ Without("CREATED") /\ Then(e, "begin", <<>>) /\ Goto(2)
      <3>1. Fields(e, el[e].state, el[e].wait, el[e].bits \ {"CREATED"})
        BY <1>1, <1>3, <2>2, CallFields
      <3>2. pc'[e] = "begin"
        BY <1>1, <2>2 DEF Then, Shapes, TaskTypes
      <3>3. Touches(e)
        BY <1>2, <1>4, <3>1 DEF Touches, Fields
      <3>4. Sends(e)
        BY <1>2, <1>4, <2>2, <3>1 DEF Sends, Fields
      <3> QED
        BY <1>2, <1>4, <2>2, <3>2, <3>3, <3>4 DEF Stays
    <2>3. CASE /\ ~Uses(e) /\ cmdq' = [cmdq EXCEPT ![e] = <<>>]
               /\ Update([el[e] EXCEPT !.bits = @ \ {"CREATED"}, !.state = "ERROR"])
               /\ GiveUp /\ UNCHANGED <<pc, todo>>
      <3>1. Fields(e, "ERROR", el[e].wait, el[e].bits \ {"CREATED"})
        BY <1>1, <2>3, CallFields
      <3>2. Touches(e)
        BY <1>2, <1>4, <3>1 DEF Touches, Fields
      <3> QED
        BY <1>2, <1>4, <2>3, <3>2 DEF Sends, Stays
    <2>4. ~At("run", 2)
      BY <1>4 DEF At
    <2> QED
      BY <1>4, <2>1, <2>2, <2>3, <2>4 DEF ElementRun
  <1>5. CASE At("run", 2)
    <2>1. (Return \/ GiveUp) /\ UNCHANGED <<el, taskVars, ring, live>>
      BY <1>5 DEF ElementRun, At, Waited
    <2>2. SameFields(e)
      BY <1>1, <2>1, CallFields
    <2> QED
      BY <1>2, <1>5, <2>1, <2>2 DEF Touches, Sends, Stays, Fields, SameFields, taskVars
  <1> QED
    BY <1>4, <1>5 DEF ElementRun

LEMMA ResumeCall ==
  ASSUME Shapes, NEW e \in HasTask, Callee = e, ElementResume
  PROVE  Touches(e) /\ Sends(e) /\ Stays(e)
  <1>1. e \in Elements /\ el[e] \in Record /\ el[e].bits \subseteq Bits
    BY ChainAssumption DEF Shapes, TaskTypes, Record
  <1>2. /\ \A f, g, k, j : Caller(f, k, e) /\ Caller(g, j, e) => f = g /\ k = j
        /\ \A f, k : Caller(f, k, e) <=> At(f, k)
    BY CallerUnique DEF Caller
  <1>3. "RESUMED" \in Bits
    BY DEF Bits
  <1>4. UNCHANGED <<pc, todo>>
    BY DEF ElementResume
  <1>5. CASE At("resume", 1)
    <2>1. /\ \/ Return \/ ReturnFail
             \/ Goto(2) /\ el[e].taskRun
          /\ UNCHANGED <<el, cmdq>>
      <3>1. ~At("resume", 2) /\ ~At("resume", 3)
        BY <1>5 DEF At
      <3> QED
        BY <3>1, Zenon DEF ElementResume
    <2>2. SameFields(e)
      BY <1>1, <2>1, CallFields
    <2> QED
      BY <1>2, <1>4, <1>5, <2>1, <2>2 DEF Touches, Sends, Stays, Fields, SameFields
  <1>6. CASE At("resume", 2)
    <2>1. /\ Without("RESUMED")
          /\ \/ GiveUpFail /\ UNCHANGED cmdq
             \/ cmdq' = [cmdq EXCEPT ![e] = Append(@, "RESUME")] /\ Goto(3)
      BY <1>6 DEF ElementResume, At, SendCmd
    <2>2. Fields(e, el[e].state, el[e].wait, el[e].bits \ {"RESUMED"})
      BY <1>1, <1>3, <2>1, CallFields
    <2>3. Touches(e)
      BY <1>2, <1>6, <2>2 DEF Touches, Fields
    <2>4. "RESUMED" \notin el'[e].bits
      BY <2>2 DEF Fields
    <2> QED
      BY <1>2, <1>4, <1>6, <2>1, <2>3, <2>4 DEF Sends, Stays
  <1>7. CASE At("resume", 3)
    <2>1. /\ \/ "RESUMED" \in el[e].bits /\ Return
             \/ GiveUpFail
          /\ UNCHANGED <<el, cmdq>>
      BY <1>7 DEF ElementResume, At, Seen
    <2>2. SameFields(e)
      BY <1>1, <2>1, CallFields
    <2> QED
      BY <1>2, <1>4, <1>7, <2>1, <2>2 DEF Touches, Sends, Stays, Fields, SameFields
  <1> QED
    BY <1>5, <1>6, <1>7 DEF ElementResume

LEMMA PauseCall ==
  ASSUME Shapes, NEW e \in HasTask, Callee = e, ElementPause
  PROVE  Touches(e) /\ Sends(e) /\ Stays(e)
  <1>1. e \in Elements /\ el[e] \in Record /\ el[e].bits \subseteq Bits
    BY ChainAssumption DEF Shapes, TaskTypes, Record
  <1>2. /\ \A f, g, k, j : Caller(f, k, e) /\ Caller(g, j, e) => f = g /\ k = j
        /\ \A f, k : Caller(f, k, e) <=> At(f, k)
    BY CallerUnique DEF Caller
  <1>3. "PAUSED" \in Bits /\ "PAUSED" \in States
    BY DEF Bits, States
  <1>4. UNCHANGED <<pc, todo>>
    BY DEF ElementPause
  <1>5. CASE At("pause", 1)
    <2>1. /\ UNCHANGED cmdq
          /\ \/ Return /\ UNCHANGED el
             \/ Return /\ Update([el[e] EXCEPT !.state = "PAUSED"])
             \/ el[e].taskRun /\ Without("PAUSED") /\ Goto(2)
      <3>1. ~At("pause", 2) /\ ~At("pause", 3)
        BY <1>5 DEF At
      <3> QED
        BY <3>1, Zenon DEF ElementPause
    <2>2. CASE Return /\ UNCHANGED el
      <3>1. SameFields(e)
        BY <1>1, <2>2, CallFields
      <3> QED
        BY <1>2, <1>4, <1>5, <2>1, <2>2, <3>1 DEF Touches, Sends, Stays, Fields, SameFields
    <2>3. CASE Return /\ Update([el[e] EXCEPT !.state = "PAUSED"])
      <3>1. Fields(e, "PAUSED", el[e].wait, el[e].bits)
        BY <1>1, <1>3, <2>3, CallFields
      <3>2. Touches(e)
        BY <1>2, <1>5, <3>1 DEF Touches, Fields
      <3> QED
        BY <1>2, <1>4, <1>5, <2>1, <2>3, <3>2 DEF Sends, Stays
    <2>4. CASE el[e].taskRun /\ Without("PAUSED") /\ Goto(2)
      <3>1. Fields(e, el[e].state, el[e].wait, el[e].bits \ {"PAUSED"})
        BY <1>1, <1>3, <2>4, CallFields
      <3>2. Touches(e)
        BY <1>2, <1>5, <3>1 DEF Touches, Fields
      <3>3. "PAUSED" \notin el'[e].bits
        BY <3>1 DEF Fields
      <3> QED
        BY <1>2, <1>4, <1>5, <2>1, <2>4, <3>2, <3>3 DEF Sends, Stays
    <2> QED
      BY <2>1, <2>2, <2>3, <2>4
  <1>6. CASE At("pause", 2)
    <2>1. /\ UNCHANGED el
          /\ \/ GiveUp /\ UNCHANGED cmdq
             \/ cmdq' = [cmdq EXCEPT ![e] = Append(@, "PAUSE")] /\ Goto(3)
      BY <1>6 DEF ElementPause, At, SendCmd
    <2>2. SameFields(e)
      BY <1>1, <2>1, CallFields
    <2>3. Touches(e)
      BY <1>2, <2>2 DEF Touches, Fields, SameFields
    <2> QED
      BY <1>2, <1>4, <1>6, <2>1, <2>3 DEF Sends, Stays
  <1>7. CASE At("pause", 3)
    <2>1. /\ \/ "PAUSED" \in el[e].bits /\ Return
             \/ GiveUp
          /\ UNCHANGED <<el, cmdq>>
      BY <1>7 DEF ElementPause, At, Seen, Waited
    <2>2. SameFields(e)
      BY <1>1, <2>1, CallFields
    <2> QED
      BY <1>2, <1>4, <1>7, <2>1, <2>2 DEF Touches, Sends, Stays, Fields, SameFields
  <1> QED
    BY <1>5, <1>6, <1>7 DEF ElementPause

LEMMA StopCall ==
  ASSUME Shapes, NEW e \in HasTask, Callee = e, ElementStop
  PROVE  Touches(e) /\ Sends(e) /\ Stays(e)
  <1>1. e \in Elements /\ el[e] \in Record /\ el[e].bits \subseteq Bits
    BY ChainAssumption DEF Shapes, TaskTypes, Record
  <1>2. /\ \A f, g, k, j : Caller(f, k, e) /\ Caller(g, j, e) => f = g /\ k = j
        /\ \A f, k : Caller(f, k, e) <=> At(f, k)
    BY CallerUnique DEF Caller
  <1>3. "STOPPED" \in Bits /\ \A k \in {1, 2, 3, 4, 5, 6} : k \in 1 .. 6
    BY SMT DEF Bits
  <1>4. UNCHANGED <<pc, todo>>
    BY DEF ElementStop
  <1> DEFINE Frame == Touches(e) /\ (UNCHANGED cmdq => Sends(e))
  <1>5. SameFields(e) => Frame
    BY <1>2, <1>4 DEF Touches, Sends, Fields, SameFields
  <1>6. Return \/ GiveUp => \A k \in 1 .. 6 : Caller("stop", k, e) => Stays(e)
    BY <1>2 DEF Stays
  <1>7. \A j, k \in 1 .. 6 : Caller("stop", j, e) /\ Goto(k) => Stays(e)
    BY DEF Stays
  <1>8. CASE At("stop", 1)
    <2>0. ~At("stop", 2) /\ ~At("stop", 3) /\ ~At("stop", 4) /\ ~At("stop", 5) /\ ~At("stop", 6)
      BY <1>8 DEF At
    <2>1. /\ UNCHANGED cmdq
          /\ \/ Return /\ UNCHANGED el
             \/ Goto(2) /\ Update([el[e] EXCEPT !.wait = "zero"]) /\ el[e].state = "PAUSED"
             \/ Goto(2) /\ Update(el[e])
      BY <2>0 DEF ElementStop
    <2>2. CASE SameFields(e)
      BY <1>2, <1>3, <1>5, <1>6, <1>7, <1>8, <2>1, <2>2
    <2>3. CASE Goto(2) /\ Update([el[e] EXCEPT !.wait = "zero"]) /\ el[e].state = "PAUSED"
      <3>1. Fields(e, el[e].state, "zero", el[e].bits)
        BY <1>1, <2>3, CallFields
      <3>2. Touches(e)
        BY <1>2, <2>3, <3>1 DEF Touches, Fields
      <3> QED
        BY <1>2, <1>3, <1>4, <1>7, <1>8, <2>1, <2>3, <3>2 DEF Sends
    <2> QED
      BY <1>1, <2>1, <2>2, <2>3, CallFields
  <1>9. CASE At("stop", 2)
    <2>0. ~At("stop", 1) /\ ~At("stop", 3) /\ ~At("stop", 4) /\ ~At("stop", 5) /\ ~At("stop", 6)
      BY <1>9 DEF At
    <2>1. /\ UNCHANGED cmdq
          /\ \/ ~el[e].isRunning /\ With("STOPPED") /\ Return
             \/ Goto(3) /\ UNCHANGED el
      BY <2>0, Zenon DEF ElementStop
    <2>2. CASE ~el[e].isRunning /\ With("STOPPED") /\ Return
      <3>1. Fields(e, el[e].state, el[e].wait, el[e].bits \cup {"STOPPED"})
        BY <1>1, <1>3, <2>2, CallFields
      <3>2. Touches(e)
        BY <1>2, <1>9, <2>2, <3>1 DEF Touches, Fields
      <3> QED
        BY <1>2, <1>3, <1>4, <1>6, <1>9, <2>1, <2>2, <3>2 DEF Sends
    <2>3. CASE Goto(3) /\ UNCHANGED el
      BY <1>1, <1>2, <1>3, <1>5, <1>7, <1>9, <2>1, <2>3, CallFields
    <2> QED
      BY <2>1, <2>2, <2>3
  <1>10. CASE At("stop", 3)
    <2>0. ~At("stop", 1) /\ ~At("stop", 2) /\ ~At("stop", 4) /\ ~At("stop", 5) /\ ~At("stop", 6)
      BY <1>10 DEF At
    <2>1. /\ UNCHANGED <<el, cmdq>>
          /\ Goto(4) \/ Goto(5)
      BY <2>0 DEF ElementStop
    <2> QED
      <3>1. SameFields(e)
        BY <1>1, <2>1, CallFields
      <3>2. Stays(e)
        BY <1>2, <1>3, <1>7, <1>10, <2>1
      <3> QED
        BY <1>5, <2>1, <3>1, <3>2
  <1>11. CASE At("stop", 4)
    <2>0. ~At("stop", 1) /\ ~At("stop", 2) /\ ~At("stop", 3) /\ ~At("stop", 5) /\ ~At("stop", 6)
      BY <1>11 DEF At
    <2>1. UNCHANGED cmdq /\ Without("STOPPED") /\ Goto(5)
      BY <2>0, Zenon DEF ElementStop
    <2>2. Fields(e, el[e].state, el[e].wait, el[e].bits \ {"STOPPED"})
      BY <1>1, <1>3, <2>1, CallFields
    <2>3. Touches(e)
      BY <1>2, <1>11, <2>2 DEF Touches, Fields
    <2> QED
      BY <1>2, <1>3, <1>4, <1>7, <1>11, <2>1, <2>3 DEF Sends
  <1>12. CASE At("stop", 5)
    <2>0. ~At("stop", 1) /\ ~At("stop", 2) /\ ~At("stop", 3) /\ ~At("stop", 4) /\ ~At("stop", 6)
      BY <1>12 DEF At
    <2>1. /\ UNCHANGED cmdq
          /\ \/ Return /\ UNCHANGED el
             \/ Goto(6) /\ Update([el[e] EXCEPT !.stopping = TRUE])
      BY <2>0, Zenon DEF ElementStop
    <2>2. SameFields(e)
      BY <1>1, <2>1, CallFields
    <2> QED
      BY <1>2, <1>3, <1>5, <1>6, <1>7, <1>12, <2>1, <2>2
  <1>13. CASE At("stop", 6)
    <2>0. ~At("stop", 1) /\ ~At("stop", 2) /\ ~At("stop", 3) /\ ~At("stop", 4) /\ ~At("stop", 5)
      BY <1>13 DEF At
    <2>1. \/ Update([el[e] EXCEPT !.stopping = FALSE]) /\ GiveUp /\ UNCHANGED cmdq
          \/ SendCmd("STOP") /\ Return /\ UNCHANGED el
      BY <2>0, Zenon DEF ElementStop
    <2>2. SameFields(e)
      BY <1>1, <2>1, CallFields
    <2>3. SendCmd("STOP") /\ Return => Sends(e)
      BY <1>2, <1>4, <1>13, Zenon DEF Sends, SendCmd
    <2> QED
      BY <1>2, <1>3, <1>5, <1>6, <1>13, <2>1, <2>2, <2>3
  <1> QED
    BY <1>8, <1>9, <1>10, <1>11, <1>12, <1>13 DEF ElementStop

LEMMA WaitCall ==
  ASSUME Shapes, NEW e \in HasTask, Callee = e, ElementWait
  PROVE  Touches(e) /\ Sends(e) /\ Stays(e)
  <1>1. e \in Elements /\ el[e] \in Record /\ el[e].bits \subseteq Bits
    BY ChainAssumption DEF Shapes, TaskTypes, Record
  <1>2. /\ \A f, g, k, j : Caller(f, k, e) /\ Caller(g, j, e) => f = g /\ k = j
        /\ \A f, k : Caller(f, k, e) <=> At(f, k)
    BY CallerUnique DEF Caller
  <1>3. Sends(e)
    BY DEF ElementWait, Sends, taskVars
  <1>4. SameFields(e) => Touches(e)
    BY DEF Touches, Fields, SameFields
  <1>5. CASE UNCHANGED el
    <2>1. Touches(e)
      BY <1>1, <1>4, <1>5, CallFields
    <2>2. CASE At("wait", 1)
      <3>1. (Goto(2) /\ el[e].isRunning) \/ (Goto(3) /\ ~el[e].isRunning)
        <4>1. ~At("wait", 2) /\ ~At("wait", 3) /\ ~At("wait_ms", 1) /\ ~At("wait_ms", 2)
          BY <2>2 DEF At
        <4> QED
          BY <4>1 DEF ElementWait
      <3> QED
        BY <1>2, <1>3, <2>1, <2>2, <3>1 DEF Stays
    <2>3. CASE At("wait", 2)
      <3>1. Goto(3) /\ "STOPPED" \in el[e].bits
        <4>1. ~At("wait", 1) /\ ~At("wait", 3) /\ ~At("wait_ms", 1) /\ ~At("wait_ms", 2)
          BY <2>3 DEF At
        <4> QED
          BY <4>1 DEF ElementWait, Seen
      <3> QED
        BY <1>2, <1>3, <2>1, <2>3, <3>1 DEF Stays
    <2>4. CASE At("wait", 3)
      <3>1. Return
        <4>1. ~At("wait", 1) /\ ~At("wait", 2) /\ ~At("wait_ms", 1) /\ ~At("wait_ms", 2)
          BY <2>4 DEF At
        <4> QED
          BY <4>1, Zenon DEF ElementWait
      <3> QED
        BY <1>2, <1>3, <2>1, <2>4, <3>1 DEF Stays
    <2>5. CASE At("wait_ms", 1)
      <3>1. (Goto(2) /\ el[e].isRunning) \/ Return
        <4>1. ~At("wait", 1) /\ ~At("wait", 2) /\ ~At("wait", 3) /\ ~At("wait_ms", 2)
          BY <2>5 DEF At
        <4> QED
          BY <4>1 DEF ElementWait
      <3> QED
        BY <1>2, <1>3, <2>1, <2>5, <3>1 DEF Stays
    <2>6. CASE At("wait_ms", 2)
      <3>1. Return \/ GiveUp
        <4>1. ~At("wait", 1) /\ ~At("wait", 2) /\ ~At("wait", 3) /\ ~At("wait_ms", 1)
          BY <2>6 DEF At
        <4> QED
          BY <4>1 DEF ElementWait, Waited
      <3> QED
        BY <1>2, <1>3, <2>1, <2>6, <3>1 DEF Stays
    <2> QED
      BY <2>2, <2>3, <2>4, <2>5, <2>6 DEF ElementWait
  <1>6. CASE At("wait", 3) /\ Update([el[e] EXCEPT !.state = "INIT"]) /\ Return
    <2>1. Fields(e, "INIT", el[e].wait, el[e].bits)
      BY <1>1, <1>6, CallFields, StateNames
    <2>2. Touches(e)
      BY <1>2, <1>6, <2>1 DEF Touches, Fields
    <2> QED
      BY <1>2, <1>3, <1>6, <2>2 DEF Stays
  <1> QED
    BY <1>5, <1>6, Zenon DEF ElementWait

LEMMA OtherCall ==
  ASSUME Shapes, NEW e \in HasTask, Callee = e, ElementReset \/ ElementFree
  PROVE  Touches(e) /\ Sends(e) /\ Stays(e)
  <1>1. e \in Elements /\ el[e] \in Record /\ el[e].bits \subseteq Bits
    BY ChainAssumption DEF Shapes, TaskTypes, Record
  <1>2. /\ \A f, g, k, j : Caller(f, k, e) /\ Caller(g, j, e) => f = g /\ k = j
        /\ \A f, k : Caller(f, k, e) <=> At(f, k)
    BY CallerUnique DEF Caller
  <1>3. Sends(e) /\ Return
    BY DEF ElementReset, ElementFree, Sends, taskVars
  <1>4. \A k : ~Caller("resume", k, e) /\ ~Caller("pause", k, e)
    <2>1. At("free", 1) \/ At("reset_rings", 1) \/ At("reset_state", 1)
      BY DEF ElementReset, ElementFree
    <2>2. \A k : ~At("resume", k) /\ ~At("pause", k)
      BY <2>1 DEF At
    <2> QED
      BY <2>2 DEF Caller
  <1>5. Stays(e)
    BY <1>3, <1>4 DEF Stays
  <1>6. CASE UNCHANGED el
    <2>1. Touches(e)
      BY <1>1, <1>6, CallFields DEF Touches, Fields, SameFields
    <2> QED
      BY <1>3, <1>5, <2>1
  <1>7. CASE At("reset_state", 1) /\ Update([el[e] EXCEPT !.state = "INIT"])
    <2>1. Fields(e, "INIT", el[e].wait, el[e].bits)
      BY <1>1, <1>7, CallFields, StateNames
    <2>2. Touches(e)
      BY <1>2, <1>7, <2>1 DEF Touches, Fields
    <2> QED
      BY <1>3, <1>5, <2>2
  <1> QED
    BY <1>6, <1>7 DEF ElementReset, ElementFree

LEMMA TerminateCall ==
  ASSUME Shapes, NEW e \in HasTask, Callee = e, ElementTerminate
  PROVE  Touches(e) /\ Sends(e) /\ Stays(e)
  <1>1. e \in Elements /\ el[e] \in Record /\ el[e].bits \subseteq Bits
    BY ChainAssumption DEF Shapes, TaskTypes, Record
  <1>2. /\ \A f, g, k, j : Caller(f, k, e) /\ Caller(g, j, e) => f = g /\ k = j
        /\ \A f, k : Caller(f, k, e) <=> At(f, k)
    BY CallerUnique DEF Caller
  <1>3. "DESTROYED" \in Bits
    BY DEF Bits
  <1>4. UNCHANGED <<pc, todo>>
    BY DEF ElementTerminate
  <1>5. CASE At("terminate", 1)
    <2>1. /\ \/ Return
             \/ Goto(2) /\ el[e].taskRun
          /\ UNCHANGED <<el, cmdq>>
      <3>1. ~At("terminate", 2) /\ ~At("terminate", 3)
        BY <1>5 DEF At
      <3> QED
        BY <3>1, Zenon DEF ElementTerminate
    <2>2. SameFields(e)
      BY <1>1, <2>1, CallFields
    <2> QED
      BY <1>2, <1>4, <1>5, <2>1, <2>2 DEF Touches, Sends, Stays, Fields, SameFields
  <1>6. CASE At("terminate", 2)
    <2>1. /\ Without("DESTROYED")
          /\ \/ GiveUp /\ UNCHANGED cmdq
             \/ cmdq' = [cmdq EXCEPT ![e] = Append(@, "DESTROY")] /\ Goto(3)
      BY <1>6 DEF ElementTerminate, At, SendCmd
    <2>2. Fields(e, el[e].state, el[e].wait, el[e].bits \ {"DESTROYED"})
      BY <1>1, <1>3, <2>1, CallFields
    <2>3. Touches(e)
      BY <1>2, <1>6, <2>2 DEF Touches, Fields
    <2> QED
      BY <1>2, <1>4, <1>6, <2>1, <2>3 DEF Sends, Stays
  <1>7. CASE At("terminate", 3)
    <2>1. (Return \/ GiveUp) /\ UNCHANGED <<el, cmdq>>
      BY <1>7 DEF ElementTerminate, At, Waited
    <2>2. SameFields(e)
      BY <1>1, <2>1, CallFields
    <2> QED
      BY <1>2, <1>4, <1>7, <2>1, <2>2 DEF Touches, Sends, Stays, Fields, SameFields
  <1> QED
    BY <1>5, <1>6, <1>7 DEF ElementTerminate

\* All of the element functions.
LEMMA CalleeStep ==
  ASSUME Shapes, NEW e \in HasTask, ElementCall, Callee = e
  PROVE  Touches(e) /\ Sends(e) /\ Stays(e)
  BY RunCall, ResumeCall, PauseCall, StopCall, WaitCall, OtherCall, TerminateCall, Zenon DEF ElementCall

\* A call touches no other element, and what is not a call touches none.
LEMMA OthersApart ==
  ASSUME Shapes, NEW e \in Elements, (ElementCall /\ Callee # e) \/ Operation \/ Between \/ Drain
  PROVE  /\ pc'[e] = pc[e] /\ todo'[e] = todo[e] /\ el'[e] = el[e] /\ cmdq'[e] = cmdq[e]
  <1>1. CASE ElementCall /\ Callee # e
    <2>1. /\ \/ el' = el
             \/ \E r : Update(r)
          /\ \/ UNCHANGED <<pc, todo>>
             \/ Then(Callee, "begin", <<>>)
          /\ \/ UNCHANGED cmdq
             \/ cmdq' = [cmdq EXCEPT ![Callee] = <<>>]
             \/ \E c : SendCmd(c)
      <3>1. \/ el' = el
            \/ \E r : Update(r)
        <4>1. \A b : With(b) \/ Without(b) => \E r : Update(r)
          BY DEF With, Without
        <4> QED
          BY <1>1, <4>1, Zenon DEF ElementCall, ElementRun, ElementResume, ElementPause, ElementStop,
             ElementWait, ElementReset, ElementTerminate, ElementFree
      <3> QED
        BY <1>1, <3>1, CallTasks
    <2>2. el'[e] = el[e]
      BY <1>1, <2>1 DEF Update, Shapes, TaskTypes
    <2>3. pc'[e] = pc[e] /\ todo'[e] = todo[e]
      BY <1>1, <2>1 DEF Then, Shapes, TaskTypes
    <2>4. cmdq'[e] = cmdq[e]
      BY <1>1, <2>1 DEF SendCmd, Shapes, TaskTypes
    <2> QED
      BY <2>2, <2>3, <2>4
  <1>2. CASE Operation
    BY <1>2 DEF Operation, PipelineRun, PipelineResume, PipelinePause, PipelineStop, taskVars,
                PipelineWaitForStop, PipelineTerminate, PipelineReset, PipelineDeinit, Start
  <1>3. CASE Between \/ Drain
    BY <1>3 DEF Between, Drain, taskVars
  <1> QED
    BY <1>1, <1>2, <1>3

-----------------------------------------------------------------------------
\* The calls of each pipeline operation.
LEMMA OverIn ==
  ASSUME NEW F, NEW f \in F
  PROVE  Over(f) \in Seq(F \X Elements) /\ Self(f) \in Seq(F \X Elements)
  <1>1. \A i \in 1 .. Last : <<f, Chain[i]>> \in F \X Elements
    BY LastIsPos
  <1>2. Over(f) = [i \in 1 .. Last |-> <<f, Chain[i]>>]
    BY LastIsPos DEF Over
  <1>3. [i \in 1 .. Last |-> <<f, Chain[i]>>] \in [1 .. Last -> F \X Elements]
    BY <1>1
  <1>4. Over(f) \in Seq(F \X Elements)
    BY <1>2, <1>3, LastIsPos, SMT
  <1>5. <<f, Chain[1]>> \in F \X Elements
    <2>1. 1 \in 1 .. Last
      BY LastIsPos, SMT
    <2> QED
      BY <1>1, <2>1
  <1>6. Self(f) \in Seq(F \X Elements)
    BY <1>5, SMT DEF Self
  <1> QED
    BY <1>4, <1>6

DeinitFunctions == {"terminate", "unlink", "stop", "wait_ms", "free"}

LEMMA DeinitIn == DeinitEach \in Seq(DeinitFunctions \X Elements)
  <1> DEFINE g == [k \in 1 .. 4 * Last |-> DeinitEach[k]]
  <1>1. \A k \in 1 .. 4 * Last : DeinitEach[k] \in DeinitFunctions \X Elements
    <2>1. \A k \in 1 .. 4 * Last : DeinitEach[k] \in Calls
      BY DeinitCalls, ElementOfSeq
    <2>2. \A c \in Calls : c[1] \in DeinitFunctions => c \in DeinitFunctions \X Elements
      BY DEF Calls
    <2> QED
      BY <2>1, <2>2, DeinitCalls DEF DeinitFunctions
  <1>2. 4 * Last \in Nat
    BY LastIsPos, SMT
  <1>3. g \in [1 .. 4 * Last -> DeinitFunctions \X Elements]
    BY <1>1
  <1>4. DeinitEach = g
    BY DEF DeinitEach
  <1> HIDE DEF g
  <1>5. g \in Seq(DeinitFunctions \X Elements)
    BY <1>2, <1>3, SMT
  <1> QED
    BY <1>4, <1>5

LEMMA OperationAgenda ==
  ASSUME Operation
  PROVE  /\ <<last, last'>> \in Follows /\ agenda = <<>> /\ failed' = FALSE
         /\ UNCHANGED <<el, cmdq, pc, todo, pstate, at, fault>>
         /\ \/ /\ last' = "run" /\ agenda' \in Seq({"run", "resume", "ran"} \X Elements)
               /\ agenda' = IF pstate = "INIT" THEN Over("run") \o Over("resume") \o Self("ran") ELSE <<>>
            \/ last' = "resume" /\ agenda' \in Seq({"resume", "resumed"} \X Elements)
            \/ last' = "pause" /\ agenda' \in Seq({"pause"} \X Elements)
            \/ last' = "stop" /\ agenda' \in Seq({"stop"} \X Elements)
            \/ /\ last' = "wait_for_stop" /\ agenda' \in Seq({"wait", "waited"} \X Elements)
               /\ agenda' = IF pstate = "RUNNING" THEN Over("wait") \o Self("waited") ELSE <<>>
            \/ last' = "reset" /\ agenda' \in Seq({"reset_rings", "reset_state"} \X Elements)
            \/ last' \in {"terminate", "deinit"} /\ agenda' \in Seq(DeinitFunctions \X Elements)
  <1>1. \A op, calls : Start(op, calls) =>
          /\ last' = op /\ agenda' = calls /\ <<last, last'>> \in Follows /\ agenda = <<>>
          /\ failed' = FALSE /\ UNCHANGED <<el, cmdq, pc, todo, pstate, at, fault>>
    BY DEF Start, taskVars
  <1> DEFINE Rest == /\ <<last, last'>> \in Follows /\ agenda = <<>> /\ failed' = FALSE
                     /\ UNCHANGED <<el, cmdq, pc, todo, pstate, at, fault>>
  <1>2. \A F : <<>> \in Seq(F \X Elements)
    BY EmptySeq
  <1>3. \A F : \A s, t \in Seq(F \X Elements) : s \o t \in Seq(F \X Elements)
    BY JoinedSeq
  <1>4. CASE PipelineRun
    <2> DEFINE F == {"run", "resume", "ran"}
               c == Over("run") \o Over("resume") \o Self("ran")
    <2>1. Over("run") \in Seq(F \X Elements) /\ Over("resume") \in Seq(F \X Elements)
          /\ Self("ran") \in Seq(F \X Elements)
      BY OverIn
    <2>2. c \in Seq(F \X Elements)
      BY <2>1, <1>3
    <2>3. (IF pstate = "INIT" THEN c ELSE <<>>) \in Seq(F \X Elements)
      BY <2>2, <1>2
    <2>9. last' = "run" /\ agenda' = (IF pstate = "INIT" THEN Over("run") \o Over("resume") \o Self("ran") ELSE <<>>) /\ Rest
      <3> DEFINE d == IF pstate = "INIT" THEN Over("run") \o Over("resume") \o Self("ran") ELSE <<>>
      <3>1. Start("run", d)
        BY <1>4 DEF PipelineRun
      <3> HIDE DEF d
      <3>2. last' = "run" /\ agenda' = d /\ Rest
        BY <1>1, <3>1, Zenon
      <3> QED
        BY <3>2 DEF d
    <2> QED
      BY <2>3, <2>9, Zenon
  <1>5. CASE PipelineResume
    <2> DEFINE F == {"resume", "resumed"}
    <2>1. Over("resume") \in Seq(F \X Elements) /\ Self("resumed") \in Seq(F \X Elements)
      BY OverIn
    <2>2. Over("resume") \o Self("resumed") \in Seq(F \X Elements)
      BY <2>1, <1>3
    <2>9. last' = "resume" /\ agenda' = Over("resume") \o Self("resumed") /\ Rest
      BY <1>1, <1>5, Zenon DEF PipelineResume
    <2> QED
      BY <2>2, <2>9, Zenon
  <1>6. CASE PipelinePause
    <2>1. Over("pause") \in Seq({"pause"} \X Elements)
      BY OverIn
    <2>9. last' = "pause" /\ agenda' = Over("pause") /\ Rest
      BY <1>1, <1>6, Zenon DEF PipelinePause
    <2> QED
      BY <2>1, <2>9, Zenon
  <1>7. CASE PipelineStop
    <2>1. (IF pstate = "RUNNING" THEN Over("stop") ELSE <<>>) \in Seq({"stop"} \X Elements)
      BY OverIn, <1>2
    <2>9. last' = "stop" /\ agenda' = (IF pstate = "RUNNING" THEN Over("stop") ELSE <<>>) /\ Rest
      <3> DEFINE d == IF pstate = "RUNNING" THEN Over("stop") ELSE <<>>
      <3>1. Start("stop", d)
        BY <1>7 DEF PipelineStop
      <3> HIDE DEF d
      <3>2. last' = "stop" /\ agenda' = d /\ Rest
        BY <1>1, <3>1, Zenon
      <3> QED
        BY <3>2 DEF d
    <2> QED
      BY <2>1, <2>9, Zenon
  <1>8. CASE PipelineWaitForStop
    <2> DEFINE F == {"wait", "waited"}
               c == Over("wait") \o Self("waited")
    <2>1. Over("wait") \in Seq(F \X Elements) /\ Self("waited") \in Seq(F \X Elements)
      BY OverIn
    <2>2. c \in Seq(F \X Elements)
      BY <2>1, <1>3
    <2>3. (IF pstate = "RUNNING" THEN c ELSE <<>>) \in Seq(F \X Elements)
      BY <2>2, <1>2
    <2>9. last' = "wait_for_stop" /\ agenda' = (IF pstate = "RUNNING" THEN Over("wait") \o Self("waited") ELSE <<>>) /\ Rest
      <3> DEFINE d == IF pstate = "RUNNING" THEN Over("wait") \o Self("waited") ELSE <<>>
      <3>1. Start("wait_for_stop", d)
        BY <1>8 DEF PipelineWaitForStop
      <3> HIDE DEF d
      <3>2. last' = "wait_for_stop" /\ agenda' = d /\ Rest
        BY <1>1, <3>1, Zenon
      <3> QED
        BY <3>2 DEF d
    <2> QED
      BY <2>3, <2>9, Zenon
  <1>9. CASE PipelineTerminate
    <2>1. Over("terminate") \in Seq(DeinitFunctions \X Elements)
      BY OverIn DEF DeinitFunctions
    <2>9. last' = "terminate" /\ agenda' = Over("terminate") /\ Rest
      BY <1>1, <1>9, Zenon DEF PipelineTerminate
    <2> QED
      BY <2>1, <2>9, Zenon
  <1>10. CASE PipelineReset
    <2> DEFINE F == {"reset_rings", "reset_state"}
    <2>1. Over("reset_rings") \in Seq(F \X Elements) /\ Over("reset_state") \in Seq(F \X Elements)
      BY OverIn
    <2>2. Over("reset_rings") \o Over("reset_state") \in Seq(F \X Elements)
      BY <2>1, <1>3
    <2>9. last' = "reset" /\ agenda' = Over("reset_rings") \o Over("reset_state") /\ Rest
      BY <1>1, <1>10, Zenon DEF PipelineReset
    <2> QED
      BY <2>2, <2>9, Zenon
  <1>11. CASE PipelineDeinit
    <2> DEFINE F == DeinitFunctions
               c == Over("terminate") \o Self("unlink") \o DeinitEach
    <2>1. Over("terminate") \in Seq(F \X Elements) /\ Self("unlink") \in Seq(F \X Elements)
      BY OverIn DEF DeinitFunctions
    <2>2. c \in Seq(F \X Elements)
      BY <2>1, <1>3, DeinitIn
    <2>9. last' = "deinit" /\ agenda' = Over("terminate") \o Self("unlink") \o DeinitEach /\ Rest
      BY <1>1, <1>11, Zenon DEF PipelineDeinit
    <2> QED
      BY <2>2, <2>9, Zenon
  <1> QED
    BY <1>4, <1>5, <1>6, <1>7, <1>8, <1>9, <1>10, <1>11 DEF Operation

\* A call still to be made says which operation is in progress.
Belongs(f) ==
  /\ f \in {"run", "ran"} => last = "run"
  /\ f = "resume" => last \in {"run", "resume"}
  /\ f = "resumed" => last = "resume"
  /\ f = "pause" => last = "pause"
  /\ f \in {"wait", "waited"} => last = "wait_for_stop"
  /\ f \in {"reset_rings", "reset_state"} => last = "reset"
CallsBelong ==
  /\ last = "init" => agenda = <<>>
  /\ \A k \in DOMAIN agenda : Belongs(agenda[k][1])

LEMMA CallsIn ==
  ASSUME NEW F, NEW s \in Seq(F \X Elements)
  PROVE  \A k \in DOMAIN s : s[k][1] \in F
  <1>1. \A k \in DOMAIN s : s[k] \in F \X Elements
    BY ElementOfSeq, LenProperties
  <1> QED
    BY <1>1

\* Every step that starts no operation drops the head of the agenda or keeps it, but for the
\* clean-up of a pipeline that failed to run.
LEMMA AgendaStep ==
  ASSUME Shapes, [Next]_vars
  PROVE  \/ Operation
         \/ /\ last' = last
            /\ \/ agenda' = agenda
               \/ agenda # <<>> /\ agenda' = Tail(agenda)
               \/ At("ran", 1) /\ agenda' \in Seq({"terminate"} \X Elements)
  <1>1. CASE ElementCall
    <2>1. agenda # <<>>
      BY <1>1, CallStays
    <2>2. (\E k \in 1 .. 6 : Goto(k)) \/ Return \/ ReturnFail \/ GiveUp \/ GiveUpFail
      BY <1>1, CallMoves
    <2> QED
      BY <2>1, <2>2 DEF Goto, Return, ReturnFail, GiveUp, GiveUpFail, Leave
  <1>2. CASE Between
    <2>1. Over("terminate") \in Seq({"terminate"} \X Elements) /\ <<>> \in Seq({"terminate"} \X Elements)
      BY OverIn, EmptySeq
    <2> QED
      BY <1>2, <2>1 DEF Between, At
  <1>3. CASE Drain \/ Gone \/ UNCHANGED vars
    BY <1>3 DEF Drain, Gone, vars, callVars
  <1>4. CASE \E e \in HasTask : Task(e) \/ Fail(e)
    BY <1>4 DEF Task, Write, Begin, Allocate, Wait, Command, Open, Process, Busy, Fail, Exit, callVars
  <1> QED
    BY <1>1, <1>2, <1>3, <1>4 DEF Next

LEMMA BelongStep == Shapes /\ CallsBelong /\ [Next]_vars => CallsBelong'
  <1> SUFFICES ASSUME Shapes, CallsBelong, [Next]_vars
               PROVE  CallsBelong'
    OBVIOUS
  <1>1. CASE Operation
    <2>1. last' # "init"
      <3>1. <<last, last'>> \in ({"init"} \cup Operations) \X Operations
        BY <1>1, OperationAgenda, ChainAssumption
      <3> QED
        BY <3>1 DEF Operations
    <2> DEFINE In(F) == \A k \in DOMAIN agenda' : agenda'[k][1] \in F
    <2>2. \/ last' = "run" /\ In({"run", "resume", "ran"})
          \/ last' = "resume" /\ In({"resume", "resumed"})
          \/ last' = "pause" /\ In({"pause"})
          \/ last' = "stop" /\ In({"stop"})
          \/ last' = "wait_for_stop" /\ In({"wait", "waited"})
          \/ last' = "reset" /\ In({"reset_rings", "reset_state"})
          \/ last' \in {"terminate", "deinit"} /\ In(DeinitFunctions)
      <3>1. \A F : agenda' \in Seq(F \X Elements) => In(F)
        BY CallsIn
      <3> HIDE DEF In
      <3> QED
        BY <1>1, <3>1, OperationAgenda
    <2>3. ASSUME NEW k \in DOMAIN agenda'
          PROVE  /\ agenda'[k][1] \in {"run", "ran"} => last' = "run"
                 /\ agenda'[k][1] = "resume" => last' \in {"run", "resume"}
                 /\ agenda'[k][1] = "resumed" => last' = "resume"
                 /\ agenda'[k][1] = "pause" => last' = "pause"
                 /\ agenda'[k][1] \in {"wait", "waited"} => last' = "wait_for_stop"
                 /\ agenda'[k][1] \in {"reset_rings", "reset_state"} => last' = "reset"
      BY <2>2, <2>3 DEF DeinitFunctions
    <2> QED
      BY <2>1, <2>3 DEF CallsBelong, Belongs
  <1>2. CASE last' = last /\ agenda' = agenda
    BY <1>2 DEF CallsBelong, Belongs
  <1>3. CASE last' = last /\ agenda # <<>> /\ agenda' = Tail(agenda)
    <2>1. \A k \in DOMAIN Tail(agenda) : k + 1 \in DOMAIN agenda /\ Tail(agenda)[k] = agenda[k + 1]
      BY <1>3, TailHas DEF Shapes, CallTypes
    <2>2. last # "init"
      BY <1>3 DEF CallsBelong
    <2> QED
      BY <1>3, <2>1, <2>2 DEF CallsBelong, Belongs
  <1>4. CASE last' = last /\ At("ran", 1) /\ agenda' \in Seq({"terminate"} \X Elements)
    <2>1. last # "init"
      BY <1>4 DEF CallsBelong, At
    <2>2. \A k \in DOMAIN agenda' : agenda'[k][1] = "terminate"
      BY <1>4, CallsIn
    <2> QED
      BY <1>4, <2>1, <2>2 DEF CallsBelong, Belongs
  <1> QED
    BY <1>1, <1>2, <1>3, <1>4, AgendaStep

LEMMA BelongAlways == Spec => []CallsBelong
  <1>1. Init => CallsBelong
    BY EmptySeq DEF Init, CallsBelong
  <1> QED
    BY <1>1, ShapesAlways, BelongStep, PTL DEF Spec

-----------------------------------------------------------------------------
\* What the proofs below need first: open is only called of an element that runs.
OpensInv == \A e \in HasTask : OpensRunning(e)

LEMMA OpensTask ==
  ASSUME Shapes, NEW e \in HasTask, OpensRunning(e), Task(e) \/ Fail(e)
  PROVE  OpensRunning(e)'
  <1>1. CASE Write(e)
    <2> DEFINE h == Head(todo[e])
    <2>1. /\ todo[e] \in Seq(Writes) /\ todo[e] # <<>> /\ h \in Writes
          /\ el[e] \in Record /\ el'[e] = Written(el[e], h)
          /\ todo'[e] = Tail(todo[e]) /\ pc'[e] = pc[e]
      BY <1>1, WriteStep
    <2>2. /\ \A x : Has(todo[e], x) => Has(todo'[e], x) \/ h = x
          /\ \A x : Has(todo'[e], x) => Has(todo[e], x)
          /\ Has(todo[e], h)
      BY <2>1, TailKeeps
    <2>3. /\ h = RunOn => el'[e].isRunning
          /\ h \notin {RunOn, RunOff} => el'[e].isRunning = el[e].isRunning
      BY <2>1, WrittenFields
    <2> HIDE DEF h
    <2> QED
      BY <2>1, <2>2, <2>3 DEF OpensRunning
  <1>2. CASE Moves(e)
    <2>1. \A p, ws : Then(e, p, ws) => pc'[e] = p /\ todo'[e] = ws
      BY ChainAssumption DEF Then, Shapes, TaskTypes
    <2>2. CASE Resumes(e)
      <3>1. todo'[e] = OnResume(el[e])
        BY <2>1, <2>2 DEF Resumes
      <3> QED
        BY <3>1, OnResumeHas DEF OpensRunning
    <2>3. CASE ~Resumes(e)
      <3>1. pc'[e] \notin {"open", "reopen"}
        BY <1>2, <2>1, <2>3 DEF Moves, Passes, Halted, PausesNow, Opens, Begins, Allocates, GivesUp,
                              Goes, Ends
      <3> QED
        BY <3>1 DEF OpensRunning
    <2> QED
      BY <2>2, <2>3
  <1> QED
    BY <1>1, <1>2, TaskKinds

LEMMA OpensStep == Shapes /\ OpensInv /\ [Next]_vars => OpensInv'
  <1> SUFFICES ASSUME Shapes, OpensInv, [Next]_vars, NEW e \in HasTask
               PROVE  OpensRunning(e)'
    BY DEF OpensInv
  <1>1. OpensRunning(e) /\ e \in Elements
    BY ChainAssumption DEF OpensInv
  <1>2. CASE pc'[e] = pc[e] /\ todo'[e] = todo[e] /\ el'[e].isRunning = el[e].isRunning
    BY <1>1, <1>2 DEF OpensRunning
  <1>3. CASE Operation \/ Between \/ Drain \/ (ElementCall /\ Callee # e)
    BY <1>1, <1>2, <1>3, OthersApart
  <1>4. CASE ElementCall /\ Callee = e
    <2>1. Touches(e) /\ Sends(e)
      BY <1>4, CalleeStep
    <2>2. CASE UNCHANGED <<pc, todo>>
      BY <1>2, <2>1, <2>2 DEF Touches
    <2>3. CASE Then(e, "begin", <<>>)
      <3>1. pc'[e] = "begin"
        BY <1>1, <2>3 DEF Then, Shapes, TaskTypes
      <3> QED
        BY <3>1 DEF OpensRunning
    <2> QED
      BY <2>1, <2>2, <2>3 DEF Sends
  <1>5. CASE Gone \/ UNCHANGED vars
    BY <1>2, <1>5 DEF Gone, vars, taskVars
  <1>6. ASSUME NEW d \in HasTask, Task(d) \/ Fail(d)
        PROVE  OpensRunning(e)'
    <2>1. CASE d = e
      BY <1>1, <1>6, <2>1, OpensTask
    <2>2. CASE d # e
      BY <1>2, <1>6, <2>2, TaskApart
    <2> QED
      BY <2>1, <2>2
  <1> QED
    BY <1>3, <1>4, <1>5, <1>6 DEF Next

LEMMA OpensAlways == Spec => []OpensInv
  <1>1. Init => OpensInv
    BY ChainAssumption DEF Init, OpensInv, OpensRunning
  <1> QED
    BY <1>1, ShapesAlways, OpensStep, PTL DEF Spec

-----------------------------------------------------------------------------
\* The inductive invariant behind IdleSleeps, for a caller that never pauses: no element is
\* paused, and a task that does not run its element sleeps or is about to, and so does one
\* whose state says it has ended; wait_time is only put back to zero while it runs.
NeverPauses == \A p \in Follows : p[2] # "pause"

Sleeps(e) == el[e].wait = "max" \/ Has(todo[e], MaxWait)
Unpaused(e) ==
  /\ el[e].state # "PAUSED" /\ ~Has(todo[e], State("PAUSED"))
  /\ ~Has(cmdq[e], "PAUSE")
Awake(e) == pc[e] \in Loop /\ el[e].isRunning /\ ~Has(todo[e], RunOff)
Over2(e) == el[e].state \in Ended \/ \E s \in Ended : Has(todo[e], State(s))
Reopens(e) ==
  /\ Awake(e)
  /\ \A s \in Ended : ~Has(todo[e], State(s))
  /\ el[e].state \notin Ended \/ Head(todo[e]) = State("RUNNING")
Idle(e) ==
  /\ pc[e] \in Loop \cup {"init"} => Sleeps(e) \/ Awake(e)
  /\ pc[e] \in Loop /\ Over2(e) => Sleeps(e)
  /\ Has(todo[e], ZeroWait) => Reopens(e)
IdleInv == last # "pause" /\ \A e \in HasTask : Unpaused(e) /\ Idle(e)

LEMMA IdleWrite ==
  ASSUME Shapes, NEW e \in HasTask, Unpaused(e), Idle(e), Write(e)
  PROVE  Unpaused(e)' /\ Idle(e)'
  <1> DEFINE h == Head(todo[e])
  <1>1. /\ todo[e] \in Seq(Writes) /\ todo[e] # <<>> /\ h \in Writes
        /\ el[e] \in Record /\ el'[e] = Written(el[e], h)
        /\ todo'[e] = Tail(todo[e]) /\ pc'[e] = pc[e] /\ cmdq'[e] = cmdq[e]
    BY WriteStep
  <1>2. /\ \A x : Has(todo[e], x) => Has(todo'[e], x) \/ h = x
        /\ \A x : Has(todo'[e], x) => Has(todo[e], x)
        /\ Has(todo[e], h)
    BY <1>1, TailKeeps
  <1>3. /\ h = MaxWait => el'[e].wait = "max"
        /\ h \notin {MaxWait, ZeroWait} => el'[e].wait = el[e].wait
        /\ h = RunOn => el'[e].isRunning
        /\ h \notin {RunOn, RunOff} => el'[e].isRunning = el[e].isRunning
        /\ \A s \in States : h = State(s) => el'[e].state = s
        /\ (\A s \in States : h # State(s)) => el'[e].state = el[e].state
        /\ MaxWait # ZeroWait /\ RunOn # RunOff
    BY <1>1, WrittenFields, WriteNames
  <1>4. ZeroWait # State("RUNNING") /\ "RUNNING" \in States /\ "PAUSED" \in States
        /\ "RUNNING" \notin Ended /\ Ended \subseteq States
    BY WriteNames, StateNames DEF Ended
  <1> HIDE DEF h
  <1>5. ASSUME Sleeps(e), h # ZeroWait
        PROVE  Sleeps(e)'
    BY <1>2, <1>3, <1>5 DEF Sleeps
  <1>6. ASSUME Awake(e)
        PROVE  Awake(e)'
    <2>1. h # RunOff
      BY <1>2, <1>6 DEF Awake
    <2> QED
      BY <1>1, <1>2, <1>3, <1>6, <2>1 DEF Awake
  <1>7. ASSUME h = ZeroWait
        PROVE  Awake(e) /\ ~Over2(e)
    <2>1. Reopens(e) /\ h # State("RUNNING")
      BY <1>2, <1>4, <1>7 DEF Idle
    <2> QED
      BY <2>1 DEF Reopens, Over2, h
  <1>8. ASSUME Over2(e)'
        PROVE  Over2(e)
    BY <1>2, <1>3, <1>4, <1>8 DEF Over2
  <1>9. Unpaused(e)'
    BY <1>1, <1>2, <1>3, <1>4 DEF Unpaused
  <1>10. pc'[e] \in Loop \cup {"init"} => Sleeps(e)' \/ Awake(e)'
    BY <1>1, <1>5, <1>6, <1>7 DEF Idle
  <1>11. pc'[e] \in Loop /\ Over2(e)' => Sleeps(e)'
    BY <1>1, <1>5, <1>7, <1>8 DEF Idle
  <1>12. Has(todo'[e], ZeroWait) => Reopens(e)'
    <2> SUFFICES ASSUME Has(todo'[e], ZeroWait)
                 PROVE  Reopens(e)'
      OBVIOUS
    <2>1. Reopens(e)
      BY <1>2 DEF Idle
    <2>2. Awake(e)'
      BY <1>6, <2>1 DEF Reopens
    <2>3. \A s \in Ended : ~Has(todo'[e], State(s)) /\ h # State(s)
      BY <1>2, <2>1 DEF Reopens
    <2>4. el'[e].state \notin Ended
      <3>1. CASE h = State("RUNNING")
        BY <1>3, <1>4, <3>1
      <3>2. CASE h # State("RUNNING")
        <4>1. el[e].state \notin Ended
          BY <2>1, <3>2 DEF Reopens, h
        <4> QED
          BY <1>3, <2>3, <4>1
      <3> QED
        BY <3>1, <3>2
    <2> QED
      BY <2>2, <2>3, <2>4 DEF Reopens
  <1> QED
    BY <1>9, <1>10, <1>11, <1>12 DEF Idle

LEMMA IdleMoves ==
  ASSUME Shapes, NEW e \in HasTask, OpensRunning(e), Unpaused(e), Idle(e), Moves(e)
  PROVE  Unpaused(e)' /\ Idle(e)'
  <1>1. todo[e] = <<>> /\ el'[e] = el[e] /\ \A x : ~Has(todo[e], x)
    BY LiteralHas DEF Moves
  <1>2. e \in Elements /\ pc \in [Elements -> Places] /\ todo \in [Elements -> Seq(Writes)]
        /\ cmdq[e] \in Seq(Commands) /\ cmdq \in [Elements -> Seq(Commands)]
    BY ChainAssumption DEF Shapes, TaskTypes
  <1>3. \A p, ws : Then(e, p, ws) => pc'[e] = p /\ todo'[e] = ws
    BY <1>2 DEF Then
  <1>4. \A c : Taken(e, c) => cmdq[e] # <<>> /\ Head(cmdq[e]) = c /\ cmdq'[e] = Tail(cmdq[e])
    BY <1>2 DEF Taken
  <1>5. cmdq[e] # <<>> => /\ \A x : Has(Tail(cmdq[e]), x) => Has(cmdq[e], x)
                          /\ Has(cmdq[e], Head(cmdq[e]))
    BY <1>2, TailKeeps
  <1>6. ~Has(cmdq'[e], "PAUSE")
    BY <1>4, <1>5 DEF Moves, Passes, Halted, PausesNow, Resumes, Opens, Begins, Allocates, GivesUp,
                      Goes, Ends, Unpaused
  <1>7. /\ pc[e] \in Loop \cup {"init"} => el[e].wait = "max" \/ (pc[e] \in Loop /\ el[e].isRunning)
        /\ pc[e] \in Loop /\ el[e].state \in Ended => el[e].wait = "max"
        /\ pc[e] \in {"open", "reopen"} => el[e].isRunning
        /\ el[e].state # "PAUSED"
    BY <1>1 DEF Idle, Sleeps, Awake, Over2, Unpaused, OpensRunning
  <1>8. \A p \in Loop : p # "init"
    BY DEF Loop
  \* What is left to show, from the place p and the writes ws the task goes on with.
  <1> DEFINE Fine(p, ws) ==
        /\ ~Has(ws, State("PAUSED"))
        /\ p \in Loop \cup {"init"} =>
             el[e].wait = "max" \/ Has(ws, MaxWait) \/ (p \in Loop /\ el[e].isRunning /\ ~Has(ws, RunOff))
        /\ p \in Loop /\ (el[e].state \in Ended \/ \E s \in Ended : Has(ws, State(s)))
             => el[e].wait = "max" \/ Has(ws, MaxWait)
        /\ Has(ws, ZeroWait) =>
             /\ p \in Loop /\ el[e].isRunning /\ ~Has(ws, RunOff)
             /\ \A s \in Ended : ~Has(ws, State(s))
             /\ el[e].state \notin Ended \/ Head(ws) = State("RUNNING")
  <1>9. ASSUME NEW p, NEW ws, Then(e, p, ws), Fine(p, ws)
        PROVE  Unpaused(e)' /\ Idle(e)'
    <2>1. pc'[e] = p /\ todo'[e] = ws
      BY <1>3, <1>9
    <2>2. Unpaused(e)'
      BY <1>1, <1>6, <1>7, <1>9, <2>1 DEF Unpaused
    <2>3. Sleeps(e)' <=> el[e].wait = "max" \/ Has(ws, MaxWait)
      BY <1>1, <2>1 DEF Sleeps
    <2>4. Awake(e)' <=> p \in Loop /\ el[e].isRunning /\ ~Has(ws, RunOff)
      BY <1>1, <2>1 DEF Awake
    <2>5. Over2(e)' <=> el[e].state \in Ended \/ \E s \in Ended : Has(ws, State(s))
      BY <1>1, <2>1 DEF Over2
    <2>6. Has(ws, ZeroWait) => Reopens(e)'
      BY <1>1, <1>9, <2>1, <2>4 DEF Reopens
    <2> QED
      BY <1>1, <1>9, <2>1, <2>2, <2>3, <2>4, <2>5, <2>6 DEF Idle
  <1>10. \A p \in {"wait", "blocked", "process", "busy", "open", "reopen"} : p \in Loop
    BY DEF Loop
  <1>11. Ended \subseteq States /\ "PAUSED" \in States /\ "PAUSED" \notin Ended
         /\ "INITIALIZING" \notin Ended /\ "RUNNING" \notin Ended
    BY StateNames DEF Ended
  <1>12. CASE Passes(e)
    <2>1. PICK p \in {"wait", "blocked", "process", "busy"} : Then(e, p, <<>>) /\ pc[e] \in Loop
      BY <1>12 DEF Passes
    <2>2. Fine(p, <<>>)
      BY <1>7, <1>10, <2>1, LiteralHas
    <2> QED
      BY <1>9, <2>1, <2>2
  <1>13. CASE Halted(e)
    <2>1. PICK p \in {"wait", "process"}, ws \in Seq(Plain) :
            Then(e, p, ws) /\ Halts(el[e], ws) /\ pc[e] \in Loop
      BY <1>13 DEF Halted, Loop
    <2>2. /\ ~Has(ws, ZeroWait) /\ ~Has(ws, State("PAUSED"))
          /\ Has(ws, RunOff) => Has(ws, MaxWait) \/ el[e].state \in Ended
          /\ \A s \in Ended : Has(ws, State(s)) => Has(ws, RunOff)
      BY <1>11, <2>1, HaltNames DEF Halts
    <2>3. Fine(p, ws)
      BY <1>7, <1>10, <2>1, <2>2
    <2> QED
      BY <1>9, <2>1, <2>3
  <1>14. CASE PausesNow(e)
    BY <1>4, <1>5, <1>14 DEF PausesNow, Unpaused
  <1>15. CASE Resumes(e)
    <2>1. PICK p \in {"process", "open", "reopen"} : Then(e, p, OnResume(el[e])) /\ pc[e] \in Loop
      BY <1>15 DEF Resumes, Loop
    <2>2. /\ ~Has(OnResume(el[e]), ZeroWait) /\ ~Has(OnResume(el[e]), RunOff)
          /\ Has(OnResume(el[e]), RunOn)
          /\ \A s \in Ended \cup {"PAUSED"} : ~Has(OnResume(el[e]), State(s))
      BY <1>11, OnResumeHas, Zenon
    <2>3. Fine(p, OnResume(el[e]))
      BY <1>7, <1>10, <2>1, <2>2
    <2> QED
      BY <1>9, <2>1, <2>3
  <1>16. CASE Opens(e)
    <2>1. PICK p \in {"wait", "process"} : Then(e, p, Opened) /\ pc[e] \in {"open", "reopen"}
      BY <1>16 DEF Opens
    <2>2. /\ ~Has(Opened, RunOff) /\ Head(Opened) = State("RUNNING")
          /\ \A s \in Ended \cup {"PAUSED"} : ~Has(Opened, State(s))
      BY <1>11, OpenedHas
    <2>3. Fine(p, Opened)
      BY <1>7, <1>10, <2>1, <2>2
    <2> QED
      BY <1>9, <2>1, <2>3
  <1>17. CASE Begins(e)
    <2>1. PICK ws : /\ ws = << <<"taskRun", TRUE>>, Set("CREATED"), <<"state", "INIT">>, <<"wait", "max">> >>
                    /\ Then(e, "init", ws)
      BY <1>17, Zenon DEF Begins
    <2>2. Has(ws, MaxWait) /\ ~Has(ws, ZeroWait) /\ ~Has(ws, State("PAUSED"))
      BY <1>11, <2>1, FirstHas
    <2>3. Fine("init", ws)
      BY <1>8, <2>2
    <2> QED
      BY <1>9, <2>1, <2>3
  <1>18. CASE Allocates(e)
    <2>1. pc[e] = "init" /\ Then(e, "wait", << Clear("STOPPED") >>)
      BY <1>18 DEF Allocates
    <2>2. ~Has(<< Clear("STOPPED") >>, ZeroWait) /\ ~Has(<< Clear("STOPPED") >>, State("PAUSED"))
      BY ClearHas
    <2>3. el[e].wait = "max"
      BY <1>7, <1>8, <2>1
    <2>4. Fine("wait", << Clear("STOPPED") >>)
      BY <2>2, <2>3
    <2> QED
      BY <1>9, <2>1, <2>4
  <1>19. CASE GivesUp(e) \/ Goes(e) \/ Ends(e)
    <2>1. \A ws : (\A x : Has(ws, x) => x \in ExitWrites \cup {Clear("STOPPED")})
                  => Fine("exit", ws) /\ Fine("none", ws)
      <3>1. "exit" \notin Loop \cup {"init"} /\ "none" \notin Loop \cup {"init"}
        BY DEF Loop
      <3> QED
        BY <1>11, <3>1, ExitNames
    <2> HIDE DEF Fine
    <2>2. CASE GivesUp(e)
      <3>1. Fine("exit", << <<"taskRun", FALSE>>, Clear("STOPPED") >> \o OnExit(el[e]))
        BY <2>1, ExitHas, Zenon
      <3> QED
        BY <1>9, <2>2, <3>1, Zenon DEF GivesUp
    <2>3. CASE Goes(e)
      <3>1. Fine("exit", <<RunOff, Stopped>> \o OnExit(el[e]))
        BY <2>1, ExitHas, Zenon
      <3> QED
        BY <1>9, <2>3, <3>1, Zenon DEF Goes
    <2>4. CASE Ends(e)
      <3>1. Fine("none", <<>>)
        BY <2>1, LiteralHas
      <3> QED
        BY <1>9, <2>4, <3>1, Zenon DEF Ends
    <2> QED
      BY <1>19, <2>2, <2>3, <2>4
  <1> QED
    BY <1>12, <1>13, <1>14, <1>15, <1>16, <1>17, <1>18, <1>19 DEF Moves

\* The element and its task are as before.
LEMMA IdleSame ==
  ASSUME NEW e, Unpaused(e), Idle(e),
         pc'[e] = pc[e], todo'[e] = todo[e], el'[e] = el[e], cmdq'[e] = cmdq[e]
  PROVE  Unpaused(e)' /\ Idle(e)'
  BY DEF Unpaused, Idle, Sleeps, Awake, Over2, Reopens

LEMMA IdleCall ==
  ASSUME Shapes, NEW e \in HasTask, Unpaused(e), Idle(e), ElementCall, Callee = e,
         \A k : ~Caller("pause", k, e)
  PROVE  Unpaused(e)' /\ Idle(e)'
  <1>1. Touches(e) /\ Sends(e)
    BY CalleeStep
  <1>2. /\ el'[e].isRunning = el[e].isRunning /\ el'[e].wait = el[e].wait
        /\ el'[e].state = el[e].state \/ el'[e].state \notin Ended \cup {"PAUSED"}
    BY <1>1 DEF Touches, Unpaused, Ended
  <1>3. e \in Elements /\ pc \in [Elements -> Places] /\ todo \in [Elements -> Seq(Writes)]
        /\ cmdq[e] \in Seq(Commands) /\ cmdq \in [Elements -> Seq(Commands)]
    BY ChainAssumption DEF Shapes, TaskTypes
  <1>4. ~Has(cmdq'[e], "PAUSE")
    <2>1. \A c \in {"RESUME", "STOP", "DESTROY"} : ~Has(Append(cmdq[e], c), "PAUSE")
      <3>1. \A c \in {"RESUME", "STOP", "DESTROY"} : c \in Commands /\ c # "PAUSE"
        BY DEF Commands
      <3> QED
        BY <1>3, <3>1, AppendNew DEF Unpaused
    <2>2. ~Has(<<>>, "PAUSE")
      BY LiteralHas
    <2>3. \/ cmdq'[e] = cmdq[e] \/ cmdq'[e] = <<>>
          \/ \E c \in {"RESUME", "STOP", "DESTROY"} : cmdq'[e] = Append(cmdq[e], c)
      BY <1>1, <1>3 DEF Sends
    <2> QED
      BY <2>1, <2>2, <2>3 DEF Unpaused
  <1>5. CASE UNCHANGED <<pc, todo>>
    BY <1>2, <1>4, <1>5 DEF Unpaused, Idle, Sleeps, Awake, Over2, Reopens
  <1>6. CASE Then(e, "begin", <<>>)
    <2>1. pc'[e] = "begin" /\ todo'[e] = <<>> /\ "begin" \notin Loop \cup {"init"}
      BY <1>3, <1>6 DEF Then, Loop
    <2>2. \A x : ~Has(todo'[e], x)
      BY <2>1, LiteralHas
    <2> QED
      BY <1>2, <1>4, <2>1, <2>2 DEF Unpaused, Idle, Loop
  <1> QED
    BY <1>1, <1>5, <1>6 DEF Sends

LEMMA IdleTask ==
  ASSUME Shapes, NEW d \in HasTask, OpensRunning(d), Unpaused(d), Idle(d), Task(d) \/ Fail(d)
  PROVE  Unpaused(d)' /\ Idle(d)'
  BY TaskKinds, IdleWrite, IdleMoves

LEMMA IdleInit == Init => IdleInv
  <1> SUFFICES ASSUME Init
               PROVE  IdleInv
    OBVIOUS
  <1>1. \A x : ~Has(<<>>, x)
    BY LiteralHas
  <1>2. \A e \in HasTask : /\ el[e].state = "INIT" /\ pc[e] = "none" /\ todo[e] = <<>> /\ cmdq[e] = <<>>
    BY ChainAssumption DEF Init
  <1>3. last # "pause" /\ "none" \notin Loop \cup {"init"}
    BY DEF Init, Loop
  <1> QED
    BY <1>1, <1>2, <1>3 DEF IdleInv, Unpaused, Idle, Loop

LEMMA IdleStep ==
  ASSUME NeverPauses
  PROVE  Shapes /\ CallsBelong /\ OpensInv /\ IdleInv /\ [Next]_vars => IdleInv'
  <1> SUFFICES ASSUME Shapes, CallsBelong, OpensInv, IdleInv, [Next]_vars
               PROVE  IdleInv'
    OBVIOUS
  <1>1. last' # "pause"
    <2>1. CASE Operation
      <3>1. <<last, last'>> \in Follows
        BY <2>1, OperationAgenda
      <3> QED
        BY <3>1 DEF NeverPauses
    <2>2. CASE ~Operation
      BY <2>2, AgendaStep DEF IdleInv
    <2> QED
      BY <2>1, <2>2
  <1>2. \A e, k : ~Caller("pause", k, e)
    <2> SUFFICES ASSUME NEW e, NEW k, Caller("pause", k, e)
                 PROVE  FALSE
      OBVIOUS
    <2>1. agenda # <<>> /\ Head(agenda)[1] = "pause"
      BY DEF Caller, At
    <2>2. 1 \in DOMAIN agenda /\ Head(agenda) = agenda[1]
      BY <2>1, TailHas, TailKeeps DEF Shapes, CallTypes
    <2>3. last = "pause"
      BY <2>1, <2>2 DEF CallsBelong, Belongs
    <2> QED
      BY <2>3 DEF IdleInv
  <1>3. ASSUME NEW e \in HasTask
        PROVE  Unpaused(e)' /\ Idle(e)'
    <2>1. Unpaused(e) /\ Idle(e) /\ OpensRunning(e) /\ e \in Elements
      BY ChainAssumption DEF IdleInv, OpensInv
    <2>2. CASE Operation \/ Between \/ Drain \/ (ElementCall /\ Callee # e)
      BY <2>1, <2>2, OthersApart, IdleSame
    <2>3. CASE ElementCall /\ Callee = e
      BY <1>2, <2>1, <2>3, IdleCall
    <2>4. CASE Gone \/ UNCHANGED vars
      BY <2>1, <2>4, IdleSame DEF Gone, vars, taskVars
    <2>5. ASSUME NEW d \in HasTask, Task(d) \/ Fail(d)
          PROVE  Unpaused(e)' /\ Idle(e)'
      <3>1. CASE d = e
        BY <2>1, <2>5, <3>1, IdleTask
      <3>2. CASE d # e
        BY <2>1, <2>5, <3>2, TaskApart, IdleSame
      <3> QED
        BY <3>1, <3>2
    <2> QED
      BY <2>2, <2>3, <2>4, <2>5 DEF Next
  <1> QED
    BY <1>1, <1>3 DEF IdleInv

LEMMA IdleImplies == IdleInv => IdleSleeps
  <1> SUFFICES ASSUME IdleInv, NEW e \in HasTask, pc[e] = "wait", todo[e] = <<>>, ~el[e].isRunning
               PROVE  el[e].wait = "max"
    BY DEF IdleSleeps
  <1>1. pc[e] \in Loop /\ \A x : ~Has(todo[e], x)
    BY LiteralHas DEF Loop
  <1> QED
    BY <1>1 DEF IdleInv, Idle, Sleeps, Awake

\* A task that does not run its element sleeps on its command queue: it never spins through
\* audio_event_iface_waiting_cmd_msg with a wait of zero.  For every chain, every queue length
\* and every caller that does not pause; with a pause it is false, as audio_element_stop puts
\* wait_time of a paused element to zero before it sends the command.
THEOREM IdleSleepsCorrect == ASSUME NeverPauses PROVE Spec => []IdleSleeps
  <1>1. Shapes /\ CallsBelong /\ OpensInv /\ IdleInv /\ [Next]_vars => IdleInv'
    BY IdleStep
  <1> QED
    BY <1>1, ShapesAlways, BelongAlways, OpensAlways, IdleInit, IdleImplies, PTL DEF Spec
-----------------------------------------------------------------------------
\* The inductive invariant behind StoppedWhenWaited, for a caller that runs the pipeline at most
\* once and neither resumes nor resets it.
RunsOnce == \A p \in Follows : p[2] \notin {"resume", "reset"} /\ (p[2] = "run" => p[1] = "init")

StillCalls(f) == \E k \in DOMAIN agenda : agenda[k][1] = f

\* The calls of audio_pipeline_run come from a pipeline that was not started, each of them once;
\* the ones of audio_pipeline_wait_for_stop from a running one, and "waited" ends them.
Starting == {"run", "resume", "ran"}
AgendaParts ==
  /\ last \notin {"resume", "reset"}
  /\ last = "init" => pstate = "INIT"
  /\ (\E k \in DOMAIN agenda : agenda[k][1] \in Starting) =>
       pstate = "INIT" /\ \A k \in DOMAIN agenda : agenda[k][1] \in Starting
  /\ \A j, k \in DOMAIN agenda : agenda[j] = agenda[k] /\ agenda[j][1] \in {"run", "resume"} => j = k
  /\ \A k \in DOMAIN agenda : agenda[k][1] \in {"wait", "waited"} =>
       /\ pstate = "RUNNING" /\ agenda[Len(agenda)][1] = "waited"
       /\ agenda[k][1] = "waited" => k = Len(agenda)

\* audio_pipeline_run has not failed, or not yet: a RESUME was answered before the next call.
Good == pstate = "RUNNING" \/ (last = "run" /\ ~failed /\ StillCalls("ran"))

\* RESUME is in the queue or taken but not carried out.
Resuming(e) == Has(cmdq[e], "RESUME") \/ Has(todo[e], RunOn)
\* Before audio_element_run made the task.
Fresh(e) == pc[e] = "none" /\ todo[e] = <<>> /\ ~el[e].isRunning /\ "STOPPED" \notin el[e].bits
\* Between that and the RESUME.
Unstarted(e) ==
  /\ cmdq[e] = <<>> /\ ~el[e].isRunning /\ "STOPPED" \notin el[e].bits
  /\ ~Has(todo[e], Stopped) /\ ~Has(todo[e], RunOn) /\ ~Has(todo[e], Resumed)
  /\ pc[e] \notin {"open", "reopen", "busy"}
\* STOPPED is set of no element that runs, is_running is set before RESUMED, and only
\* audio_element_resume makes an element run.
Honest(e) ==
  /\ "STOPPED" \in el[e].bits => ~el[e].isRunning
  /\ el[e].isRunning => After(todo[e], RunOff, Stopped)
  /\ pc[e] = "busy" => el[e].isRunning /\ todo[e] = <<>> /\ el[e].state # "INIT"
  /\ Resuming(e) => /\ Caller("resume", 3, e) /\ "RESUMED" \notin el[e].bits
                    /\ "STOPPED" \notin el[e].bits /\ ~Has(todo[e], Stopped)
  /\ Has(cmdq[e], "RESUME") => /\ cmdq[e] = <<"RESUME">> /\ ~el[e].isRunning
                               /\ ~Has(todo[e], RunOn) /\ ~Has(todo[e], Resumed)
                               /\ pc[e] \notin {"open", "reopen", "busy"}
  /\ Before(todo[e], RunOn, Resumed)

ToRun(e) == last = "init" \/ (Has(agenda, <<"run", e>>) /\ ~Caller("run", 2, e))
ToResume(e) == Has(agenda, <<"resume", e>>) /\ ~Caller("resume", 3, e)
WaitedFor(e) == StillCalls("waited") /\ (Has(agenda, <<"wait", e>>) => Caller("wait", 3, e))
Progress(e) ==
  /\ ToRun(e) => Fresh(e)
  /\ pc[e] \notin {"none", "exit"} =>
       /\ Honest(e)
       /\ ToResume(e) => Unstarted(e)
       /\ WaitedFor(e) => ~el[e].isRunning
WaitInv == AgendaParts /\ (Good \/ last = "init" => \A e \in HasTask : Progress(e))

\* audio_pipeline_run makes each of its element calls once.
LEMMA RunAgenda ==
  ASSUME NEW c, c = Over("run") \o Over("resume") \o Self("ran")
  PROVE  \A j, k \in DOMAIN c : c[j] = c[k] /\ c[j][1] \in {"run", "resume"} => j = k
  <1> DEFINE a == Over("run")
             b == Over("resume")
             d == Self("ran")
             one == 1
  <1>1. "run" \in Functions /\ "resume" \in Functions /\ "ran" \in Functions
    BY DEF Functions
  <1>2. /\ a \in Seq(Calls) /\ Len(a) = Last /\ \A k \in 1 .. Last : a[k] = <<"run", Chain[k]>>
        /\ b \in Seq(Calls) /\ Len(b) = Last /\ \A k \in 1 .. Last : b[k] = <<"resume", Chain[k]>>
        /\ d \in Seq(Calls) /\ Len(d) = one /\ d[1] = <<"ran", Chain[1]>>
    BY <1>1, OverCalls
  <1>3. Last \in Nat \ {0} /\ one \in Nat /\ one = 1
    BY LastIsPos
  <1>4. \A i, j \in 1 .. Last : Chain[i] = Chain[j] => i = j
    BY ChainAssumption, LastIsPos DEF Indices
  <1>5. c = (a \o b) \o d
    OBVIOUS
  <1> HIDE DEF a, b, d, one
  <1>6. /\ a \o b \in Seq(Calls) /\ Len(a \o b) = Last + Last
        /\ \A k \in 1 .. Last : (a \o b)[k] = a[k]
        /\ \A k \in 1 .. Last : (a \o b)[Last + k] = b[k]
    BY <1>2, JoinedParts
  <1>7. /\ DOMAIN c = 1 .. Last + Last + one
        /\ \A k \in 1 .. Last + Last : c[k] = (a \o b)[k]
        /\ \A k \in 1 .. one : c[Last + Last + k] = d[k]
    <2> DEFINE ab == a \o b
               n == Last + Last
    <2>1. ab \in Seq(Calls) /\ Len(ab) = n /\ d \in Seq(Calls) /\ Len(d) = one /\ c = ab \o d
      BY <1>2, <1>5, <1>6
    <2> HIDE DEF ab, n
    <2>2. /\ DOMAIN c = 1 .. n + one
          /\ \A k \in 1 .. n : c[k] = ab[k]
          /\ \A k \in 1 .. one : c[n + k] = d[k]
      <3>1. /\ DOMAIN (ab \o d) = 1 .. n + one
            /\ \A k \in 1 .. n : (ab \o d)[k] = ab[k]
            /\ \A k \in 1 .. one : (ab \o d)[n + k] = d[k]
        BY <2>1, JoinedParts
      <3> QED
        BY <2>1, <3>1
    <2> QED
      BY <2>2 DEF ab, n
  <1>8. \A n \in 1 .. Last + Last + one :
          /\ n \in 1 .. Last => n \in 1 .. Last + Last
          /\ n - Last \in 1 .. Last => n \in 1 .. Last + Last /\ Last + (n - Last) = n
          /\ n \in 1 .. Last \/ n - Last \in 1 .. Last \/ (n = Last + Last + 1 /\ 1 \in 1 .. one)
    BY <1>3, SMT
  <1>10. ASSUME NEW k \in DOMAIN c
        PROVE  \/ k \in 1 .. Last /\ c[k][1] = "run" /\ c[k][2] = Chain[k]
               \/ k - Last \in 1 .. Last /\ c[k][1] = "resume" /\ c[k][2] = Chain[k - Last]
               \/ c[k][1] = "ran"
    <2>0. k \in 1 .. Last + Last + one
      BY <1>7, <1>10
    <2>1. CASE k \in 1 .. Last
      <3>1. c[k] = <<"run", Chain[k]>>
        BY <1>2, <1>6, <1>7, <1>8, <2>0, <2>1
      <3> QED
        BY <2>1, <3>1
    <2>2. CASE k - Last \in 1 .. Last
      <3>1. c[k] = (a \o b)[Last + (k - Last)]
        BY <1>7, <1>8, <2>0, <2>2
      <3>2. c[k] = <<"resume", Chain[k - Last]>>
        BY <1>2, <1>6, <2>2, <3>1
      <3> QED
        BY <2>2, <3>2
    <2>3. CASE k = Last + Last + 1 /\ 1 \in 1 .. one
      <3>1. c[k] = <<"ran", Chain[1]>>
        BY <1>2, <1>7, <2>3
      <3> QED
        BY <3>1
    <2> QED
      BY <1>8, <2>0, <2>1, <2>2, <2>3
  <1>9. ASSUME NEW j \in DOMAIN c, NEW k \in DOMAIN c, c[j] = c[k], c[j][1] \in {"run", "resume"}
        PROVE  j = k
    <2>1. CASE j \in 1 .. Last /\ c[j][1] = "run" /\ c[j][2] = Chain[j]
      <3>1. k \in 1 .. Last /\ Chain[j] = Chain[k]
        BY <1>10, <1>9, <2>1
      <3> QED
        BY <1>4, <2>1, <3>1
    <2>2. CASE j - Last \in 1 .. Last /\ c[j][1] = "resume" /\ c[j][2] = Chain[j - Last]
      <3>1. k - Last \in 1 .. Last /\ Chain[j - Last] = Chain[k - Last]
        BY <1>10, <1>9, <2>2
      <3>2. j - Last = k - Last
        BY <1>4, <2>2, <3>1
      <3> QED
        BY <1>3, <1>7, <3>2, SMT
    <2> QED
      BY <1>10, <1>9, <2>1, <2>2
  <1> QED
    BY <1>9

\* audio_pipeline_wait_for_stop ends with "waited", and waits for every element.
LEMMA WaitAgenda ==
  ASSUME NEW c, c = Over("wait") \o Self("waited")
  PROVE  /\ c[Len(c)][1] = "waited"
         /\ \A k \in DOMAIN c : c[k][1] = "waited" => k = Len(c)
         /\ \A e \in Elements : Has(c, <<"wait", e>>)
  <1> DEFINE a == Over("wait")
             d == Self("waited")
             one == 1
  <1>1. "wait" \in Functions /\ "waited" \in Functions
    BY DEF Functions
  <1>2. /\ a \in Seq(Calls) /\ Len(a) = Last /\ \A k \in 1 .. Last : a[k] = <<"wait", Chain[k]>>
        /\ d \in Seq(Calls) /\ Len(d) = one /\ d[1] = <<"waited", Chain[1]>>
    BY <1>1, OverCalls
  <1>3. Last \in Nat \ {0} /\ one = 1 /\ Elements = {Chain[i] : i \in 1 .. Last}
    BY LastIsPos
  <1>4. c = a \o d
    OBVIOUS
  <1> HIDE DEF a, d, one
  <1>5. /\ Len(c) = Last + one /\ DOMAIN c = 1 .. Last + one
        /\ \A k \in 1 .. Last : c[k] = a[k]
        /\ \A k \in 1 .. one : c[Last + k] = d[k]
    <2>1. /\ Len(a \o d) = Last + one /\ DOMAIN (a \o d) = 1 .. Last + one
          /\ \A k \in 1 .. Last : (a \o d)[k] = a[k]
          /\ \A k \in 1 .. one : (a \o d)[Last + k] = d[k]
      BY <1>2, JoinedParts
    <2> QED
      BY <1>4, <2>1
  <1>6. c[Last + 1] = <<"waited", Chain[1]>>
    <2>1. 1 \in 1 .. one
      BY <1>3, SMT
    <2> QED
      BY <1>2, <1>5, <2>1
  <1>7. \A k \in DOMAIN c : k \in 1 .. Last \/ k = Last + 1
    BY <1>3, <1>5, SMT
  <1>8. \A i \in 1 .. Last : i \in DOMAIN c /\ c[i] = <<"wait", Chain[i]>>
    BY <1>2, <1>3, <1>5, SMT
  <1>9. Len(c) = Last + 1
    BY <1>3, <1>5
  <1>10. c[Len(c)][1] = "waited" /\ \A k \in DOMAIN c : c[k][1] = "waited" => k = Len(c)
    <2>1. c[Last + 1][1] = "waited" /\ \A i \in 1 .. Last : c[i][1] # "waited"
      <3>0. \A f, g, x : x = <<f, g>> => x[1] = f
        OBVIOUS
      <3>1. c[Last + 1][1] = "waited"
        BY <1>6, <3>0, Zenon
      <3>2. ASSUME NEW i \in 1 .. Last
            PROVE  c[i][1] # "waited"
        <4>1. c[i] = <<"wait", Chain[i]>>
          BY <1>8, <3>2
        <4>2. c[i][1] = "wait"
          BY <3>0, <4>1, Zenon
        <4> QED
          BY <4>2
      <3> QED
        BY <3>1, <3>2
    <2> QED
      BY <1>7, <1>9, <2>1, Zenon
  <1>11. \A e \in Elements : Has(c, <<"wait", e>>)
    BY <1>3, <1>8 DEF Has
  <1> QED
    BY <1>10, <1>11

\* Outside the ends of run and wait_for_stop the pipeline's state stays.
LEMMA StateStep ==
  ASSUME Shapes, [Next]_vars
  PROVE  \/ pstate' = pstate
         \/ At("resumed", 1)
         \/ At("ran", 1) /\ agenda' \in Seq({"terminate"} \X Elements) /\ last' = last
         \/ At("waited", 1) /\ agenda' = Tail(agenda) /\ last' = last
  <1>1. CASE ElementCall
    <2>1. (\E k \in 1 .. 6 : Goto(k)) \/ Return \/ ReturnFail \/ GiveUp \/ GiveUpFail
      BY <1>1, CallMoves
    <2> QED
      BY <2>1 DEF Goto, Return, ReturnFail, GiveUp, GiveUpFail, Leave
  <1>2. CASE Between
    <2>1. Over("terminate") \in Seq({"terminate"} \X Elements) /\ <<>> \in Seq({"terminate"} \X Elements)
      BY OverIn, EmptySeq
    <2> QED
      BY <1>2, <2>1 DEF Between
  <1>3. CASE Drain \/ Gone \/ UNCHANGED vars
    BY <1>3 DEF Drain, Gone, vars, callVars
  <1>4. CASE \E e \in HasTask : Task(e) \/ Fail(e)
    BY <1>4 DEF Task, Write, Begin, Allocate, Wait, Command, Open, Process, Busy, Fail, Exit, callVars
  <1>5. CASE Operation
    BY <1>5, OperationAgenda
  <1> QED
    BY <1>1, <1>2, <1>3, <1>4, <1>5 DEF Next

\* The head of the agenda is one of its calls.
LEMMA HeadCall ==
  ASSUME Shapes, agenda # <<>>
  PROVE  1 \in DOMAIN agenda /\ agenda[1] = Head(agenda) /\ DOMAIN agenda = 1 .. Len(agenda)
         /\ Len(agenda) \in Nat \ {0}
  <1>1. /\ Head(agenda) = agenda[1] /\ Len(agenda) \in Nat \ {0}
    BY TailHas DEF Shapes, CallTypes
  <1>2. DOMAIN agenda = 1 .. Len(agenda)
    BY LenProperties DEF Shapes, CallTypes
  <1> QED
    BY <1>1, <1>2, SMT

LEMMA AgendaPartsTail ==
  ASSUME Shapes, AgendaParts, last' = last, pstate' = pstate, agenda # <<>>, agenda' = Tail(agenda)
  PROVE  AgendaParts'
  <1>1. /\ Tail(agenda) \in Seq(Calls) /\ Len(Tail(agenda)) = Len(agenda) - 1
        /\ \A k \in DOMAIN Tail(agenda) : k + 1 \in DOMAIN agenda /\ Tail(agenda)[k] = agenda[k + 1]
    BY TailHas DEF Shapes, CallTypes
  <1>2. /\ DOMAIN Tail(agenda) = 1 .. Len(agenda) - 1 /\ Len(agenda) \in Nat \ {0}
        /\ DOMAIN agenda = 1 .. Len(agenda)
    <2>1. Len(agenda) \in Nat \ {0} /\ DOMAIN agenda = 1 .. Len(agenda)
      BY HeadCall
    <2> QED
      BY <1>1, <2>1, LenProperties
  <1>3. (\E k \in DOMAIN agenda' : agenda'[k][1] \in Starting) =>
          pstate' = "INIT" /\ \A k \in DOMAIN agenda' : agenda'[k][1] \in Starting
    BY <1>1 DEF AgendaParts
  <1>4. ASSUME NEW j \in DOMAIN agenda', NEW k \in DOMAIN agenda',
               agenda'[j] = agenda'[k], agenda'[j][1] \in {"run", "resume"}
        PROVE  j = k
    <2>1. j + 1 = k + 1
      BY <1>1, <1>4 DEF AgendaParts
    <2> QED
      BY <1>2, <2>1, SMT
  <1>5. ASSUME NEW k \in DOMAIN agenda', agenda'[k][1] \in {"wait", "waited"}
        PROVE  /\ pstate' = "RUNNING" /\ agenda'[Len(agenda')][1] = "waited"
               /\ agenda'[k][1] = "waited" => k = Len(agenda')
    <2>1. /\ pstate = "RUNNING" /\ agenda[Len(agenda)][1] = "waited"
          /\ agenda'[k][1] = "waited" => k + 1 = Len(agenda)
      BY <1>1, <1>5 DEF AgendaParts
    <2>2. Len(agenda) - 1 \in DOMAIN Tail(agenda) /\ Len(agenda) - 1 + 1 = Len(agenda)
      BY <1>2, <1>5, SMT
    <2>3. agenda'[Len(agenda')] = agenda[Len(agenda)]
      BY <1>1, <2>2
    <2>4. k + 1 = Len(agenda) => k = Len(agenda')
      BY <1>1, <1>2, <1>5, SMT
    <2> QED
      BY <2>1, <2>3, <2>4
  <1> QED
    BY <1>3, <1>4, <1>5 DEF AgendaParts

LEMMA CallerBelongs ==
  ASSUME Shapes, CallsBelong
  PROVE  /\ \A f, k, e : Caller(f, k, e) => Belongs(f) /\ StillCalls(f) /\ Head(agenda)[1] = f
         /\ \A f : StillCalls(f) => Belongs(f)
  <1>1. \A f, k, e : Caller(f, k, e) =>
          1 \in DOMAIN agenda /\ agenda[1][1] = f /\ Head(agenda)[1] = f
    BY HeadCall DEF Caller, At
  <1> QED
    BY <1>1 DEF StillCalls, CallsBelong

LEMMA AgendaPartsStep ==
  ASSUME RunsOnce, Shapes, CallsBelong, AgendaParts, [Next]_vars
  PROVE  AgendaParts'
  <1>1. CASE Operation
    <2> DEFINE In(F) == \A k \in DOMAIN agenda' : agenda'[k][1] \in F
    <2>1. /\ <<last, last'>> \in Follows /\ pstate' = pstate
          /\ \/ last' = "run" /\ In(Starting)
                /\ agenda' = IF pstate = "INIT" THEN Over("run") \o Over("resume") \o Self("ran") ELSE <<>>
             \/ last' = "resume" \/ last' = "reset"
             \/ In({"pause", "stop"})
             \/ last' = "wait_for_stop" /\ In({"wait", "waited"})
                /\ agenda' = IF pstate = "RUNNING" THEN Over("wait") \o Self("waited") ELSE <<>>
             \/ In(DeinitFunctions)
      <3>1. \A F : agenda' \in Seq(F \X Elements) => In(F)
        BY CallsIn
      <3>2. In({"pause"}) \/ In({"stop"}) => In({"pause", "stop"})
        OBVIOUS
      <3> HIDE DEF In
      <3> QED
        BY <1>1, <3>1, <3>2, OperationAgenda DEF Starting
    <2>2. /\ last' \notin {"resume", "reset", "init"}
          /\ last' = "run" => last = "init"
      <3>1. <<last, last'>> \in ({"init"} \cup Operations) \X Operations
        BY <2>1, ChainAssumption
      <3>2. last' # "init"
        BY <3>1 DEF Operations
      <3> QED
        BY <2>1, <3>2 DEF RunsOnce
    <2>3. CASE In(Starting) /\ last' = "run"
               /\ agenda' = IF pstate = "INIT" THEN Over("run") \o Over("resume") \o Self("ran") ELSE <<>>
      <3>1. pstate = "INIT" /\ agenda' = Over("run") \o Over("resume") \o Self("ran")
        BY <2>2, <2>3 DEF AgendaParts
      <3>2. \A j, k \in DOMAIN agenda' :
              agenda'[j] = agenda'[k] /\ agenda'[j][1] \in {"run", "resume"} => j = k
        BY <3>1, RunAgenda
      <3>3. \A k \in DOMAIN agenda' : agenda'[k][1] \notin {"wait", "waited"}
        BY <2>3 DEF Starting
      <3>4. pstate' = "INIT"
        BY <2>1, <3>1
      <3> HIDE DEF In
      <3>5. \A k \in DOMAIN agenda' : agenda'[k][1] \in Starting
        BY <2>3 DEF In
      <3> QED
        BY <2>2, <3>2, <3>3, <3>4, <3>5 DEF AgendaParts
    <2>4. CASE In({"wait", "waited"})
               /\ agenda' = IF pstate = "RUNNING" THEN Over("wait") \o Self("waited") ELSE <<>>
      <3>1. \A k \in DOMAIN agenda' : agenda'[k][1] \notin Starting /\ agenda'[k][1] \notin {"run", "resume"}
        BY <2>4 DEF Starting
      <3>2. CASE pstate = "RUNNING" /\ agenda' = Over("wait") \o Self("waited")
        <4>1. /\ agenda'[Len(agenda')][1] = "waited"
              /\ \A k \in DOMAIN agenda' : agenda'[k][1] = "waited" => k = Len(agenda')
          BY <3>2, WaitAgenda
        <4> QED
          BY <2>1, <2>2, <3>1, <3>2, <4>1 DEF AgendaParts
      <3>3. CASE agenda' = <<>>
        <4>1. \A k \in DOMAIN agenda' : FALSE
          BY <3>3
        <4> QED
          BY <2>2, <4>1 DEF AgendaParts
      <3> QED
        BY <2>4, <3>2, <3>3
    <2>5. CASE In({"pause", "stop"}) \/ In(DeinitFunctions)
      <3>1. \A k \in DOMAIN agenda' :
              agenda'[k][1] \notin Starting /\ agenda'[k][1] \notin {"run", "resume", "wait", "waited"}
        BY <2>5 DEF Starting, DeinitFunctions
      <3> QED
        BY <2>2, <3>1 DEF AgendaParts
    <2> HIDE DEF In
    <2> QED
      BY <2>1, <2>2, <2>3, <2>4, <2>5
  <1>2. CASE ~Operation
    <2>1. last' = last
      BY <1>2, AgendaStep
    <2>2. \A f, k : At(f, k) => Belongs(f) /\ 1 \in DOMAIN agenda /\ agenda[1][1] = f
      BY HeadCall DEF At, CallsBelong
    <2>3. last \notin {"resume", "reset"} /\ (last = "init" => agenda = <<>>)
      BY DEF AgendaParts, CallsBelong
    <2>4. ~At("resumed", 1)
      BY <2>2, <2>3 DEF Belongs
    <2>5. CASE At("ran", 1) /\ agenda' \in Seq({"terminate"} \X Elements)
      <3>1. \A k \in DOMAIN agenda' : agenda'[k][1] = "terminate"
        BY <2>5, CallsIn
      <3>2. last # "init"
        BY <2>3, <2>5 DEF At
      <3> QED
        BY <2>1, <2>3, <3>1, <3>2 DEF AgendaParts, Starting
    <2>6. CASE At("waited", 1) /\ agenda' = Tail(agenda)
      <3>1. 1 = Len(agenda) /\ last # "init"
        BY <2>2, <2>3, <2>6 DEF AgendaParts, At
      <3>2. Len(agenda') = 0 /\ DOMAIN agenda' = 1 .. Len(agenda')
        <4>1. agenda # <<>>
          BY <2>6 DEF At
        <4>2. Tail(agenda) \in Seq(Calls) /\ Len(Tail(agenda)) = Len(agenda) - 1
          BY <4>1, TailHas DEF Shapes, CallTypes
        <4> QED
          BY <2>6, <3>1, <4>2, LenProperties
      <3>3. \A k \in DOMAIN agenda' : FALSE
        BY <3>2, SMT
      <3> QED
        BY <2>1, <2>3, <3>1, <3>3 DEF AgendaParts
    <2>7. CASE pstate' = pstate /\ agenda' = agenda
      BY <2>1, <2>7 DEF AgendaParts
    <2>8. CASE pstate' = pstate /\ agenda # <<>> /\ agenda' = Tail(agenda)
      BY <2>1, <2>8, AgendaPartsTail
    <2> QED
      BY <1>2, <2>4, <2>5, <2>6, <2>7, <2>8, AgendaStep, StateStep
  <1> QED
    BY <1>1, <1>2

\* Nothing of audio_pipeline_run fails later on: Good stays false once it is.
LEMMA GoodBack ==
  ASSUME RunsOnce, Shapes, CallsBelong, AgendaParts, [Next]_vars, Good' \/ last' = "init"
  PROVE  Good \/ last = "init"
  <1>1. CASE Operation
    <2>1. /\ <<last, last'>> \in Follows /\ pstate' = pstate
      BY <1>1, OperationAgenda
    <2>2. last' # "init"
      <3>1. <<last, last'>> \in ({"init"} \cup Operations) \X Operations
        BY <2>1, ChainAssumption
      <3> QED
        BY <3>1 DEF Operations
    <2>3. last' = "run" => last = "init"
      BY <2>1 DEF RunsOnce
    <2> QED
      BY <2>1, <2>2, <2>3 DEF Good
  <1>2. CASE ~Operation
    <2>1. last' = last
      BY <1>2, AgendaStep
    <2>2. last \notin {"resume", "reset"}
      BY DEF AgendaParts
    <2>3. \A f, k : At(f, k) => Belongs(f) /\ StillCalls(f)
      BY HeadCall DEF At, CallsBelong, StillCalls
    <2>4. CASE At("ran", 1) /\ agenda' \in Seq({"terminate"} \X Elements)
      <3>1. ~StillCalls("ran")'
        <4>1. \A k \in DOMAIN agenda' : agenda'[k][1] = "terminate"
          BY <2>4, CallsIn
        <4> QED
          BY <4>1 DEF StillCalls
      <3>2. last = "run" /\ StillCalls("ran") /\ pstate = "INIT"
        <4>1. StillCalls("ran") /\ Belongs("ran")
          BY <2>3, <2>4
        <4> QED
          BY <4>1 DEF StillCalls, AgendaParts, Starting, Belongs
      <3>3. pstate' = "RUNNING"
        BY <2>1, <3>1, <3>2 DEF Good
      <3>4. ~failed
        <4>1. \/ Between \/ pstate' = pstate
          <5>1. CASE ElementCall
            <6>1. (\E k \in 1 .. 6 : Goto(k)) \/ Return \/ ReturnFail \/ GiveUp \/ GiveUpFail
              BY <5>1, CallMoves
            <6> QED
              BY <6>1 DEF Goto, Return, ReturnFail, GiveUp, GiveUpFail, Leave
          <5>2. CASE \E e \in HasTask : Task(e) \/ Fail(e)
            BY <5>2 DEF Task, Write, Begin, Allocate, Wait, Command, Open, Process, Busy, Fail, Exit, callVars
          <5>3. CASE Drain \/ Gone \/ UNCHANGED vars
            BY <5>3 DEF Drain, Gone, vars, callVars
          <5> QED
            BY <1>2, <5>1, <5>2, <5>3 DEF Next
        <4>2. CASE Between
          BY <2>4, <3>3, <4>2 DEF Between, At
        <4> QED
          BY <3>2, <3>3, <4>1, <4>2
      <3> QED
        BY <3>2, <3>4 DEF Good
    <2>5. CASE At("resumed", 1)
      BY <2>2, <2>3, <2>5 DEF Belongs
    <2>6. CASE At("waited", 1)
      <3>1. StillCalls("waited")
        BY <2>3, <2>6
      <3>2. pstate = "RUNNING"
        BY <3>1 DEF StillCalls, AgendaParts
      <3> QED
        BY <3>2 DEF Good
    <2>7. CASE /\ pstate' = pstate
               /\ agenda' = agenda \/ (agenda # <<>> /\ agenda' = Tail(agenda))
      <3>1. StillCalls("ran")' => StillCalls("ran")
        <4>1. agenda # <<>> => \A k \in DOMAIN Tail(agenda) :
                                  k + 1 \in DOMAIN agenda /\ Tail(agenda)[k] = agenda[k + 1]
          BY TailHas DEF Shapes, CallTypes
        <4> QED
          BY <2>7, <4>1 DEF StillCalls
      <3>2. ~failed' => ~failed \/ ~StillCalls("ran")'
        <4>1. CASE ElementCall
          <5>1. (\E k \in 1 .. 6 : Goto(k)) \/ Return \/ ReturnFail \/ GiveUp \/ GiveUpFail
            BY <4>1, CallMoves
          <5> QED
            BY <5>1 DEF Goto, Return, ReturnFail, GiveUp, GiveUpFail, Leave
        <4>2. CASE \E e \in HasTask : Task(e) \/ Fail(e)
          BY <4>2 DEF Task, Write, Begin, Allocate, Wait, Command, Open, Process, Busy, Fail, Exit, callVars
        <4>3. CASE Drain \/ Gone \/ UNCHANGED vars
          BY <4>3 DEF Drain, Gone, vars, callVars
        <4>4. CASE Between
          BY <4>4 DEF Between
        <4> QED
          BY <1>2, <4>1, <4>2, <4>3, <4>4 DEF Next
      <3> QED
        BY <2>1, <2>7, <3>1, <3>2 DEF Good
    <2> QED
      BY <1>2, <2>4, <2>5, <2>6, <2>7, AgendaStep, StateStep
  <1> QED
    BY <1>1, <1>2

LEMMA ProgressWrite ==
  ASSUME Shapes, CallsBelong, NEW e \in HasTask, OpensRunning(e), Progress(e), Write(e)
  PROVE  Progress(e)'
  <1> DEFINE h == Head(todo[e])
  <1>1. /\ todo[e] \in Seq(Writes) /\ todo[e] # <<>> /\ h \in Writes
        /\ el[e] \in Record /\ el'[e] = Written(el[e], h)
        /\ todo'[e] = Tail(todo[e]) /\ pc'[e] = pc[e] /\ cmdq'[e] = cmdq[e]
        /\ UNCHANGED <<pstate, last, agenda, at, failed, fault>>
    BY WriteStep
  <1>2. /\ \A x : Has(todo[e], x) => Has(todo'[e], x) \/ h = x
        /\ \A x : Has(todo'[e], x) => Has(todo[e], x)
        /\ Has(todo[e], h)
    BY <1>1, TailKeeps
  <1>3. /\ h = RunOff => ~el'[e].isRunning
        /\ h \notin {RunOn, RunOff} => el'[e].isRunning = el[e].isRunning
        /\ "STOPPED" \in el'[e].bits => h = Stopped \/ "STOPPED" \in el[e].bits
        /\ "RESUMED" \in el'[e].bits => h = Resumed \/ "RESUMED" \in el[e].bits
        /\ RunOn # RunOff /\ Stopped # RunOn /\ Stopped # RunOff
    <2>1. "STOPPED" \in Bits /\ "RESUMED" \in Bits
      BY DEF Bits
    <2>2. Stopped # RunOn /\ Stopped # RunOff /\ RunOn # RunOff
      BY WriteNames DEF Stopped, Bits
    <2> QED
      BY <1>1, <2>1, <2>2, WrittenFields DEF Stopped, Resumed
  <1>4. \A f, k, d : Caller(f, k, d)' <=> Caller(f, k, d)
    BY <1>1, CallerStays
  <1>5. (ToRun(e)' <=> ToRun(e)) /\ (ToResume(e)' <=> ToResume(e)) /\ (WaitedFor(e)' <=> WaitedFor(e))
    BY <1>1, <1>4 DEF ToRun, ToResume, WaitedFor, StillCalls
  <1>6. After(todo[e], RunOff, Stopped) /\ h # RunOff => After(todo'[e], RunOff, Stopped) /\ h # Stopped
    BY <1>1, TailAfter
  <1>7. Before(todo[e], RunOn, Resumed) =>
          Before(todo'[e], RunOn, Resumed) /\ (Has(todo'[e], RunOn) => h # Resumed)
    BY <1>1, TailBefore
  <1>8. ~ToRun(e)
    BY <1>1 DEF Progress, Fresh
  <1> HIDE DEF h
  <1>9. ASSUME pc[e] \notin {"none", "exit"}
        PROVE  /\ Honest(e)'
               /\ ToResume(e) => Unstarted(e)'
               /\ WaitedFor(e) => ~el'[e].isRunning
    <2>1. Honest(e)
      BY <1>9 DEF Progress
    <2>2. h = RunOn => Resuming(e)
      BY <1>2 DEF Resuming
    <2>3. "STOPPED" \in el'[e].bits => ~el'[e].isRunning
      <3>1. CASE h = Stopped
        BY <1>3, <1>6, <2>1, <3>1 DEF Honest
      <3>2. CASE h = RunOn
        BY <1>3, <2>1, <2>2, <3>2 DEF Honest
      <3>3. CASE h \notin {Stopped, RunOn}
        BY <1>3, <2>1, <3>3 DEF Honest
      <3> QED
        BY <3>1, <3>2, <3>3
    <2>4. el'[e].isRunning => After(todo'[e], RunOff, Stopped)
      <3>1. CASE h = RunOn
        <4>1. ~Has(todo'[e], Stopped)
          BY <1>2, <2>1, <2>2, <3>1 DEF Honest
        <4> QED
          BY <4>1, NothingAfter
      <3>2. CASE h # RunOn
        BY <1>3, <1>6, <2>1, <3>2 DEF Honest
      <3> QED
        BY <3>1, <3>2
    <2>5. Resuming(e)' => Resuming(e) /\ h # Stopped /\ h # Resumed /\ ~Has(todo'[e], Stopped)
      <3>1. Resuming(e)' => Resuming(e)
        BY <1>1, <1>2 DEF Resuming
      <3>2. Resuming(e) => h # Stopped /\ ~Has(todo'[e], Stopped)
        BY <1>2, <2>1 DEF Honest
      <3>3. Has(cmdq[e], "RESUME") => h # Resumed
        BY <1>2, <2>1 DEF Honest
      <3>4. Has(todo'[e], RunOn) => h # Resumed
        BY <1>7, <2>1 DEF Honest
      <3> QED
        BY <1>1, <3>1, <3>2, <3>3, <3>4 DEF Resuming
    <2>6. Resuming(e)' => /\ Caller("resume", 3, e)' /\ "RESUMED" \notin el'[e].bits
                          /\ "STOPPED" \notin el'[e].bits /\ ~Has(todo'[e], Stopped)
      BY <1>3, <1>4, <2>1, <2>5 DEF Honest
    <2>7. Has(cmdq'[e], "RESUME") =>
            /\ cmdq'[e] = <<"RESUME">> /\ ~el'[e].isRunning
            /\ ~Has(todo'[e], RunOn) /\ ~Has(todo'[e], Resumed)
            /\ pc'[e] \notin {"open", "reopen", "busy"}
      BY <1>1, <1>2, <1>3, <2>1 DEF Honest
    <2>8. Honest(e)'
      BY <1>1, <1>7, <2>1, <2>3, <2>4, <2>6, <2>7 DEF Honest
    <2>9. ToResume(e) => Unstarted(e)'
      <3> SUFFICES ASSUME ToResume(e)
                   PROVE  Unstarted(e)'
        OBVIOUS
      <3>1. Unstarted(e)
        BY <1>9 DEF Progress
      <3> QED
        BY <1>1, <1>2, <1>3, <3>1 DEF Unstarted
    <2>10. WaitedFor(e) => ~el'[e].isRunning
      <3> SUFFICES ASSUME WaitedFor(e)
                   PROVE  ~el'[e].isRunning
        OBVIOUS
      <3>1. ~el[e].isRunning
        BY <1>9 DEF Progress
      <3>2. ~Caller("resume", 3, e)
        BY CallerBelongs DEF WaitedFor, Belongs
      <3>3. h # RunOn
        BY <2>1, <2>2, <3>2 DEF Honest
      <3> QED
        BY <1>3, <3>1, <3>3
    <2> QED
      BY <2>8, <2>9, <2>10
  <1> QED
    BY <1>1, <1>5, <1>8, <1>9 DEF Progress

LEMMA ProgressMoves ==
  ASSUME Shapes, NEW e \in HasTask, OpensRunning(e), Progress(e), Moves(e)
  PROVE  Progress(e)'
  <1>1. /\ todo[e] = <<>> /\ el'[e] = el[e] /\ \A x : ~Has(todo[e], x)
        /\ UNCHANGED <<pstate, last, agenda, at, failed>>
    BY LiteralHas DEF Moves
  <1>2. e \in Elements /\ pc \in [Elements -> Places] /\ todo \in [Elements -> Seq(Writes)]
        /\ cmdq[e] \in Seq(Commands) /\ cmdq \in [Elements -> Seq(Commands)]
    BY ChainAssumption DEF Shapes, TaskTypes
  <1>3. \A p, ws : Then(e, p, ws) => pc'[e] = p /\ todo'[e] = ws
    BY <1>2 DEF Then
  <1>4. \A c : Taken(e, c) => cmdq[e] # <<>> /\ Head(cmdq[e]) = c /\ cmdq'[e] = Tail(cmdq[e])
    BY <1>2 DEF Taken
  <1>5. \A f, k, d : Caller(f, k, d)' <=> Caller(f, k, d)
    BY <1>1, CallerStays
  <1>6. (ToRun(e)' <=> ToRun(e)) /\ (ToResume(e)' <=> ToResume(e)) /\ (WaitedFor(e)' <=> WaitedFor(e))
    BY <1>1, <1>5 DEF ToRun, ToResume, WaitedFor, StillCalls
  <1>7. Loop = {"wait", "blocked", "open", "reopen", "process", "busy"}
    BY PlaceNames
  <1>8. ~ToRun(e)
    <2>1. pc[e] # "none"
      BY <1>7 DEF Moves, Passes, Halted, PausesNow, Resumes, Opens, Begins, Allocates, GivesUp,
                  Goes, Ends
    <2> QED
      BY <2>1 DEF Progress, Fresh
  <1>9. CASE GivesUp(e) \/ Goes(e) \/ Ends(e)
    <2>1. pc'[e] \in {"none", "exit"}
      BY <1>3, <1>9 DEF GivesUp, Goes, Ends
    <2> QED
      BY <1>6, <1>8, <2>1 DEF Progress
  <1>10. ASSUME ~GivesUp(e), ~Goes(e), ~Ends(e)
         PROVE  /\ Honest(e) /\ (ToResume(e) => Unstarted(e)) /\ (WaitedFor(e) => ~el[e].isRunning)
    <2>1. pc[e] \notin {"none", "exit"}
      BY <1>7, <1>10 DEF Moves, Passes, Halted, PausesNow, Resumes, Opens, Begins, Allocates
    <2> QED
      BY <2>1 DEF Progress
  <1>11. ASSUME ~GivesUp(e), ~Goes(e), ~Ends(e), Honest(e)', ToResume(e) => Unstarted(e)'
         PROVE  Progress(e)'
    BY <1>1, <1>6, <1>8, <1>10, <1>11 DEF Progress
  \* Nothing is sent or taken that has to do with running.
  <1>12. ASSUME NEW p, NEW ws, Then(e, p, ws), ~GivesUp(e), ~Goes(e), ~Ends(e),
                \A x \in {Stopped, RunOn, Resumed} : ~Has(ws, x), p \notin {"open", "reopen"},
                p = "busy" => el[e].isRunning /\ ws = <<>> /\ el[e].state # "INIT",
                cmdq' = cmdq \/ (\E c \in Commands \ {"RESUME"} : Taken(e, c))
         PROVE  Progress(e)'
    <2>1. pc'[e] = p /\ todo'[e] = ws
      BY <1>3, <1>12
    <2>2. Has(cmdq'[e], "RESUME") => Has(cmdq[e], "RESUME") /\ cmdq'[e] = cmdq[e]
      <3>1. CASE cmdq' = cmdq
        BY <3>1
      <3>2. CASE \E c \in Commands \ {"RESUME"} : Taken(e, c)
        <4>1. cmdq[e] # <<>> /\ Head(cmdq[e]) # "RESUME" /\ cmdq'[e] = Tail(cmdq[e])
          BY <1>4, <3>2
        <4>2. Has(cmdq'[e], "RESUME") => Has(cmdq[e], "RESUME")
          BY <1>2, <4>1, TailKeeps
        <4>3. Has(cmdq[e], "RESUME") => Head(cmdq[e]) = "RESUME"
          BY <1>10, <1>12 DEF Honest
        <4> QED
          BY <4>1, <4>2, <4>3
      <3> QED
        BY <1>12, <3>1, <3>2
    <2>3. Before(ws, RunOn, Resumed) /\ After(ws, RunOff, Stopped)
      BY <1>12 DEF Before, After, Has
    <2>4. Resuming(e)' => Has(cmdq'[e], "RESUME")
      BY <1>12, <2>1 DEF Resuming
    <2>5. Has(cmdq[e], "RESUME") => Resuming(e)
      BY DEF Resuming
    <2>6. Has(cmdq[e], "RESUME") =>
            /\ Caller("resume", 3, e) /\ "RESUMED" \notin el[e].bits /\ "STOPPED" \notin el[e].bits
            /\ cmdq[e] = <<"RESUME">> /\ ~el[e].isRunning
      BY <1>10, <1>12, <2>5 DEF Honest
    <2>7. "STOPPED" \in el[e].bits => ~el[e].isRunning
      BY <1>10, <1>12 DEF Honest
    <2>8. Honest(e)'
      BY <1>1, <1>5, <1>12, <2>1, <2>2, <2>3, <2>4, <2>6, <2>7 DEF Honest
    <2>9. ToResume(e) => Unstarted(e)'
      <3> SUFFICES ASSUME ToResume(e)
                   PROVE  Unstarted(e)'
        OBVIOUS
      <3>1. Unstarted(e)
        BY <1>10, <1>12
      <3>2. cmdq'[e] = <<>>
        BY <1>4, <1>12, <3>1 DEF Unstarted
      <3> QED
        BY <1>1, <1>12, <2>1, <3>1, <3>2 DEF Unstarted
    <2> QED
      BY <1>11, <1>12, <2>8, <2>9
  <1>13. CASE (Passes(e) \/ PausesNow(e) \/ Opens(e) \/ Begins(e) \/ Allocates(e))
              /\ ~GivesUp(e) /\ ~Goes(e) /\ ~Ends(e)
    <2>0. "PAUSE" \in Commands \ {"RESUME"}
      BY DEF Commands
    <2>1. CASE Passes(e)
      <3>1. PICK p \in {"wait", "blocked", "process", "busy"} :
              /\ Then(e, p, <<>>)
              /\ p = "busy" => el[e].isRunning /\ el[e].state # "INIT"
        BY <2>1 DEF Passes
      <3>2. cmdq' = cmdq /\ \A x : ~Has(<<>>, x)
        BY <2>1, LiteralHas DEF Passes
      <3> QED
        BY <1>12, <1>13, <3>1, <3>2
    <2>2. CASE PausesNow(e)
      <3>1. \A x \in {Stopped, RunOn, Resumed} : ~Has(OnPause, x)
        BY OnPauseHas
      <3> QED
        BY <1>12, <1>13, <2>0, <2>2, <3>1 DEF PausesNow
    <2>3. CASE Opens(e)
      <3>1. \A x \in {Stopped, RunOn, Resumed} : ~Has(Opened, x)
        BY OpenedHas DEF Stopped, Resumed, Bits
      <3>2. PICK p \in {"wait", "process"} : Then(e, p, Opened) /\ cmdq' = cmdq
        BY <2>3 DEF Opens
      <3> QED
        BY <1>12, <1>13, <3>1, <3>2
    <2>4. CASE Begins(e)
      <3>1. PICK ws : /\ ws = << <<"taskRun", TRUE>>, Set("CREATED"), <<"state", "INIT">>, <<"wait", "max">> >>
                      /\ Then(e, "init", ws) /\ cmdq' = cmdq
        BY <2>4, Zenon DEF Begins
      <3>2. \A x \in {Stopped, RunOn, Resumed} : ~Has(ws, x)
        <4>1. \A x : Has(ws, x) => /\ x \notin {ZeroWait, RunOn, RunOff}
                                   /\ \A b \in Bits : x = Set(b) => b = "CREATED"
          BY <3>1, FirstHas
        <4>2. "STOPPED" \in Bits /\ "RESUMED" \in Bits
          BY DEF Bits
        <4> QED
          BY <4>1, <4>2 DEF Stopped, Resumed
      <3> QED
        BY <1>12, <1>13, <3>1, <3>2
    <2>5. CASE Allocates(e)
      <3>1. \A x \in {Stopped, RunOn, Resumed} : ~Has(<< Clear("STOPPED") >>, x)
        BY ClearHas DEF Stopped, Resumed, Bits
      <3> QED
        BY <1>12, <1>13, <2>5, <3>1 DEF Allocates
    <2> QED
      BY <1>13, <2>1, <2>2, <2>3, <2>4, <2>5
  <1>14. CASE Halted(e) /\ ~GivesUp(e) /\ ~Goes(e) /\ ~Ends(e)
    <2>1. PICK p \in {"wait", "process"}, ws \in Seq(Plain) : Then(e, p, ws) /\ Halts(el[e], ws)
      BY <1>14 DEF Halted
    <2>2. pc'[e] = p /\ todo'[e] = ws
      BY <1>3, <2>1
    <2>3. ~Has(ws, RunOn) /\ ~Has(ws, Resumed) /\ After(ws, RunOff, Stopped)
      BY <2>1, HaltNames DEF Halts
    <2>4. ~Has(cmdq'[e], "RESUME")
      <3>1. Has(cmdq[e], "RESUME") => /\ cmdq[e] = <<"RESUME">>
                                      /\ pc[e] \notin {"open", "reopen", "busy"}
        BY <1>10, <1>14 DEF Honest
      <3>2. CASE pc[e] \in {"open", "reopen", "busy"} /\ cmdq' = cmdq
        BY <3>1, <3>2
      <3>3. CASE Taken(e, "STOP")
        <4>1. cmdq[e] # <<>> /\ Head(cmdq[e]) = "STOP" /\ cmdq'[e] = Tail(cmdq[e])
          BY <1>4, <3>3
        <4>2. ~Has(cmdq[e], "RESUME")
          BY <3>1, <4>1
        <4> QED
          BY <1>2, <4>1, <4>2, TailKeeps
      <3> QED
        BY <1>14, <3>2, <3>3 DEF Halted
    <2>5. ~Resuming(e)' /\ Before(ws, RunOn, Resumed)
      BY <2>2, <2>3, <2>4 DEF Resuming, Before, Has
    <2>6. "STOPPED" \in el[e].bits => ~el[e].isRunning
      BY <1>10, <1>14 DEF Honest
    <2>7. Honest(e)'
      BY <1>1, <2>2, <2>3, <2>4, <2>5, <2>6 DEF Honest
    <2>8. ~ToResume(e)
      BY <1>4, <1>10, <1>14 DEF Unstarted, Halted
    <2> QED
      BY <1>11, <1>14, <2>7, <2>8
  <1>15. CASE Resumes(e) /\ ~GivesUp(e) /\ ~Goes(e) /\ ~Ends(e)
    <2>1. PICK p \in {"process", "open", "reopen"} : Then(e, p, OnResume(el[e]))
      BY <1>15 DEF Resumes
    <2>2. pc'[e] = p /\ todo'[e] = OnResume(el[e])
      BY <1>3, <2>1
    <2>3. /\ ~Has(OnResume(el[e]), Stopped) /\ Before(OnResume(el[e]), RunOn, Resumed)
      BY OnResumeHas
    <2>4. cmdq[e] # <<>> /\ Head(cmdq[e]) = "RESUME" /\ cmdq'[e] = Tail(cmdq[e])
      <3>1. Taken(e, "RESUME")
        BY <1>10, <1>15 DEF Resumes, Honest
      <3> QED
        BY <1>4, <3>1
    <2>5. Has(cmdq[e], "RESUME")
      BY <1>2, <2>4, TailKeeps
    <2>6. /\ Caller("resume", 3, e) /\ "RESUMED" \notin el[e].bits /\ "STOPPED" \notin el[e].bits
          /\ cmdq[e] = <<"RESUME">>
      BY <1>10, <1>15, <2>5 DEF Honest, Resuming
    <2>7. ~Has(cmdq'[e], "RESUME")
      <3>1. Tail(<<"RESUME">>) = <<>>
        OBVIOUS
      <3> QED
        BY <2>4, <2>6, <3>1, LiteralHas
    <2>8. After(OnResume(el[e]), RunOff, Stopped)
      BY <2>3, NothingAfter
    <2>9. Honest(e)'
      BY <1>1, <1>5, <2>2, <2>3, <2>6, <2>7, <2>8 DEF Honest
    <2>10. ~ToResume(e)
      BY <2>6 DEF ToResume
    <2> QED
      BY <1>11, <1>15, <2>9, <2>10
  <1> QED
    BY <1>9, <1>13, <1>14, <1>15 DEF Moves

\* Where an element function is at, and what audio_element_wait_for_stop_ms goes on to.
LEMMA CallSteps ==
  ASSUME ElementCall
  PROVE  /\ agenda # <<>> /\ Head(agenda)[1] # "ran"
         /\ Head(agenda)[1] = "run" => at = 1 \/ at = 2
         /\ Head(agenda)[1] = "resume" => at = 1 \/ at = 2 \/ at = 3
         /\ Head(agenda)[1] = "wait" =>
              \/ at = 1 /\ Goto(IF el[Callee].isRunning THEN 2 ELSE 3)
              \/ at = 2 /\ "STOPPED" \in el[Callee].bits /\ Goto(3)
              \/ at = 3 /\ Return
  <1>1. CASE ElementRun
    BY <1>1 DEF ElementRun, At
  <1>2. CASE ElementResume
    BY <1>2 DEF ElementResume, At
  <1>3. CASE ElementWait
    BY <1>3, Zenon DEF ElementWait, At, Seen
  <1>4. CASE ElementPause
    BY <1>4 DEF ElementPause, At
  <1>5. CASE ElementStop
    BY <1>5 DEF ElementStop, At
  <1>6. CASE ElementReset
    BY <1>6 DEF ElementReset, At
  <1>7. CASE ElementTerminate
    BY <1>7 DEF ElementTerminate, At
  <1>8. CASE ElementFree
    BY <1>8 DEF ElementFree, At
  <1> QED
    BY <1>1, <1>2, <1>3, <1>4, <1>5, <1>6, <1>7, <1>8 DEF ElementCall

\* A step that leaves the task where it is and its element running or not as it was.
LEMMA ProgressKept ==
  ASSUME NEW e, Progress(e), pc'[e] = pc[e], todo'[e] = todo[e],
         el'[e].isRunning = el[e].isRunning,
         pc[e] \notin {"none", "exit"} =>
           /\ Has(cmdq'[e], "RESUME") => cmdq'[e] = cmdq[e]
           /\ Resuming(e) => Caller("resume", 3, e)'
           /\ WaitedFor(e)' => WaitedFor(e) \/ ~el[e].isRunning
           /\ el'[e].state = "INIT" => el[e].state = "INIT" \/ pc[e] # "busy",
         "RESUMED" \in el'[e].bits => "RESUMED" \in el[e].bits,
         \/ "STOPPED" \in el'[e].bits => "STOPPED" \in el[e].bits
         \/ ~el[e].isRunning /\ ~Caller("resume", 3, e) /\ ~ToRun(e)' /\ ~ToResume(e)',
         ToRun(e)' => ToRun(e), ToResume(e)' => ToResume(e) /\ cmdq'[e] = cmdq[e]
  PROVE  Progress(e)'
  <1>1. ASSUME ToRun(e)' PROVE Fresh(e)'
    BY <1>1 DEF Progress, Fresh
  <1>2. ASSUME pc[e] \notin {"none", "exit"}
        PROVE  Honest(e)' /\ (ToResume(e)' => Unstarted(e)') /\ (WaitedFor(e)' => ~el'[e].isRunning)
    <2>1. Honest(e) /\ (ToResume(e) => Unstarted(e)) /\ (WaitedFor(e) => ~el[e].isRunning)
      BY <1>2 DEF Progress
    <2>2. Resuming(e)' => Resuming(e)
      BY <1>2 DEF Resuming
    <2>3. Resuming(e) => /\ Caller("resume", 3, e) /\ "RESUMED" \notin el[e].bits
                         /\ "STOPPED" \notin el[e].bits /\ ~Has(todo[e], Stopped)
      BY <2>1 DEF Honest
    <2>4. Resuming(e) => "STOPPED" \notin el'[e].bits
      BY <2>3
    <2>5. Resuming(e)' => /\ Caller("resume", 3, e)' /\ "RESUMED" \notin el'[e].bits
                          /\ "STOPPED" \notin el'[e].bits /\ ~Has(todo'[e], Stopped)
      BY <1>2, <2>2, <2>3, <2>4
    <2>6. /\ "STOPPED" \in el'[e].bits => ~el'[e].isRunning
          /\ el'[e].isRunning => After(todo'[e], RunOff, Stopped)
          /\ pc'[e] = "busy" => el'[e].isRunning /\ todo'[e] = <<>> /\ el'[e].state # "INIT"
          /\ Before(todo'[e], RunOn, Resumed)
      BY <1>2, <2>1 DEF Honest
    <2>7. Has(cmdq'[e], "RESUME") =>
            /\ cmdq'[e] = <<"RESUME">> /\ ~el'[e].isRunning
            /\ ~Has(todo'[e], RunOn) /\ ~Has(todo'[e], Resumed)
            /\ pc'[e] \notin {"open", "reopen", "busy"}
      BY <1>2, <2>1 DEF Honest
    <2>8. Honest(e)'
      BY <2>5, <2>6, <2>7 DEF Honest
    <2>9. ToResume(e)' => Unstarted(e)'
      BY <2>1 DEF Unstarted
    <2> QED
      BY <1>2, <2>1, <2>8, <2>9
  <1> QED
    BY <1>1, <1>2 DEF Progress

LEMMA ProgressSame ==
  ASSUME NEW e, Progress(e), UNCHANGED <<agenda, at, last>>,
         pc'[e] = pc[e], todo'[e] = todo[e], el'[e] = el[e], cmdq'[e] = cmdq[e]
  PROVE  Progress(e)'
  <1>1. \A f, k, d : Caller(f, k, d)' <=> Caller(f, k, d)
    BY CallerStays
  <1>2. (ToRun(e)' <=> ToRun(e)) /\ (ToResume(e)' <=> ToResume(e)) /\ (WaitedFor(e)' <=> WaitedFor(e))
    BY <1>1 DEF ToRun, ToResume, WaitedFor, StillCalls
  <1>3. pc[e] \notin {"none", "exit"} /\ Resuming(e) => Caller("resume", 3, e)'
    BY <1>1 DEF Progress, Honest
  <1> QED
    BY <1>2, <1>3, ProgressKept

\* What is left of the agenda was in it; what is gone was its head.
LEMMA AgendaLeft ==
  ASSUME Shapes, agenda # <<>>, agenda' = agenda \/ agenda' = Tail(agenda)
  PROVE  /\ \A x : Has(agenda', x) => Has(agenda, x)
         /\ \A x : Has(agenda, x) /\ x # Head(agenda) => Has(agenda', x)
         /\ \A f : StillCalls(f)' => StillCalls(f)
         /\ Has(agenda, Head(agenda))
  <1>1. agenda \in Seq(Calls)
    BY DEF Shapes, CallTypes
  <1>2. /\ \A x : Has(agenda, x) => Has(Tail(agenda), x) \/ Head(agenda) = x
        /\ \A x : Has(Tail(agenda), x) => Has(agenda, x)
        /\ Has(agenda, Head(agenda))
    BY <1>1, TailKeeps
  <1>3. \A k \in DOMAIN Tail(agenda) : k + 1 \in DOMAIN agenda /\ Tail(agenda)[k] = agenda[k + 1]
    BY <1>1, TailHas
  <1> QED
    BY <1>2, <1>3 DEF StillCalls

\* A call on another element, and audio_pipeline_unlink.
LEMMA ProgressApart ==
  ASSUME Shapes, CallsBelong, NEW e, Progress(e), agenda # <<>>, last' = last,
         \A f, k : Caller(f, k, e) => k = 1,
         Head(agenda) # <<"wait", e>>,
         \/ agenda' = agenda /\ Callee # e
         \/ agenda' = Tail(agenda) /\ at' = 1,
         pc'[e] = pc[e], todo'[e] = todo[e], el'[e] = el[e], cmdq'[e] = cmdq[e]
  PROVE  Progress(e)'
  <1>1. /\ \A x : Has(agenda', x) => Has(agenda, x)
        /\ Has(agenda, <<"wait", e>>) => Has(agenda', <<"wait", e>>)
        /\ StillCalls("waited")' => StillCalls("waited")
    BY AgendaLeft
  <1>2. ~Caller("run", 2, e) /\ ~Caller("resume", 3, e)
    BY SMT
  <1>3. ~Caller("wait", 3, e)'
    BY DEF Caller, At, Callee
  <1>4. ToRun(e)' => ToRun(e)
    BY <1>1, <1>2 DEF ToRun
  <1>5. ToResume(e)' => ToResume(e)
    BY <1>1, <1>2 DEF ToResume
  <1>6. WaitedFor(e)' => WaitedFor(e)
    BY <1>1, <1>3 DEF WaitedFor
  <1>7. pc[e] \notin {"none", "exit"} => ~Resuming(e)
    BY <1>2 DEF Progress, Honest
  <1> QED
    BY <1>4, <1>5, <1>6, <1>7, ProgressKept

\* audio_element_run of an element.
LEMMA ProgressRun ==
  ASSUME Shapes, CallsBelong, AgendaParts, NEW e \in HasTask, Progress(e), ElementCall,
         Callee = e, Head(agenda)[1] = "run", last' = last
  PROVE  Progress(e)'
  <1>1. Touches(e) /\ Sends(e) /\ Stays(e)
    BY CalleeStep
  <1>2. /\ agenda # <<>> /\ Head(agenda) = <<"run", e>> /\ last # "init" /\ e \in Elements
        /\ 1 \in DOMAIN agenda /\ agenda[1] = <<"run", e>> /\ agenda \in Seq(Calls)
    <2>1. agenda # <<>>
      BY CallSteps
    <2>2. Head(agenda) \in Calls
      BY <2>1, TailHas DEF Shapes, CallTypes
    <2>3. Head(agenda) = <<"run", e>>
      BY <2>2 DEF Calls, Callee
    <2> QED
      BY <2>1, <2>3, HeadCall, ChainAssumption DEF CallsBelong, Shapes, CallTypes
  <1>3. \A f, k : Caller(f, k, e) => f = "run"
    BY DEF Caller, At
  <1>4. /\ el'[e].isRunning = el[e].isRunning
        /\ "STOPPED" \in el'[e].bits => "STOPPED" \in el[e].bits
        /\ "RESUMED" \in el'[e].bits => "RESUMED" \in el[e].bits
        /\ el'[e].state = "INIT" => el[e].state = "INIT"
    BY <1>1, <1>3 DEF Touches, Bits
  <1>5. /\ pc \in [Elements -> Places] /\ todo \in [Elements -> Seq(Writes)]
        /\ cmdq \in [Elements -> Seq(Commands)]
    BY DEF Shapes, TaskTypes
  <1>6. \/ pc'[e] = pc[e] /\ todo'[e] = todo[e]
        \/ pc'[e] = "begin" /\ todo'[e] = <<>> /\ cmdq'[e] = <<>> /\ Goto(2)
    <2>1. CASE cmdq' = cmdq /\ UNCHANGED <<pc, todo>>
      BY <2>1
    <2>2. CASE UNCHANGED <<pc, todo>>
      BY <2>2
    <2>3. CASE cmdq' = [cmdq EXCEPT ![e] = <<>>] /\ Then(e, "begin", <<>>) /\ Goto(2)
      BY <1>2, <1>5, <2>3 DEF Then
    <2> QED
      BY <1>1, <2>1, <2>2, <2>3 DEF Sends
  <1>7. CASE at = 1
    <2>1. Has(agenda, <<"run", e>>) /\ ~Caller("run", 2, e)
      BY <1>2, <1>7 DEF Has, Caller, At
    <2>2. Fresh(e)
      BY <2>1 DEF Progress, ToRun
    <2>3. CASE pc'[e] = pc[e] /\ todo'[e] = todo[e]
      BY <1>4, <2>2, <2>3 DEF Progress, Fresh
    <2>4. CASE pc'[e] = "begin" /\ todo'[e] = <<>> /\ cmdq'[e] = <<>> /\ Goto(2)
      <3>1. Caller("run", 2, e)'
        <4>1. Caller("run", 1, e)
          BY <1>2, <1>7 DEF Caller, At
        <4> QED
          BY <2>4, <4>1, GotoCaller
      <3>2. ~ToRun(e)'
        BY <1>2, <3>1 DEF ToRun
      <3>3. \A x : ~Has(todo'[e], x) /\ ~Has(cmdq'[e], x)
        BY <2>4, LiteralHas
      <3>4. ~el'[e].isRunning /\ "STOPPED" \notin el'[e].bits
        BY <1>4, <2>2 DEF Fresh
      <3>5. Before(todo'[e], RunOn, Resumed)
        BY <3>3 DEF Before, Has
      <3>6. Honest(e)' /\ Unstarted(e)'
        BY <2>4, <3>3, <3>4, <3>5 DEF Honest, Unstarted, Resuming
      <3> QED
        BY <3>2, <3>4, <3>6 DEF Progress
    <2> QED
      BY <1>6, <2>3, <2>4
  <1>8. CASE at = 2
    <2>1. ~Caller("run", 1, e)
      BY <1>8 DEF Caller, At
    <2>2. pc'[e] = pc[e] /\ todo'[e] = todo[e] /\ cmdq'[e] = cmdq[e]
      BY <1>1, <1>3, <2>1 DEF Sends
    <2>3. at' = 1 /\ agenda' = Tail(agenda)
      BY <1>1, <1>3, <2>1, LeaveCaller DEF Stays
    <2>4. /\ \A x : Has(agenda', x) => Has(agenda, x)
          /\ StillCalls("waited")' => StillCalls("waited")
      BY <1>2, <2>3, AgendaLeft
    <2>5. ~Has(agenda', <<"run", e>>)
      <3> SUFFICES ASSUME Has(agenda', <<"run", e>>)
                   PROVE  FALSE
        OBVIOUS
      <3>1. PICK k \in DOMAIN Tail(agenda) : Tail(agenda)[k] = <<"run", e>>
        BY <2>3 DEF Has
      <3>2. k + 1 \in DOMAIN agenda /\ agenda[k + 1] = <<"run", e>>
        BY <1>2, <3>1, TailHas
      <3>3. k + 1 = 1
        BY <1>2, <3>2 DEF AgendaParts
      <3>4. k \in 1 .. Len(Tail(agenda))
        <4>1. Tail(agenda) \in Seq(Calls)
          BY <1>2, TailHas
        <4> QED
          BY <3>1, <4>1, LenProperties
      <3> QED
        BY <3>3, <3>4, SMT
    <2>6. ~ToRun(e)'
      BY <1>2, <2>5 DEF ToRun
    <2>7. ~Caller("resume", 3, e)
      BY <1>3
    <2>8. ToResume(e)' => ToResume(e)
      BY <2>4, <2>7 DEF ToResume
    <2>9. ~StillCalls("waited")
      <3>1. \A k \in DOMAIN agenda : agenda[k][1] \in Starting
        BY <1>2 DEF AgendaParts, Starting
      <3> QED
        BY <3>1 DEF StillCalls, Starting
    <2>10. ~WaitedFor(e)'
      BY <2>4, <2>9 DEF WaitedFor
    <2>11. pc[e] \notin {"none", "exit"} => ~Resuming(e)
      BY <2>7 DEF Progress, Honest
    <2> QED
      BY <1>4, <2>2, <2>6, <2>8, <2>10, <2>11, ProgressKept
  <1> QED
    BY <1>7, <1>8, CallSteps

\* audio_element_resume of an element that audio_pipeline_run has just made the task of.
LEMMA ProgressResume ==
  ASSUME Shapes, CallsBelong, AgendaParts, NEW e \in HasTask, Progress(e), ElementCall,
         Callee = e, Head(agenda)[1] = "resume", last' = last, Good'
  PROVE  Progress(e)'
  <1>1. Touches(e) /\ Sends(e) /\ Stays(e)
    BY CalleeStep
  <1>2. /\ agenda # <<>> /\ Head(agenda) = <<"resume", e>> /\ last # "init" /\ e \in Elements
        /\ 1 \in DOMAIN agenda /\ agenda[1] = <<"resume", e>> /\ agenda \in Seq(Calls)
    <2>1. agenda # <<>>
      BY CallSteps
    <2>2. Head(agenda) \in Calls
      BY <2>1, TailHas DEF Shapes, CallTypes
    <2>3. Head(agenda) = <<"resume", e>>
      BY <2>2 DEF Calls, Callee
    <2> QED
      BY <2>1, <2>3, HeadCall, ChainAssumption DEF CallsBelong, Shapes, CallTypes
  <1>3. \A f, k : Caller(f, k, e) => f = "resume"
    BY DEF Caller, At
  <1>4. /\ el'[e].isRunning = el[e].isRunning
        /\ "STOPPED" \in el'[e].bits => "STOPPED" \in el[e].bits
        /\ "RESUMED" \in el'[e].bits => "RESUMED" \in el[e].bits
        /\ el'[e].state = "INIT" => el[e].state = "INIT"
    BY <1>1, <1>3 DEF Touches, Bits
  <1>5. /\ pc \in [Elements -> Places] /\ todo \in [Elements -> Seq(Writes)]
        /\ cmdq \in [Elements -> Seq(Commands)]
    BY DEF Shapes, TaskTypes
  <1>6. pstate = "INIT" /\ ~StillCalls("waited")
    <2>1. pstate = "INIT" /\ \A k \in DOMAIN agenda : agenda[k][1] \in Starting
      BY <1>2 DEF AgendaParts, Starting
    <2> QED
      BY <2>1 DEF StillCalls, Starting
  <1>7. ~failed' /\ (agenda' = agenda \/ (agenda' = Tail(agenda) /\ at' = 1))
    <2>1. (\E k \in 1 .. 6 : Goto(k)) \/ Return \/ ReturnFail \/ GiveUp \/ GiveUpFail
      BY CallMoves
    <2>2. /\ pstate' = pstate
          /\ agenda' = agenda \/ (agenda' = Tail(agenda) /\ at' = 1)
      BY <2>1 DEF Goto, Return, ReturnFail, GiveUp, GiveUpFail, Leave
    <2> QED
      BY <1>6, <2>2 DEF Good
  <1>8. ~GiveUpFail
    BY <1>7 DEF GiveUpFail, Leave
  <1>9. /\ \A x : Has(agenda', x) => Has(agenda, x)
        /\ StillCalls("waited")' => StillCalls("waited")
    BY <1>2, <1>7, AgendaLeft
  <1>10. ~WaitedFor(e)'
    BY <1>6, <1>9 DEF WaitedFor
  <1>11. ToRun(e)' => ToRun(e)
    BY <1>2, <1>3, <1>9 DEF ToRun
  <1>12. ASSUME at # 3
         PROVE  ToResume(e) /\ ~Caller("resume", 3, e) /\ (pc[e] \notin {"none", "exit"} => ~Resuming(e))
    <2>1. ~Caller("resume", 3, e)
      BY <1>12 DEF Caller, At
    <2>2. ToResume(e)
      BY <1>2, <2>1 DEF ToResume, Has
    <2>3. pc[e] \notin {"none", "exit"} => ~Resuming(e)
      BY <2>1 DEF Progress, Honest
    <2> QED
      BY <2>1, <2>2, <2>3
  <1>13. CASE at = 1
    <2>1. ~Caller("resume", 2, e)
      BY <1>13 DEF Caller, At
    <2>2. pc'[e] = pc[e] /\ todo'[e] = todo[e] /\ cmdq'[e] = cmdq[e]
      BY <1>1, <1>3, <2>1 DEF Sends
    <2>3. ToResume(e) /\ ~Caller("resume", 3, e) /\ (pc[e] \notin {"none", "exit"} => ~Resuming(e))
      BY <1>12, <1>13
    <2> QED
      BY <1>4, <1>10, <1>11, <2>2, <2>3, ProgressKept
  <1>14. CASE at = 2
    <2>1. Caller("resume", 2, e) /\ \A k : Caller("resume", k, e) => k = 2
      BY <1>2, <1>14 DEF Caller, At
    <2>2. Goto(3) /\ cmdq' = [cmdq EXCEPT ![e] = Append(@, "RESUME")] /\ "RESUMED" \notin el'[e].bits
      BY <1>1, <1>3, <1>8, <2>1 DEF Stays
    <2>3. pc'[e] = pc[e] /\ todo'[e] = todo[e]
      BY <1>1, <1>3 DEF Sends
    <2>4. Caller("resume", 3, e)'
      BY <2>1, <2>2, GotoCaller
    <2>5. ~ToResume(e)'
      BY <2>4 DEF ToResume
    <2>6. ToResume(e)
      BY <1>12, <1>14
    <2>7. ToRun(e)' => Fresh(e)'
      BY <1>4, <1>11, <2>3 DEF Progress, Fresh
    <2>8. ASSUME pc[e] \notin {"none", "exit"}
          PROVE  Honest(e)'
      <3>1. Unstarted(e) /\ Honest(e)
        BY <2>6, <2>8 DEF Progress
      <3>2. cmdq'[e] = <<"RESUME">>
        BY <1>2, <1>5, <2>2, <3>1 DEF Unstarted
      <3> QED
        BY <1>4, <2>2, <2>3, <2>4, <3>1, <3>2 DEF Honest, Unstarted
    <2> QED
      BY <1>10, <2>3, <2>5, <2>7, <2>8 DEF Progress
  <1>15. CASE at = 3
    <2>1. Caller("resume", 3, e) /\ \A k : Caller("resume", k, e) => k = 3
      BY <1>2, <1>15 DEF Caller, At
    <2>2. "RESUMED" \in el[e].bits /\ agenda' = Tail(agenda)
      BY <1>1, <1>3, <1>8, <2>1, LeaveCaller DEF Stays
    <2>3. pc'[e] = pc[e] /\ todo'[e] = todo[e] /\ cmdq'[e] = cmdq[e]
      BY <1>1, <1>3, <2>1 DEF Sends
    <2>4. ~Has(agenda', <<"resume", e>>)
      <3> SUFFICES ASSUME Has(agenda', <<"resume", e>>)
                   PROVE  FALSE
        OBVIOUS
      <3>1. PICK k \in DOMAIN Tail(agenda) : Tail(agenda)[k] = <<"resume", e>>
        BY <2>2 DEF Has
      <3>2. k + 1 \in DOMAIN agenda /\ agenda[k + 1] = <<"resume", e>>
        BY <1>2, <3>1, TailHas
      <3>3. k + 1 = 1
        BY <1>2, <3>2 DEF AgendaParts
      <3>4. k \in 1 .. Len(Tail(agenda))
        <4>1. Tail(agenda) \in Seq(Calls)
          BY <1>2, TailHas
        <4> QED
          BY <3>1, <4>1, LenProperties
      <3> QED
        BY <3>3, <3>4, SMT
    <2>5. ~ToResume(e)'
      BY <2>4 DEF ToResume
    <2>6. pc[e] \notin {"none", "exit"} => ~Resuming(e)
      BY <2>2 DEF Progress, Honest
    <2> QED
      BY <1>4, <1>10, <1>11, <2>3, <2>5, <2>6, ProgressKept
  <1> QED
    BY <1>13, <1>14, <1>15, CallSteps

\* Every other element function.
LEMMA ProgressOther ==
  ASSUME Shapes, CallsBelong, AgendaParts, NEW e \in HasTask, Progress(e), ElementCall,
         Callee = e, Head(agenda)[1] \notin {"run", "resume"}, last' = last
  PROVE  Progress(e)'
  <1>1. Touches(e) /\ Sends(e)
    BY CalleeStep
  <1>2. /\ agenda # <<>> /\ Head(agenda)[2] = e /\ last # "init" /\ e \in Elements
        /\ 1 \in DOMAIN agenda /\ agenda[1] = Head(agenda) /\ Head(agenda) \in Calls
    BY CallSteps, HeadCall, TailHas, ChainAssumption DEF Shapes, CallTypes, CallsBelong, Callee
  <1>3. \A f, k : Caller(f, k, e) <=> f = Head(agenda)[1] /\ k = at
    BY <1>2 DEF Caller, At
  <1>4. \A k \in DOMAIN agenda : agenda[k][1] \notin Starting
    <2>1. Head(agenda)[1] \notin Starting
      BY CallSteps DEF Starting
    <2> QED
      BY <1>2, <2>1 DEF AgendaParts
  <1>5. agenda' = agenda \/ (agenda' = Tail(agenda) /\ at' = 1)
    <2>1. (\E k \in 1 .. 6 : Goto(k)) \/ Return \/ ReturnFail \/ GiveUp \/ GiveUpFail
      BY CallMoves
    <2> QED
      BY <2>1 DEF Goto, Return, ReturnFail, GiveUp, GiveUpFail, Leave
  <1>6. /\ \A x : Has(agenda', x) => Has(agenda, x)
        /\ \A x : Has(agenda, x) /\ x # Head(agenda) => Has(agenda', x)
        /\ StillCalls("waited")' => StillCalls("waited")
    BY <1>2, <1>5, AgendaLeft
  <1>7. ~ToRun(e)' /\ ~ToResume(e)'
    <2>1. ~Has(agenda, <<"run", e>>) /\ ~Has(agenda, <<"resume", e>>)
      BY <1>4 DEF Has, Starting
    <2> QED
      BY <1>2, <1>6, <2>1 DEF ToRun, ToResume
  <1>8. ~Caller("resume", 3, e) /\ ~Caller("resume", 2, e) /\ \A k : ~Caller("run", k, e)
    BY <1>3
  <1>9. pc[e] \notin {"none", "exit"} => ~Resuming(e)
    BY <1>8 DEF Progress, Honest
  <1>10. pc'[e] = pc[e] /\ todo'[e] = todo[e]
    BY <1>1, <1>8 DEF Sends
  <1>11. Has(cmdq'[e], "RESUME") => Has(cmdq[e], "RESUME")
    <2>1. cmdq \in [Elements -> Seq(Commands)] /\ cmdq[e] \in Seq(Commands)
      BY <1>2 DEF Shapes, TaskTypes
    <2>2. cmdq'[e] = cmdq[e] \/ \E c \in {"PAUSE", "STOP", "DESTROY"} : cmdq'[e] = Append(cmdq[e], c)
      BY <1>1, <1>2, <1>8, <2>1 DEF Sends
    <2>3. \A c \in {"PAUSE", "STOP", "DESTROY"} : c \in Commands /\ c # "RESUME"
      BY DEF Commands
    <2>4. \A c \in {"PAUSE", "STOP", "DESTROY"} : Has(Append(cmdq[e], c), "RESUME") => Has(cmdq[e], "RESUME")
      BY <2>1, <2>3, AppendNew
    <2> QED
      BY <2>2, <2>4
  <1>12. /\ el'[e].isRunning = el[e].isRunning
         /\ "STOPPED" \in el'[e].bits => "STOPPED" \in el[e].bits \/ ~el[e].isRunning
         /\ "RESUMED" \in el'[e].bits => "RESUMED" \in el[e].bits
    BY <1>1 DEF Touches, Bits
  <1>13. Head(agenda)[1] = "wait" => StillCalls("waited") /\ last # "reset"
    <2> SUFFICES ASSUME Head(agenda)[1] = "wait"
                 PROVE  StillCalls("waited")
      BY DEF AgendaParts
    <2>1. agenda[Len(agenda)][1] = "waited"
      BY <1>2 DEF AgendaParts
    <2>2. Len(agenda) \in DOMAIN agenda
      BY <1>2, HeadCall, SMT
    <2> QED
      BY <2>1, <2>2 DEF StillCalls
  <1>14. ASSUME pc[e] \notin {"none", "exit"}, el'[e].state = "INIT"
         PROVE  el[e].state = "INIT" \/ pc[e] # "busy"
    <2>1. ~Caller("reset_state", 1, e)
      <3>1. \A k : Caller("reset_state", k, e) => last = "reset"
        BY <1>2, <1>3 DEF CallsBelong, Belongs
      <3> QED
        BY <3>1 DEF AgendaParts
    <2>2. CASE Caller("wait", 3, e)
      <3>1. WaitedFor(e)
        BY <1>3, <1>13, <2>2 DEF WaitedFor
      <3> QED
        BY <1>14, <3>1 DEF Progress, Honest
    <2>3. CASE ~Caller("wait", 3, e)
      <3>1. el'[e].state \in {el[e].state, "ERROR", "PAUSED"}
        BY <1>1, <2>1, <2>3 DEF Touches
      <3> QED
        BY <1>14, <3>1
    <2> QED
      BY <2>2, <2>3
  <1>15. ASSUME pc[e] \notin {"none", "exit"}, WaitedFor(e)'
         PROVE  WaitedFor(e) \/ ~el[e].isRunning
    <2>1. CASE Head(agenda)[1] # "wait"
      <3>1. Has(agenda, <<"wait", e>>) => Has(agenda', <<"wait", e>>)
        BY <1>6, <2>1
      <3>2. ~Caller("wait", 3, e)'
        BY <1>5, <2>1 DEF Caller, At
      <3> QED
        BY <1>6, <1>15, <3>1, <3>2 DEF WaitedFor
    <2>2. CASE Head(agenda)[1] = "wait" /\ at = 1 /\ Goto(IF el[Callee].isRunning THEN 2 ELSE 3)
      <3>1. CASE ~el[e].isRunning
        BY <3>1
      <3>2. CASE el[e].isRunning
        <4>1. agenda' = agenda /\ at' = 2
          BY <2>2, <3>2 DEF Goto
        <4>2. ~Caller("wait", 3, e)'
          BY <4>1 DEF Caller, At
        <4>3. Has(agenda', <<"wait", e>>)
          <5>1. Head(agenda) = <<"wait", e>>
            BY <1>2, <2>2 DEF Calls
          <5> QED
            BY <1>2, <4>1, <5>1 DEF Has
        <4> QED
          BY <1>15, <4>2, <4>3 DEF WaitedFor
      <3> QED
        BY <3>1, <3>2
    <2>3. CASE "STOPPED" \in el[Callee].bits
      BY <1>15, <2>3 DEF Progress, Honest
    <2>4. CASE Head(agenda)[1] = "wait" /\ at = 3
      BY <1>3, <1>13, <2>4 DEF WaitedFor
    <2> QED
      BY <2>1, <2>2, <2>3, <2>4, CallSteps
  <1>16. pc[e] \notin {"none", "exit"} =>
           /\ Has(cmdq'[e], "RESUME") => cmdq'[e] = cmdq[e]
           /\ Resuming(e) => Caller("resume", 3, e)'
           /\ WaitedFor(e)' => WaitedFor(e) \/ ~el[e].isRunning
           /\ el'[e].state = "INIT" => el[e].state = "INIT" \/ pc[e] # "busy"
    BY <1>9, <1>11, <1>14, <1>15 DEF Resuming
  <1> QED
    BY <1>7, <1>8, <1>10, <1>12, <1>16, ProgressKept

\* A pipeline operation starts: only the first one may be a run.
LEMMA ProgressOperation ==
  ASSUME RunsOnce, Shapes, CallsBelong', AgendaParts', NEW e \in HasTask, Progress(e), Operation
  PROVE  Progress(e)'
  <1>1. /\ <<last, last'>> \in Follows /\ agenda = <<>> /\ at = 1 /\ at' = 1
        /\ pc' = pc /\ todo' = todo /\ el' = el /\ cmdq' = cmdq /\ pstate' = pstate
    BY OperationAgenda DEF Shapes, CallTypes
  <1>2. last' # "init" /\ e \in Elements
    <2>1. <<last, last'>> \in ({"init"} \cup Operations) \X Operations
      BY <1>1, ChainAssumption
    <2> QED
      BY <2>1, ChainAssumption DEF Operations
  <1>3. CASE last = "init"
    <2>1. Fresh(e)
      BY <1>3 DEF Progress, ToRun
    <2> QED
      BY <1>1, <2>1 DEF Progress, Fresh
  <1>4. CASE last # "init"
    <2>1. last' \notin {"run", "resume"}
      BY <1>1, <1>4 DEF RunsOnce
    <2>2. \A k \in DOMAIN agenda' : agenda'[k][1] \notin {"run", "resume"}
      BY <2>1 DEF CallsBelong, Belongs
    <2>3. ~ToRun(e)' /\ ~ToResume(e)'
      BY <1>2, <2>2 DEF ToRun, ToResume, Has
    <2>4. ~WaitedFor(e)'
      <3> SUFFICES ASSUME WaitedFor(e)'
                   PROVE  FALSE
        OBVIOUS
      <3>1. PICK k \in DOMAIN agenda' : agenda'[k][1] = "waited"
        BY DEF WaitedFor, StillCalls
      <3>2. last' = "wait_for_stop" /\ pstate = "RUNNING"
        BY <1>1, <3>1 DEF CallsBelong, Belongs, AgendaParts
      <3>3. agenda' = Over("wait") \o Self("waited")
        BY <3>2, OperationAgenda
      <3>4. Has(agenda', <<"wait", e>>)
        BY <1>2, <3>3, WaitAgenda
      <3>5. ~Caller("wait", 3, e)'
        BY <1>1 DEF Caller, At
      <3> QED
        BY <3>4, <3>5 DEF WaitedFor
    <2>5. ~Caller("resume", 3, e)
      BY <1>1 DEF Caller, At
    <2>6. pc[e] \notin {"none", "exit"} => ~Resuming(e)
      BY <2>5 DEF Progress, Honest
    <2> QED
      BY <1>1, <2>3, <2>4, <2>6, ProgressKept
  <1> QED
    BY <1>3, <1>4

\* What the pipeline does between the calls.
LEMMA ProgressBetween ==
  ASSUME Shapes, CallsBelong, AgendaParts, NEW e \in HasTask, Progress(e), Between, Good'
  PROVE  Progress(e)'
  <1>1. /\ agenda # <<>> /\ at = 1 /\ at' = 1 /\ last' = last
        /\ pc' = pc /\ todo' = todo /\ el' = el /\ cmdq' = cmdq
    BY DEF Between, At, taskVars
  <1>2. \A f : At(f, 1) => Belongs(f) /\ StillCalls(f)
    BY HeadCall DEF At, CallsBelong, StillCalls
  <1>3. last \notin {"init", "resume"}
    BY <1>1 DEF CallsBelong, AgendaParts
  <1>4. \A f, k : Caller(f, k, e) => k = 1
    BY <1>1 DEF Caller, At
  <1>5. ~Caller("resume", 3, e) /\ (pc[e] \notin {"none", "exit"} => ~Resuming(e))
    <2>1. ~Caller("resume", 3, e)
      BY <1>4, SMT
    <2> QED
      BY <2>1 DEF Progress, Honest
  <1>6. CASE At("ran", 1)
    <2>1. \A k \in DOMAIN agenda' : agenda'[k][1] = "terminate"
      <3>1. Over("terminate") \in Seq({"terminate"} \X Elements) /\ <<>> \in Seq({"terminate"} \X Elements)
        BY OverIn, EmptySeq
      <3>2. agenda' \in Seq({"terminate"} \X Elements)
        BY <1>6, <3>1 DEF Between, At
      <3> QED
        BY <3>2, CallsIn
    <2>2. ~ToRun(e)' /\ ~ToResume(e)' /\ ~WaitedFor(e)'
      BY <1>1, <1>3, <2>1 DEF ToRun, ToResume, WaitedFor, StillCalls, Has
    <2> QED
      BY <1>1, <1>5, <2>2, ProgressKept
  <1>7. CASE At("resumed", 1)
    BY <1>2, <1>3, <1>7 DEF Belongs
  <1>8. CASE At("waited", 1)
    <2>1. pstate' = "INIT" /\ last' = "wait_for_stop"
      BY <1>1, <1>2, <1>8 DEF Between, At, Belongs
    <2> QED
      BY <2>1 DEF Good
  <1>9. CASE At("unlink", 1)
    <2>1. agenda' = Tail(agenda) /\ Head(agenda)[1] = "unlink"
      BY <1>9 DEF Between, At
    <2>2. Head(agenda) # <<"wait", e>>
      BY <2>1
    <2> QED
      BY <1>1, <1>4, <2>1, <2>2, ProgressApart
  <1> QED
    BY <1>6, <1>7, <1>8, <1>9 DEF Between

LEMMA WaitInit == Init => WaitInv
  <1> SUFFICES ASSUME Init
               PROVE  WaitInv
    OBVIOUS
  <1>1. /\ agenda = <<>> /\ last = "init" /\ pstate = "INIT" /\ at = 1
        /\ \A k \in DOMAIN agenda : FALSE
    BY DEF Init
  <1>2. AgendaParts
    BY <1>1 DEF AgendaParts
  <1>3. \A e \in HasTask : Fresh(e)
    BY ChainAssumption DEF Init, Fresh
  <1>4. \A e \in HasTask : Progress(e)
    BY <1>3 DEF Progress, Fresh
  <1> QED
    BY <1>2, <1>4 DEF WaitInv

LEMMA WaitStep ==
  ASSUME RunsOnce
  PROVE  Shapes /\ CallsBelong /\ OpensInv /\ WaitInv /\ [Next]_vars => WaitInv'
  <1> SUFFICES ASSUME Shapes, CallsBelong, OpensInv, WaitInv, [Next]_vars
               PROVE  WaitInv'
    OBVIOUS
  <1>1. AgendaParts /\ AgendaParts'
    BY AgendaPartsStep DEF WaitInv
  <1>2. CallsBelong'
    BY BelongStep
  <1>3. ASSUME Good' \/ last' = "init", NEW e \in HasTask
        PROVE  Progress(e)'
    <2>1. Progress(e) /\ OpensRunning(e) /\ e \in Elements
      <3>1. Good \/ last = "init"
        BY <1>1, <1>3, GoodBack
      <3> QED
        BY <3>1, ChainAssumption DEF WaitInv, OpensInv
    <2>2. CASE Operation
      BY <1>1, <1>2, <2>1, <2>2, ProgressOperation
    <2>3. agenda # <<>> => last # "init"
      BY DEF CallsBelong
    <2>4. CASE ElementCall
      <3>1. agenda # <<>> /\ ((\E k \in 1 .. 6 : Goto(k)) \/ Return \/ ReturnFail \/ GiveUp \/ GiveUpFail)
        BY <2>4, CallStays, CallMoves
      <3>2. last' = last /\ (agenda' = agenda \/ (agenda' = Tail(agenda) /\ at' = 1))
        BY <3>1 DEF Goto, Return, ReturnFail, GiveUp, GiveUpFail, Leave
      <3>3. CASE Callee = e
        <4>1. Good'
          BY <1>3, <2>3, <3>1, <3>2
        <4> QED
          BY <1>1, <2>1, <2>4, <3>2, <3>3, <4>1, ProgressRun, ProgressResume, ProgressOther
      <3>4. CASE Callee # e
        <4>1. \A f, k : ~Caller(f, k, e)
          BY <3>4 DEF Caller
        <4>2. Head(agenda) # <<"wait", e>>
          BY <3>4 DEF Callee
        <4>3. pc'[e] = pc[e] /\ todo'[e] = todo[e] /\ el'[e] = el[e] /\ cmdq'[e] = cmdq[e]
          BY <2>1, <2>4, <3>4, OthersApart
        <4> QED
          BY <2>1, <3>1, <3>2, <3>4, <4>1, <4>2, <4>3, ProgressApart
      <3> QED
        BY <3>3, <3>4
    <2>5. CASE Between
      <3>1. Good'
        BY <1>3, <2>3, <2>5 DEF Between, At
      <3> QED
        BY <1>1, <2>1, <2>5, <3>1, ProgressBetween
    <2>6. CASE Drain \/ Gone \/ UNCHANGED vars
      <3>1. /\ UNCHANGED <<agenda, at, last>>
            /\ pc'[e] = pc[e] /\ todo'[e] = todo[e] /\ el'[e] = el[e] /\ cmdq'[e] = cmdq[e]
        BY <2>6 DEF Drain, Gone, vars, taskVars, callVars
      <3> QED
        BY <2>1, <3>1, ProgressSame
    <2>7. ASSUME NEW d \in HasTask, Task(d) \/ Fail(d)
          PROVE  Progress(e)'
      <3>1. CASE d = e
        BY <2>1, <2>7, <3>1, TaskKinds, ProgressWrite, ProgressMoves
      <3>2. CASE d # e
        BY <2>1, <2>7, <3>2, TaskApart, ProgressSame
      <3> QED
        BY <3>1, <3>2
    <2> QED
      BY <2>2, <2>4, <2>5, <2>6, <2>7 DEF Next
  <1> QED
    BY <1>1, <1>3 DEF WaitInv

LEMMA WaitImplies == Shapes /\ OpensInv /\ WaitInv => StoppedWhenWaited
  <1> SUFFICES ASSUME Shapes, OpensInv, WaitInv, At("waited", 1), NEW e \in HasTask
               PROVE  pc[e] \notin {"open", "reopen", "busy"}
    BY DEF StoppedWhenWaited
  <1>1. 1 \in DOMAIN agenda /\ agenda[1][1] = "waited" /\ DOMAIN agenda = 1 .. Len(agenda)
    BY HeadCall DEF At
  <1>2. pstate = "RUNNING" /\ 1 = Len(agenda)
    BY <1>1 DEF WaitInv, AgendaParts
  <1>3. Progress(e) /\ OpensRunning(e)
    BY <1>2 DEF WaitInv, Good, OpensInv
  <1>4. WaitedFor(e)
    <2>1. \A k \in DOMAIN agenda : k = 1
      <3>1. \A n : 1 = n => \A k \in 1 .. n : k = 1
        BY SMT
      <3> QED
        BY <1>1, <1>2, <3>1, Zenon
    <2>2. ~Has(agenda, <<"wait", e>>)
      BY <1>1, <2>1 DEF Has
    <2> QED
      BY <1>1, <2>2 DEF WaitedFor, StillCalls
  <1>5. ~Caller("resume", 3, e)
    BY DEF Caller, At
  <1>6. pc[e] \notin {"none", "exit"} => ~el[e].isRunning /\ ~Resuming(e) /\ pc[e] # "busy"
    BY <1>3, <1>4, <1>5 DEF Progress, Honest
  <1> QED
    BY <1>3, <1>6 DEF OpensRunning, Resuming

\* When audio_pipeline_wait_for_stop returns every element has stopped: no task is inside open or
\* process.  For every chain, every queue length and every caller that runs the pipeline at most
\* once and neither resumes nor resets it (it may pause it); the waits of two seconds may expire.
\* A caller that runs it again meets the STOPPED of the run before, and then it is false.
THEOREM StoppedWhenWaitedCorrect == ASSUME RunsOnce PROVE Spec => []StoppedWhenWaited
  <1>1. Shapes /\ CallsBelong /\ OpensInv /\ WaitInv /\ [Next]_vars => WaitInv'
    BY WaitStep
  <1> QED
    BY <1>1, ShapesAlways, BelongAlways, OpensAlways, WaitInit, WaitImplies, PTL DEF Spec

-----------------------------------------------------------------------------
\* The inductive invariant behind AnswerComes: each answer the caller waits for is the command it
\* sent, the handler's write of the bit, or the bit.  It holds along with LifeInv, up to the first
\* fault.
OnlyLast(s, x) == \A k \in DOMAIN s : s[k] = x => k = Len(s)
Waits(e) == Caller("wait", 2, e) \/ Caller("wait_ms", 2, e)

\* A running task has its is_running to clear before STOPPED, and one of the two bits to set then.
Halting(e) ==
  /\ el[e].isRunning => pc[e] \in Loop \/ (pc[e] = "exit" /\ Has(todo[e], RunOff))
  /\ Has(todo[e], RunOn) => pc[e] \in Loop /\ ~Has(todo[e], RunOff) /\ ~Has(todo[e], Stopped)
  /\ pc[e] = "busy" => todo[e] = <<>>
  /\ el[e].isRunning /\ Has(todo[e], RunOff) =>
       Has(todo[e], Stopped) \/ (Has(todo[e], Paused) /\ Caller("pause", 3, e))
  /\ el[e].isRunning => After(todo[e], RunOff, Stopped)
  /\ Has(todo[e], Clear("STOPPED")) => ~Has(todo[e], RunOff) /\ ~Has(todo[e], Stopped)
  /\ \A b \in Bits : Has(todo[e], Clear(b)) => b = "STOPPED"
\* At most one PAUSE is under way, the last command or the last write.
Pausing(e) ==
  /\ OnlyLast(cmdq[e], "PAUSE") /\ OnlyLast(todo[e], Paused)
  /\ Has(cmdq[e], "PAUSE") => ~Has(todo[e], Paused)
  /\ Has(cmdq[e], "PAUSE") \/ Has(todo[e], Paused) =>
       Caller("pause", 3, e) /\ "PAUSED" \notin el[e].bits
\* What the caller waits for.
Waiting(e) ==
  /\ (\E k \in 2 .. 3 : Caller("resume", k, e) \/ Caller("pause", k, e)) => pc[e] \in Loop \cup {"init"}
  /\ Caller("pause", 2, e) => "PAUSED" \notin el[e].bits
  /\ Caller("resume", 3, e) =>
       "RESUMED" \in el[e].bits \/ Has(cmdq[e], "RESUME") \/ Has(todo[e], Resumed)
  /\ Caller("pause", 3, e) =>
       "PAUSED" \in el[e].bits \/ Has(cmdq[e], "PAUSE") \/ Has(todo[e], Paused)
  /\ Waits(e) =>
       /\ pc[e] \in Loop
       /\ \/ el[e].isRunning
          \/ /\ "STOPPED" \in el[e].bits \/ Has(todo[e], Stopped)
             /\ ~Has(todo[e], Clear("STOPPED"))
  /\ Caller("run", 2, e) =>
       \/ "CREATED" \in el[e].bits \/ pc[e] = "begin"
       \/ pc[e] = "init" /\ Has(todo[e], Set("CREATED"))
  /\ Caller("terminate", 3, e) => Uses(e) \/ "DESTROYED" \in el[e].bits
Answers(e) == Halting(e) /\ Pausing(e) /\ Waiting(e)
AnswersInv == ~fault => \A e \in HasTask : Answers(e)

LEMMA TailOnlyLast ==
  ASSUME NEW S, NEW s \in Seq(S), s # <<>>, NEW x, OnlyLast(s, x)
  PROVE  OnlyLast(Tail(s), x) /\ (Head(s) = x => Tail(s) = <<>>)
  <1>1. /\ Tail(s) \in Seq(S) /\ Head(s) = s[1] /\ Len(Tail(s)) = Len(s) - 1 /\ Len(s) \in Nat \ {0}
        /\ \A k \in DOMAIN Tail(s) : k + 1 \in DOMAIN s /\ Tail(s)[k] = s[k + 1]
    BY TailHas
  <1>2. DOMAIN s = 1 .. Len(s) /\ DOMAIN Tail(s) = 1 .. Len(s) - 1
    BY <1>1, LenProperties
  <1>3. ASSUME NEW k \in DOMAIN Tail(s), Tail(s)[k] = x
        PROVE  k = Len(Tail(s))
    <2>1. k + 1 = Len(s)
      BY <1>1, <1>3 DEF OnlyLast
    <2> QED
      BY <1>1, <1>2, <1>3, <2>1, SMT
  <1>4. ASSUME Head(s) = x PROVE Tail(s) = <<>>
    <2>1. 1 \in DOMAIN s
      BY <1>1, <1>2, SMT
    <2>2. 1 = Len(s)
      BY <1>1, <1>4, <2>1 DEF OnlyLast
    <2>3. Len(Tail(s)) = 0
      <3>1. \A n : 1 = n => n - 1 = 0
        BY SMT
      <3> QED
        BY <1>1, <2>2, <3>1, Zenon
    <2> QED
      BY <1>1, <2>3, EmptySeq
  <1> QED
    BY <1>3, <1>4 DEF OnlyLast

LEMMA NotLast ==
  ASSUME NEW s, NEW x, ~Has(s, x)
  PROVE  OnlyLast(s, x)
  BY DEF OnlyLast, Has

\* The last of a sequence is not followed by anything.
LEMMA AppendOnlyLast ==
  ASSUME NEW S, NEW s \in Seq(S), NEW y \in S, ~Has(s, y)
  PROVE  OnlyLast(Append(s, y), y)
  <1>1. /\ Len(Append(s, y)) = Len(s) + 1 /\ DOMAIN Append(s, y) = 1 .. Len(s) + 1
        /\ DOMAIN s = 1 .. Len(s) /\ \A k \in DOMAIN s : Append(s, y)[k] = s[k]
        /\ Len(s) \in Nat
    BY AppendHas, LenProperties
  <1>2. ASSUME NEW k \in DOMAIN Append(s, y), Append(s, y)[k] = y
        PROVE  k = Len(Append(s, y))
    <2>1. k \notin DOMAIN s
      BY <1>1, <1>2 DEF Has
    <2> QED
      BY <1>1, <1>2, <2>1, SMT
  <1> QED
    BY <1>2 DEF OnlyLast

\* The element and its task are left alone, and the caller arrives at no wait on it.
LEMMA AnswersKept ==
  ASSUME NEW e, Answers(e),
         pc'[e] = pc[e], todo'[e] = todo[e], el'[e] = el[e], cmdq'[e] = cmdq[e],
         Caller("pause", 3, e) => Caller("pause", 3, e)',
         \A f : \A k \in 2 .. 3 : Caller(f, k, e)' => Caller(f, k, e)
  PROVE  Answers(e)'
  <1>1. 2 \in 2 .. 3 /\ 3 \in 2 .. 3
    BY SMT
  <1>2. Halting(e)'
    BY DEF Answers, Halting
  <1>3. Pausing(e)'
    BY DEF Answers, Pausing
  <1>4. Waiting(e)'
    <2>1. Uses(e)' <=> Uses(e)
      BY DEF Uses
    <2> QED
      BY <1>1, <2>1 DEF Answers, Waiting, Waits
  <1> QED
    BY <1>2, <1>3, <1>4 DEF Answers

LEMMA AnswersWrite ==
  ASSUME Shapes, NEW e \in HasTask, Life(e), Answers(e), Write(e)
  PROVE  Answers(e)'
  <1> DEFINE h == Head(todo[e])
  <1>1. /\ todo[e] \in Seq(Writes) /\ todo[e] # <<>> /\ h \in Writes
        /\ el[e] \in Record /\ el'[e] = Written(el[e], h)
        /\ todo'[e] = Tail(todo[e]) /\ pc'[e] = pc[e] /\ cmdq'[e] = cmdq[e]
        /\ UNCHANGED <<pstate, last, agenda, at, failed, fault>>
    BY WriteStep
  <1>2. /\ \A x : Has(todo[e], x) => Has(todo'[e], x) \/ h = x
        /\ \A x : Has(todo'[e], x) => Has(todo[e], x)
        /\ Has(todo[e], h)
    BY <1>1, TailKeeps
  <1>3. /\ h = RunOn => el'[e].isRunning
        /\ h = RunOff => ~el'[e].isRunning
        /\ h \notin {RunOn, RunOff} => el'[e].isRunning = el[e].isRunning
        /\ \A b \in Bits : b \in el'[e].bits <=> h = Set(b) \/ (b \in el[e].bits /\ h # Clear(b))
    BY <1>1, WrittenFields
  <1>4. \A f, k, d : Caller(f, k, d)' <=> Caller(f, k, d)
    BY <1>1, CallerStays
  <1>5. After(todo[e], RunOff, Stopped) /\ h # RunOff => After(todo'[e], RunOff, Stopped) /\ h # Stopped
    BY <1>1, TailAfter
  <1>6. OnlyLast(todo[e], Paused) => OnlyLast(todo'[e], Paused) /\ (h = Paused => todo'[e] = <<>>)
    BY <1>1, TailOnlyLast
  <1>7. /\ "STOPPED" \in Bits /\ "PAUSED" \in Bits /\ "RESUMED" \in Bits /\ "CREATED" \in Bits
        /\ "DESTROYED" \in Bits
        /\ Stopped = Set("STOPPED") /\ Paused = Set("PAUSED") /\ Resumed = Set("RESUMED")
    BY DEF Bits, Stopped, Paused, Resumed
  <1>8. /\ RunOn # RunOff /\ \A b \in Bits : Set(b) \notin {RunOn, RunOff} /\ Clear(b) \notin {RunOn, RunOff}
        /\ \A b, c \in Bits : Set(b) # Clear(c)
    BY WriteNames
  <1>9. \A x : ~Has(<<>>, x)
    BY LiteralHas
  <1> HIDE DEF h
  <1>10. Halting(e) /\ Pausing(e) /\ Waiting(e)
    BY DEF Answers
  <1>11. \A b \in Bits : b \in el[e].bits /\ b # "STOPPED" => b \in el'[e].bits
    BY <1>2, <1>3, <1>10 DEF Halting
  <1>12. Halting(e)'
    <2>1. el'[e].isRunning => pc'[e] \in Loop \/ (pc'[e] = "exit" /\ Has(todo'[e], RunOff))
      BY <1>1, <1>2, <1>3, <1>10 DEF Halting
    <2>2. el'[e].isRunning /\ Has(todo'[e], RunOff) =>
            Has(todo'[e], Stopped) \/ (Has(todo'[e], Paused) /\ Caller("pause", 3, e)')
      <3> SUFFICES ASSUME el'[e].isRunning, Has(todo'[e], RunOff)
                   PROVE  Has(todo'[e], Stopped) \/ (Has(todo'[e], Paused) /\ Caller("pause", 3, e)')
        OBVIOUS
      <3>1. h # RunOn /\ h # RunOff
        BY <1>2, <1>3, <1>10 DEF Halting
      <3>2. el[e].isRunning /\ Has(todo[e], RunOff)
        BY <1>2, <1>3, <3>1
      <3>3. h # Stopped
        BY <1>5, <1>10, <3>1, <3>2 DEF Halting
      <3>4. h # Paused
        BY <1>6, <1>9, <1>10 DEF Pausing
      <3> QED
        BY <1>2, <1>4, <1>10, <3>2, <3>3, <3>4 DEF Halting
    <2>3. el'[e].isRunning => After(todo'[e], RunOff, Stopped)
      <3>1. CASE h = RunOn
        <4>1. ~Has(todo'[e], Stopped)
          BY <1>2, <1>10, <3>1 DEF Halting
        <4> QED
          BY <4>1, NothingAfter
      <3>2. CASE h # RunOn
        BY <1>3, <1>5, <1>10, <3>2 DEF Halting
      <3> QED
        BY <3>1, <3>2
    <2> QED
      BY <1>1, <1>2, <1>10, <2>1, <2>2, <2>3 DEF Halting
  <1>13. Pausing(e)'
    <2>1. Has(cmdq'[e], "PAUSE") => ~Has(todo'[e], Paused) /\ h # Paused
      BY <1>1, <1>2, <1>10 DEF Pausing
    <2>2. Has(todo'[e], Paused) => h # Paused
      BY <1>6, <1>9, <1>10 DEF Pausing
    <2>3. Has(cmdq'[e], "PAUSE") \/ Has(todo'[e], Paused) =>
            Caller("pause", 3, e)' /\ "PAUSED" \notin el'[e].bits
      BY <1>1, <1>2, <1>3, <1>4, <1>7, <1>10, <2>1, <2>2 DEF Pausing
    <2> QED
      BY <1>1, <1>6, <1>10, <2>1, <2>3 DEF Pausing
  <1>14. Waiting(e)'
    <2>1. Caller("pause", 2, e) => "PAUSED" \notin el'[e].bits
      <3>1. Caller("pause", 2, e) => h # Paused
        BY <1>2, <1>10, CallerUnique DEF Pausing
      <3> QED
        BY <1>3, <1>7, <1>10, <3>1 DEF Waiting
    <2>2. Caller("resume", 3, e) =>
            "RESUMED" \in el'[e].bits \/ Has(cmdq'[e], "RESUME") \/ Has(todo'[e], Resumed)
      BY <1>1, <1>2, <1>3, <1>7, <1>10, <1>11 DEF Waiting
    <2>3. Caller("pause", 3, e) =>
            "PAUSED" \in el'[e].bits \/ Has(cmdq'[e], "PAUSE") \/ Has(todo'[e], Paused)
      BY <1>1, <1>2, <1>3, <1>7, <1>10, <1>11 DEF Waiting
    <2>4. ASSUME Waits(e)
          PROVE  /\ pc'[e] \in Loop
                 /\ \/ el'[e].isRunning
                    \/ /\ "STOPPED" \in el'[e].bits \/ Has(todo'[e], Stopped)
                       /\ ~Has(todo'[e], Clear("STOPPED"))
      <3>1. pc'[e] \in Loop
        BY <1>1, <1>10, <2>4 DEF Waiting
      <3>2. CASE el[e].isRunning /\ h # RunOff
        BY <1>3, <3>1, <3>2
      <3>3. CASE el[e].isRunning /\ h = RunOff
        <4>1. ~Caller("pause", 3, e)
          BY <2>4, CallerUnique DEF Waits
        <4>2. Has(todo[e], Stopped)
          BY <1>2, <1>10, <3>3, <4>1 DEF Halting
        <4>3. ~Has(todo[e], Clear("STOPPED"))
          BY <1>2, <1>10, <3>3 DEF Halting
        <4>4. Has(todo'[e], Stopped)
          BY <1>2, <1>7, <1>8, <3>3, <4>2
        <4> QED
          BY <1>2, <3>1, <4>3, <4>4
      <3>4. CASE ~el[e].isRunning
        <4>1. /\ "STOPPED" \in el[e].bits \/ Has(todo[e], Stopped)
              /\ ~Has(todo[e], Clear("STOPPED"))
          BY <1>10, <2>4, <3>4 DEF Waiting
        <4>2. h # Clear("STOPPED") /\ ~Has(todo'[e], Clear("STOPPED"))
          BY <1>2, <4>1
        <4> QED
          BY <1>2, <1>3, <1>7, <3>1, <4>1, <4>2
      <3> QED
        BY <3>2, <3>3, <3>4
    <2>5. Caller("run", 2, e) =>
            \/ "CREATED" \in el'[e].bits \/ pc'[e] = "begin"
            \/ pc'[e] = "init" /\ Has(todo'[e], Set("CREATED"))
      BY <1>1, <1>2, <1>3, <1>7, <1>10, <1>11 DEF Waiting
    <2>6. Caller("terminate", 3, e) => Uses(e)' \/ "DESTROYED" \in el'[e].bits
      <3>1. Uses(e)
        <4>1. pc[e] # "none"
          BY <1>1 DEF Life, Still
        <4> QED
          BY <1>1, <4>1 DEF Uses
      <3>2. ASSUME ~Uses(e)'
            PROVE  "DESTROYED" \in el'[e].bits
        <4>1. pc[e] = "exit" /\ Tail(todo[e]) = <<>>
          BY <1>1, <3>1, <3>2 DEF Uses
        <4>2. 1 \in DOMAIN todo[e] /\ Len(todo[e]) = 1 /\ h = todo[e][1]
          <5>1. Len(Tail(todo[e])) = Len(todo[e]) - 1 /\ Len(todo[e]) \in Nat \ {0} /\ h = todo[e][1]
            BY <1>1, TailHas DEF h
          <5>2. Len(Tail(todo[e])) = 0
            <6>1. Len(<<>>) = 0
              OBVIOUS
            <6> QED
              BY <4>1, <6>1, Zenon
          <5>3. DOMAIN todo[e] = 1 .. Len(todo[e])
            BY <1>1, LenProperties
          <5> QED
            BY <5>1, <5>2, <5>3, SMT
        <4>3. h = Set("DESTROYED")
          BY <1>1, <4>1, <4>2 DEF Life, Leaves
        <4> QED
          BY <1>3, <1>7, <4>3
      <3> QED
        BY <3>2
    <2> QED
      BY <1>1, <1>4, <1>10, <2>1, <2>2, <2>3, <2>4, <2>5, <2>6 DEF Waiting, Waits
  <1> QED
    BY <1>12, <1>13, <1>14 DEF Answers

\* A handler of the task's loop: what it may write, and what it must.
Handler(e, ws) ==
  /\ Has(ws, RunOn) => ~Has(ws, RunOff) /\ ~Has(ws, Stopped)
  /\ Has(ws, RunOff) =>
       \/ Has(ws, Stopped)
       \/ Has(ws, Paused) /\ Has(cmdq[e], "PAUSE")
  /\ After(ws, RunOff, Stopped)
  /\ Has(ws, Clear("STOPPED")) => el[e].isRunning /\ ~Has(ws, RunOff) /\ ~Has(ws, Stopped)
  /\ \A b \in Bits : Has(ws, Clear(b)) => b = "STOPPED"
  /\ OnlyLast(ws, Paused)
  /\ Has(ws, Paused) => Taken(e, "PAUSE")
  /\ \/ cmdq' = cmdq
     \/ Taken(e, "RESUME") /\ Has(ws, Resumed)
     \/ Taken(e, "PAUSE") /\ Has(ws, Paused)
     \/ Taken(e, "STOP")

LEMMA LoopHandlers ==
  ASSUME Shapes, NEW e \in HasTask, OpensRunning(e), todo[e] = <<>>,
         Passes(e) \/ Halted(e) \/ PausesNow(e) \/ Resumes(e) \/ Opens(e)
  PROVE  /\ pc[e] \in Loop
         /\ \E p \in Loop, ws \in Seq(Writes) :
              pc'[e] = p /\ todo'[e] = ws /\ (p = "busy" => ws = <<>>) /\ Handler(e, ws)
  <1>1. e \in Elements /\ pc \in [Elements -> Places] /\ todo \in [Elements -> Seq(Writes)]
        /\ cmdq[e] \in Seq(Commands) /\ cmdq \in [Elements -> Seq(Commands)]
    BY ChainAssumption DEF Shapes, TaskTypes
  <1>2. Loop = {"wait", "blocked", "open", "reopen", "process", "busy"}
    BY PlaceNames
  <1>3. \A p, ws : Then(e, p, ws) => pc'[e] = p /\ todo'[e] = ws
    BY <1>1 DEF Then
  <1>4. /\ "STOPPED" \in Bits /\ "PAUSED" \in Bits /\ "RESUMED" \in Bits
        /\ Stopped = Set("STOPPED") /\ Paused = Set("PAUSED") /\ Resumed = Set("RESUMED")
    BY DEF Bits, Stopped, Paused, Resumed
  <1>5. \A S : <<>> \in Seq(S)
    BY EmptySeq
  <1>6. CASE Passes(e)
    <2>1. PICK p \in {"wait", "blocked", "process", "busy"} : Then(e, p, <<>>)
      BY <1>6 DEF Passes
    <2>2. cmdq' = cmdq /\ pc[e] \in Loop /\ \A x : ~Has(<<>>, x)
      BY <1>6, LiteralHas DEF Passes
    <2>3. Handler(e, <<>>)
      BY <2>2, NothingAfter, NotLast DEF Handler
    <2> QED
      BY <1>2, <1>3, <1>5, <2>1, <2>2, <2>3
  <1>7. CASE Halted(e)
    <2>1. PICK p \in {"wait", "process"}, ws \in Seq(Plain) : Then(e, p, ws) /\ Halts(el[e], ws)
      BY <1>7 DEF Halted
    <2>2. /\ ~Has(ws, RunOn) /\ ~Has(ws, Paused) /\ After(ws, RunOff, Stopped)
          /\ Has(ws, RunOff) => Has(ws, Stopped)
          /\ \A b \in Bits : ~Has(ws, Clear(b))
      BY <2>1, HaltNames DEF Halts
    <2>3. pc[e] \in Loop /\ (cmdq' = cmdq \/ Taken(e, "STOP"))
      BY <1>2, <1>7 DEF Halted
    <2>4. Handler(e, ws)
      BY <1>4, <2>2, <2>3, NotLast DEF Handler
    <2>5. todo'[e] = ws /\ pc'[e] = p
      BY <1>3, <2>1
    <2>6. ws \in Seq(Writes)
      <3>1. Plain \subseteq Writes
        BY DEF Writes
      <3> QED
        BY <2>1, <3>1, SMT
    <2> QED
      BY <1>2, <2>1, <2>3, <2>4, <2>5, <2>6
  <1>8. CASE PausesNow(e)
    <2>1. Taken(e, "PAUSE") /\ Then(e, "process", OnPause) /\ pc[e] \in Loop
      BY <1>2, <1>8 DEF PausesNow
    <2>2. /\ ~Has(OnPause, Stopped) /\ ~Has(OnPause, RunOn) /\ Has(OnPause, Paused)
          /\ \A b \in Bits : ~Has(OnPause, Clear(b))
          /\ OnlyLast(OnPause, Paused)
      BY OnPauseHas DEF PauseWrites, OnlyLast
    <2>3. Has(cmdq[e], "PAUSE")
      BY <1>1, <2>1, TailKeeps DEF Taken
    <2>4. Handler(e, OnPause)
      BY <1>4, <2>1, <2>2, <2>3, NothingAfter DEF Handler
    <2>5. OnPause \in Seq(Writes)
      <3>1. OnPause \in Seq(Plain) /\ Plain \subseteq Writes
        BY OtherHandlersPlain DEF Writes
      <3> QED
        BY <3>1, SMT
    <2> QED
      BY <1>2, <1>3, <2>1, <2>4, <2>5
  <1>9. CASE Resumes(e)
    <2>1. PICK p \in {"process", "open", "reopen"} : Then(e, p, OnResume(el[e]))
      BY <1>9 DEF Resumes
    <2> DEFINE ws == OnResume(el[e])
    <2>2. pc[e] \in Loop /\ (cmdq' = cmdq \/ Taken(e, "RESUME")) /\ pc'[e] = p /\ todo'[e] = ws
      BY <1>2, <1>3, <1>9, <2>1 DEF Resumes
    <2>3. /\ ~Has(ws, Stopped) /\ ~Has(ws, RunOff) /\ ~Has(ws, Paused) /\ Has(ws, Resumed)
          /\ \A b \in Bits : ~Has(ws, Clear(b))
      BY OnResumeHas
    <2>4. ws \in Seq(Writes)
      <3>1. ws \in Seq(Plain) /\ Plain \subseteq Writes
        BY OtherHandlersPlain DEF Writes
      <3> HIDE DEF ws
      <3> QED
        BY <3>1, SMT
    <2> HIDE DEF ws
    <2>5. Handler(e, ws)
      BY <1>4, <2>2, <2>3, NothingAfter, NotLast DEF Handler
    <2> QED
      BY <1>2, <2>1, <2>2, <2>4, <2>5
  <1>10. CASE Opens(e)
    <2>1. PICK p \in {"wait", "process"} : Then(e, p, Opened)
      BY <1>10 DEF Opens
    <2>2. el[e].isRunning
      <3>1. ~Has(todo[e], RunOn)
        BY LiteralHas
      <3> QED
        BY <1>10, <3>1 DEF OpensRunning, Opens
    <2>3. /\ ~Has(Opened, RunOn) /\ ~Has(Opened, RunOff) /\ ~Has(Opened, Stopped) /\ ~Has(Opened, Paused)
          /\ \A b \in Bits : Has(Opened, Clear(b)) => b = "STOPPED"
      <3>1. \A b \in Bits : Has(Opened, Clear(b)) => b = "STOPPED"
        <4> SUFFICES ASSUME NEW b \in Bits, Has(Opened, Clear(b))
                     PROVE  b = "STOPPED"
          OBVIOUS
        <4>1. Clear(b) \in {State("RUNNING"), ZeroWait, Clear("STOPPED")}
          BY OpenedHas
        <4>2. Clear(b)[1] = "clear" /\ Clear(b)[2] = b /\ Clear("STOPPED")[2] = "STOPPED"
          BY <1>4, WriteNames
        <4>3. State("RUNNING")[1] = "state" /\ ZeroWait[1] = "wait"
          BY WriteNames
        <4> QED
          BY <4>1, <4>2, <4>3
      <3> QED
        BY <1>4, <3>1, OpenedHas
    <2>4. cmdq' = cmdq /\ pc[e] \in Loop
      BY <1>2, <1>10 DEF Opens
    <2>5. Handler(e, Opened)
      BY <1>4, <2>2, <2>3, <2>4, NothingAfter, NotLast DEF Handler
    <2>6. Opened \in Seq(Writes)
      <3>1. Opened \in Seq(Plain) /\ Plain \subseteq Writes
        BY OtherHandlersPlain DEF Writes
      <3> QED
        BY <3>1, SMT
    <2> QED
      BY <1>2, <1>3, <2>1, <2>4, <2>5, <2>6
  <1> QED
    BY <1>6, <1>7, <1>8, <1>9, <1>10

LEMMA AnswersMoves ==
  ASSUME Shapes, NEW e \in HasTask, OpensRunning(e), Life(e), Answers(e), Moves(e), ~fault'
  PROVE  Answers(e)'
  <1>1. /\ todo[e] = <<>> /\ el'[e] = el[e] /\ \A x : ~Has(todo[e], x)
        /\ UNCHANGED <<pstate, last, agenda, at, failed>>
    BY LiteralHas DEF Moves
  <1>2. e \in Elements /\ pc \in [Elements -> Places] /\ todo \in [Elements -> Seq(Writes)]
        /\ cmdq[e] \in Seq(Commands) /\ cmdq \in [Elements -> Seq(Commands)]
    BY ChainAssumption DEF Shapes, TaskTypes
  <1>3. \A p, ws : Then(e, p, ws) => pc'[e] = p /\ todo'[e] = ws
    BY <1>2 DEF Then
  <1>4. \A c : Taken(e, c) => cmdq[e] # <<>> /\ Head(cmdq[e]) = c /\ cmdq'[e] = Tail(cmdq[e])
    BY <1>2 DEF Taken
  <1>5. \A f, k, d : Caller(f, k, d)' <=> Caller(f, k, d)
    BY <1>1, CallerStays
  <1>6. Loop = {"wait", "blocked", "open", "reopen", "process", "busy"}
    BY PlaceNames
  <1>7. Halting(e) /\ Pausing(e) /\ Waiting(e)
    BY DEF Answers
  <1>8. /\ \A x : Has(cmdq'[e], x) => Has(cmdq[e], x)
        /\ \A x : Has(cmdq[e], x) => Has(cmdq'[e], x) \/ Taken(e, x)
        /\ OnlyLast(cmdq'[e], "PAUSE")
        /\ Taken(e, "PAUSE") => ~Has(cmdq'[e], "PAUSE")
    <2>1. cmdq' = cmdq \/ \E c : Taken(e, c)
      BY DEF Moves, Passes, Halted, PausesNow, Resumes, Opens, Begins, Allocates, GivesUp, Goes, Ends
    <2>2. CASE cmdq' = cmdq
      <3>1. ~Taken(e, "PAUSE")
        <4> SUFFICES ASSUME Taken(e, "PAUSE")
                     PROVE  FALSE
          OBVIOUS
        <4>1. cmdq[e] # <<>> /\ cmdq[e] = Tail(cmdq[e])
          BY <1>4, <2>2
        <4>2. Len(Tail(cmdq[e])) = Len(cmdq[e]) - 1 /\ Len(cmdq[e]) \in Nat \ {0}
          BY <1>2, <4>1, TailHas
        <4>3. \A n \in Nat \ {0} : n # n - 1
          BY SMT
        <4> QED
          BY <4>1, <4>2, <4>3
      <3> QED
        BY <1>7, <2>2, <3>1 DEF Pausing
    <2>3. CASE \E c : Taken(e, c)
      <3>1. PICK c : Taken(e, c)
        BY <2>3
      <3>2. cmdq[e] # <<>> /\ Head(cmdq[e]) = c /\ cmdq'[e] = Tail(cmdq[e])
        BY <1>4, <3>1
      <3>3. OnlyLast(cmdq'[e], "PAUSE") /\ (c = "PAUSE" => cmdq'[e] = <<>>)
        BY <1>2, <1>7, <3>2, TailOnlyLast DEF Pausing
      <3>4. /\ \A x : Has(cmdq[e], x) => Has(cmdq'[e], x) \/ c = x
            /\ \A x : Has(cmdq'[e], x) => Has(cmdq[e], x)
        BY <1>2, <3>2, TailKeeps
      <3>5. Taken(e, "PAUSE") => ~Has(cmdq'[e], "PAUSE")
        <4> SUFFICES ASSUME Taken(e, "PAUSE")
                     PROVE  ~Has(cmdq'[e], "PAUSE")
          OBVIOUS
        <4>1. Head(cmdq[e]) = "PAUSE"
          BY <1>4
        <4>2. cmdq'[e] = <<>>
          BY <3>2, <3>3, <4>1
        <4>3. \A x : ~Has(<<>>, x)
          BY LiteralHas
        <4> QED
          BY <4>2, <4>3, Zenon
      <3> QED
        BY <3>1, <3>3, <3>4, <3>5
    <2> QED
      BY <2>1, <2>2, <2>3
  <1>9. Uses(e)' <=> pc'[e] # "none" /\ ~(pc'[e] = "exit" /\ todo'[e] = <<>>)
    BY DEF Uses
  \* Its loop.
  <1>10. CASE Passes(e) \/ Halted(e) \/ PausesNow(e) \/ Resumes(e) \/ Opens(e)
    <2>1. /\ pc[e] \in Loop
          /\ \E p \in Loop, ws \in Seq(Writes) :
               pc'[e] = p /\ todo'[e] = ws /\ (p = "busy" => ws = <<>>) /\ Handler(e, ws)
      BY <1>1, <1>10, LoopHandlers
    <2>2. PICK p \in Loop, ws \in Seq(Writes) :
            pc'[e] = p /\ todo'[e] = ws /\ (p = "busy" => ws = <<>>) /\ Handler(e, ws)
      BY <2>1
    <2>3. Has(ws, Paused) => Has(cmdq[e], "PAUSE") /\ ~Has(cmdq'[e], "PAUSE")
      <3>1. Taken(e, "PAUSE") => Has(cmdq[e], "PAUSE")
        BY <1>2, TailKeeps DEF Taken
      <3> QED
        BY <1>8, <2>2, <3>1 DEF Handler
    <2>4. Halting(e)'
      BY <1>1, <1>5, <1>7, <2>2 DEF Halting, Handler, Pausing
    <2>5. Pausing(e)'
      BY <1>1, <1>5, <1>7, <1>8, <2>2, <2>3 DEF Pausing, Handler
    <2>6. \A x \in {"RESUME", "PAUSE"} : Taken(e, x) =>
            (x = "RESUME" => Has(ws, Resumed)) /\ (x = "PAUSE" => Has(ws, Paused))
      <3>1. ASSUME NEW x \in {"RESUME", "PAUSE"}, Taken(e, x), cmdq' = cmdq
            PROVE  FALSE
        <4>1. cmdq[e] # <<>> /\ cmdq[e] = Tail(cmdq[e])
          BY <1>4, <3>1
        <4>2. Len(Tail(cmdq[e])) = Len(cmdq[e]) - 1 /\ Len(cmdq[e]) \in Nat \ {0}
          BY <1>2, <4>1, TailHas
        <4>3. \A n \in Nat \ {0} : n # n - 1
          BY SMT
        <4> QED
          BY <4>1, <4>2, <4>3
      <3>2. \A x, y : Taken(e, x) /\ Taken(e, y) => x = y
        BY DEF Taken
      <3>3. "STOP" # "RESUME" /\ "STOP" # "PAUSE" /\ "RESUME" # "PAUSE"
        OBVIOUS
      <3> QED
        BY <2>2, <3>1, <3>2, <3>3, Zenon DEF Handler
    <2>7. Waits(e) =>
            \/ el'[e].isRunning
            \/ "STOPPED" \in el'[e].bits /\ ~Has(todo'[e], Clear("STOPPED"))
      BY <1>1, <1>7, <2>2 DEF Waiting, Handler
    <2>8. Caller("resume", 3, e) =>
            "RESUMED" \in el'[e].bits \/ Has(cmdq'[e], "RESUME") \/ Has(todo'[e], Resumed)
      BY <1>1, <1>7, <1>8, <2>2, <2>6 DEF Waiting
    <2>9. Caller("pause", 3, e) =>
            "PAUSED" \in el'[e].bits \/ Has(cmdq'[e], "PAUSE") \/ Has(todo'[e], Paused)
      BY <1>1, <1>7, <1>8, <2>2, <2>6 DEF Waiting
    <2>10. Caller("run", 2, e) => "CREATED" \in el'[e].bits
      BY <1>1, <1>6, <1>7, <2>1 DEF Waiting
    <2>11. Uses(e)'
      BY <1>6, <1>9, <2>2
    <2>12. Waiting(e)'
      BY <1>1, <1>5, <1>7, <2>2, <2>7, <2>8, <2>9, <2>10, <2>11 DEF Waiting, Waits
    <2> QED
      BY <2>4, <2>5, <2>12 DEF Answers
  \* Its beginning.
  <1>11. CASE Begins(e)
    <2>1. PICK ws : /\ ws = << <<"taskRun", TRUE>>, Set("CREATED"), <<"state", "INIT">>, <<"wait", "max">> >>
                    /\ Then(e, "init", ws) /\ cmdq' = cmdq
      BY <1>11, Zenon DEF Begins
    <2>2. pc[e] = "begin" /\ pc'[e] = "init" /\ todo'[e] = ws
      BY <1>3, <1>11, <2>1 DEF Begins
    <2>3. /\ Has(ws, Set("CREATED"))
          /\ \A x \in {RunOn, RunOff, Stopped, Paused} : ~Has(ws, x)
          /\ \A b \in Bits : ~Has(ws, Clear(b))
      <3>1. /\ \A x : Has(ws, x) <=> x \in {<<"taskRun", TRUE>>, Set("CREATED"), State("INIT"), MaxWait}
            /\ \A x : Has(ws, x) =>
                 /\ x \notin {ZeroWait, RunOn, RunOff}
                 /\ \A b \in Bits : x # Clear(b) /\ (x = Set(b) => b = "CREATED")
        BY <2>1, FirstHas
      <3>2. "STOPPED" \in Bits /\ "PAUSED" \in Bits
        BY DEF Bits
      <3> QED
        BY <3>1, <3>2 DEF Stopped, Paused
    <2>4. Caller("run", 2, e)
      BY <2>2 DEF Life, Starts
    <2>5. \A f, k : Caller(f, k, e) => f = "run"
      BY <2>4, CallerUnique
    <2>6. ~el[e].isRunning
      BY <1>6, <1>7, <2>2 DEF Halting
    <2>7. ~Has(cmdq'[e], "PAUSE")
      BY <1>7, <2>1, <2>5 DEF Pausing
    <2>8. "STOPPED" \in Bits
      BY DEF Bits
    <2>9. Halting(e)'
      BY <1>1, <2>2, <2>3, <2>6, <2>8 DEF Halting
    <2>10. Pausing(e)'
      BY <2>2, <2>3, <2>7, NotLast DEF Pausing
    <2>11. Waiting(e)'
      BY <1>5, <1>9, <2>2, <2>3, <2>5 DEF Waiting, Waits
    <2> QED
      BY <2>9, <2>10, <2>11 DEF Answers
  <1>12. CASE Allocates(e)
    <2> DEFINE ws == << Clear("STOPPED") >>
    <2>1. pc[e] = "init" /\ pc'[e] = "wait" /\ todo'[e] = ws /\ cmdq' = cmdq
      BY <1>3, <1>12 DEF Allocates
    <2>2. /\ \A x \in {RunOn, RunOff, Stopped, Paused} : ~Has(ws, x)
          /\ \A b \in Bits : Has(ws, Clear(b)) => b = "STOPPED"
      <3>1. "STOPPED" \in Bits /\ "PAUSED" \in Bits
        BY DEF Bits
      <3>2. \A b \in Bits : Clear(b)[2] = b
        BY WriteNames
      <3> QED
        BY <3>1, <3>2, ClearHas DEF Stopped, Paused
    <2> HIDE DEF ws
    <2>3. ~el[e].isRunning /\ ~Waits(e)
      BY <1>6, <1>7, <2>1 DEF Halting, Waiting
    <2>4. Halting(e)'
      BY <1>1, <2>1, <2>2, <2>3 DEF Halting
    <2>5. Pausing(e)'
      BY <1>1, <1>5, <1>7, <2>1, <2>2, NotLast DEF Pausing
    <2>6. Waiting(e)'
      BY <1>1, <1>5, <1>6, <1>7, <1>9, <2>1, <2>3 DEF Waiting, Waits
    <2> QED
      BY <2>4, <2>5, <2>6 DEF Answers
  \* Its end.
  <1>13. CASE GivesUp(e)
    BY <1>13 DEF GivesUp
  <1>14. CASE Goes(e)
    <2> DEFINE ws == <<RunOff, Stopped>> \o OnExit(el[e])
    <2>1. pc'[e] = "exit" /\ todo'[e] = ws /\ Taken(e, "DESTROY")
      BY <1>3, <1>14 DEF Goes
    <2>2. /\ \A x : Has(ws, x) => x \in ExitWrites
          /\ Has(ws, RunOff) /\ Has(ws, Stopped) /\ After(ws, RunOff, Stopped)
      BY ExitHas
    <2> HIDE DEF ws
    <2>3. ~Has(ws, RunOn) /\ ~Has(ws, Paused) /\ \A b \in Bits : ~Has(ws, Clear(b))
      BY <2>2, ExitNames
    <2>4. Caller("terminate", 3, e)
      <3>1. Has(cmdq[e], "DESTROY")
        BY <1>2, <1>4, <2>1, TailKeeps
      <3> QED
        BY <3>1 DEF Life, Destroys, Has
    <2>5. \A f, k : Caller(f, k, e) => f = "terminate"
      BY <2>4, CallerUnique
    <2>6. ~Has(cmdq'[e], "PAUSE")
      BY <1>7, <1>8, <2>5 DEF Pausing
    <2>7. Uses(e)'
      <3>1. todo'[e] # <<>>
        BY <2>1, <2>2, LiteralHas
      <3> QED
        BY <1>9, <2>1, <3>1
    <2>8. "STOPPED" \in Bits
      BY DEF Bits
    <2>9. Halting(e)'
      BY <1>1, <2>1, <2>2, <2>3, <2>8 DEF Halting
    <2>10. Pausing(e)'
      BY <2>1, <2>3, <2>6, NotLast DEF Pausing
    <2>11. Waiting(e)'
      BY <1>5, <2>5, <2>7 DEF Waiting, Waits
    <2> QED
      BY <2>9, <2>10, <2>11 DEF Answers
  <1>15. CASE Ends(e)
    <2>1. pc[e] = "exit" /\ pc'[e] = "none" /\ todo'[e] = <<>> /\ cmdq' = cmdq
      BY <1>3, <1>15 DEF Ends
    <2>2. ~el[e].isRunning /\ ~Waits(e)
          /\ \A k \in 2 .. 3 : ~Caller("resume", k, e) /\ ~Caller("pause", k, e)
      BY <1>1, <1>6, <1>7, <2>1 DEF Halting, Waiting
    <2>3. 2 \in 2 .. 3 /\ 3 \in 2 .. 3
      BY SMT
    <2>4. ~Uses(e)
      BY <1>1, <2>1 DEF Uses
    <2>5. Halting(e)'
      BY <1>1, <2>1, <2>2 DEF Halting
    <2>6. Pausing(e)'
      BY <1>1, <1>5, <1>7, <2>1 DEF Pausing
    <2>7. Waiting(e)'
      BY <1>1, <1>5, <1>7, <2>1, <2>2, <2>3, <2>4 DEF Waiting, Waits
    <2> QED
      BY <2>5, <2>6, <2>7 DEF Answers
  <1> QED
    BY <1>10, <1>11, <1>12, <1>13, <1>14, <1>15 DEF Moves

-----------------------------------------------------------------------------
\* The calls: how the caller gets to the second and third step of one.
Arrives(f, k, e) ==
  \/ f = "stop"
  \/ f = "run" /\ k = 2 /\ pc'[e] = "begin"
  \/ f = "resume" /\ k = 2 /\ el[e].taskRun
  \/ f = "resume" /\ k = 3 /\ Caller("resume", 2, e) /\ cmdq' = [cmdq EXCEPT ![e] = Append(@, "RESUME")]
  \/ f = "pause" /\ k = 2 /\ el[e].taskRun /\ "PAUSED" \notin el'[e].bits
  \/ f = "pause" /\ k = 3 /\ Caller("pause", 2, e) /\ cmdq' = [cmdq EXCEPT ![e] = Append(@, "PAUSE")]
  \/ f = "wait" /\ k = 2 /\ el[e].isRunning
  \/ f = "wait" /\ k = 3
  \/ f = "wait_ms" /\ k = 2 /\ el[e].isRunning
  \/ f = "terminate" /\ k = 2
  \/ f = "terminate" /\ k = 3 /\ Caller("terminate", 2, e)

LEMMA Arrivals ==
  ASSUME NEW e, Stays(e), NEW f, NEW k \in 2 .. 3, Caller(f, k, e)'
  PROVE  Arrives(f, k, e)
  <1>1. k # 1 /\ at' = k
    BY SMT DEF Caller, At
  <1>2. ~(Return \/ ReturnFail \/ GiveUp \/ GiveUpFail)
    BY <1>1, LeaveCaller
  <1>3. \A g, i, j : Caller(g, i, e) /\ Goto(j) => f = g /\ k = j
    BY GotoCaller
  <1> QED
    BY <1>2, <1>3 DEF Stays, Arrives

\* No pause is under way when the caller takes a step that is no fault.
LEMMA NoPauseUnderWay ==
  ASSUME NEW e, Stays(e), Pausing(e), ~fault'
  PROVE  ~Has(cmdq[e], "PAUSE") /\ ~Has(todo[e], Paused)
  <1> SUFFICES ASSUME Caller("pause", 3, e), "PAUSED" \notin el[e].bits
               PROVE  FALSE
    BY DEF Pausing
  <1>1. ~GiveUp /\ ~GiveUpFail
    BY LeaveCaller
  <1>2. \A f, k : Caller(f, k, e) => f = "pause" /\ k = 3
    BY CallerUnique
  <1> QED
    BY <1>1, <1>2 DEF Stays

LEMMA CommandsSent ==
  ASSUME Shapes, NEW e \in Elements, Sends(e), ~Has(cmdq[e], "PAUSE")
  PROVE  /\ Has(cmdq'[e], "PAUSE") =>
              Caller("pause", 2, e) /\ Goto(3) /\ cmdq'[e] = Append(cmdq[e], "PAUSE")
         /\ OnlyLast(cmdq'[e], "PAUSE")
         /\ \A c \in {"RESUME", "PAUSE"} :
              cmdq' = [cmdq EXCEPT ![e] = Append(@, c)] => Has(cmdq'[e], c)
  <1>1. cmdq[e] \in Seq(Commands) /\ \A s : [cmdq EXCEPT ![e] = s][e] = s
    BY DEF Shapes, TaskTypes
  <1>2. \A c : cmdq' = [cmdq EXCEPT ![e] = Append(@, c)] => cmdq'[e] = Append(cmdq[e], c)
    BY <1>1
  <1>3. \A c \in Commands : /\ \A x : Has(Append(cmdq[e], c), x) => Has(cmdq[e], x) \/ x = c
                            /\ Has(Append(cmdq[e], c), c)
    BY <1>1, AppendNew
  <1>4. /\ "RESUME" \in Commands /\ "PAUSE" \in Commands /\ "STOP" \in Commands /\ "DESTROY" \in Commands
        /\ "RESUME" # "PAUSE" /\ "STOP" # "PAUSE" /\ "DESTROY" # "PAUSE"
    BY DEF Commands
  <1>5. ~Has(<<>>, "PAUSE")
    BY LiteralHas
  <1>6. OnlyLast(Append(cmdq[e], "PAUSE"), "PAUSE")
    BY <1>1, <1>4, AppendOnlyLast
  <1>7. \/ cmdq'[e] = cmdq[e] \/ cmdq'[e] = <<>>
        \/ \E c \in {"RESUME", "STOP", "DESTROY"} : cmdq'[e] = Append(cmdq[e], c)
        \/ Caller("pause", 2, e) /\ Goto(3) /\ cmdq'[e] = Append(cmdq[e], "PAUSE")
    BY <1>1, <1>2 DEF Sends
  <1>8. Has(cmdq'[e], "PAUSE") =>
          Caller("pause", 2, e) /\ Goto(3) /\ cmdq'[e] = Append(cmdq[e], "PAUSE")
    BY <1>3, <1>4, <1>5, <1>7
  <1>9. OnlyLast(cmdq'[e], "PAUSE")
    BY <1>6, <1>8, NotLast
  <1>10. \A c \in {"RESUME", "PAUSE"} :
           cmdq' = [cmdq EXCEPT ![e] = Append(@, c)] => Has(cmdq'[e], c)
    BY <1>2, <1>3, <1>4
  <1> QED
    BY <1>8, <1>9, <1>10

LEMMA AnswersCall ==
  ASSUME Shapes, NEW e \in HasTask, ElementCall, Callee = e, Life(e), Answers(e), ~fault'
  PROVE  Answers(e)'
  <1>1. Touches(e) /\ Sends(e) /\ Stays(e)
    BY CalleeStep
  <1>2. e \in Elements /\ pc[e] \in Places /\ cmdq[e] \in Seq(Commands)
    BY ChainAssumption DEF Shapes, TaskTypes
  <1>3. Halting(e) /\ Pausing(e) /\ Waiting(e)
    BY DEF Answers
  <1>4. ~Has(cmdq[e], "PAUSE") /\ ~Has(todo[e], Paused)
    BY <1>1, <1>3, NoPauseUnderWay
  <1>5. /\ Has(cmdq'[e], "PAUSE") => Caller("pause", 2, e) /\ Goto(3) /\ cmdq'[e] = Append(cmdq[e], "PAUSE")
        /\ OnlyLast(cmdq'[e], "PAUSE")
        /\ \A c \in {"RESUME", "PAUSE"} : cmdq' = [cmdq EXCEPT ![e] = Append(@, c)] => Has(cmdq'[e], c)
    BY <1>1, <1>2, <1>4, CommandsSent
  <1>6. Places = {"none", "begin", "init", "exit"} \cup Loop
        /\ Loop = {"wait", "blocked", "open", "reopen", "process", "busy"}
    BY DEF Places, Loop
  <1>7. el'[e].isRunning = el[e].isRunning
    BY <1>1 DEF Touches
  <1>8. 2 \in 2 .. 3 /\ 3 \in 2 .. 3
    BY SMT
  <1>9. \A f : \A k \in 2 .. 3 : Caller(f, k, e)' => Arrives(f, k, e)
    BY <1>1, Arrivals
  \* The task is there unless audio_element_terminate has its answer.
  <1>10. ~Caller("terminate", 3, e) /\ Uses(e) => pc[e] # "exit"
    BY DEF Life, Leaves, Uses
  <1>11. ~Caller("run", 2, e) /\ ~Caller("terminate", 3, e) /\ el[e].taskRun => pc[e] \in Loop \cup {"init"}
    <2>1. el[e].taskRun => Uses(e) /\ pc[e] # "begin"
      BY DEF Life, Still, Uses
    <2> QED
      BY <1>2, <1>6, <1>10, <2>1 DEF Uses
  <1>12. ~Caller("terminate", 3, e) /\ el[e].isRunning => pc[e] \in Loop
    <2>1. pc[e] = "exit" /\ Has(todo[e], RunOff) => Uses(e)
      BY LiteralHas DEF Uses
    <2> QED
      BY <1>3, <1>10, <2>1 DEF Halting
  \* A new task.
  <1>13. CASE Then(e, "begin", <<>>) /\ Goto(2) /\ Caller("run", 1, e) /\ ~Uses(e)
               /\ cmdq' = [cmdq EXCEPT ![e] = <<>>]
    <2>1. pc'[e] = "begin" /\ todo'[e] = <<>> /\ cmdq'[e] = <<>>
      BY <1>2, <1>13 DEF Then, Shapes, TaskTypes
    <2>2. ~Has(todo'[e], RunOn) /\ ~Has(todo'[e], RunOff) /\ ~Has(todo'[e], Paused)
          /\ ~Has(cmdq'[e], "PAUSE") /\ \A x : ~Has(todo'[e], x)
      <3>1. \A x : ~Has(<<>>, x)
        BY LiteralHas
      <3> QED
        BY <2>1, <3>1, Zenon
    <2>3. \A f, k : Caller(f, k, e)' => f = "run" /\ k = 2
      BY <1>13, GotoCaller
    <2>4. ~el[e].isRunning
      <3>1. ~Has(<<>>, RunOff)
        BY LiteralHas
      <3> QED
        BY <1>3, <1>6, <1>13, <3>1 DEF Halting, Uses
    <2>5. Halting(e)'
      BY <1>7, <2>1, <2>2, <2>4 DEF Halting
    <2>6. Pausing(e)'
      BY <2>2, NotLast DEF Pausing
    <2>7. Waiting(e)'
      BY <2>1, <2>3 DEF Waiting, Waits
    <2> QED
      BY <2>5, <2>6, <2>7 DEF Answers
  <1>14. CASE UNCHANGED <<pc, todo>>
    <2>1. pc'[e] = pc[e] /\ todo'[e] = todo[e]
      BY <1>14
    <2>2. Halting(e)'
      BY <1>3, <1>4, <1>7, <2>1 DEF Halting
    <2>3. Pausing(e)'
      <3>1. ASSUME Has(cmdq'[e], "PAUSE")
            PROVE  Caller("pause", 3, e)' /\ "PAUSED" \notin el'[e].bits
        <4>1. Caller("pause", 2, e) /\ Goto(3)
          BY <1>5, <3>1
        <4>2. Caller("pause", 3, e)'
          BY <4>1, GotoCaller
        <4>3. "PAUSED" \notin el[e].bits
          BY <1>3, <4>1 DEF Waiting
        <4>4. "PAUSED" \in Bits
          BY DEF Bits
        <4> QED
          BY <1>1, <4>2, <4>3, <4>4 DEF Touches
      <3> QED
        BY <1>4, <1>5, <2>1, <3>1, NotLast DEF Pausing
    <2>4. ASSUME NEW k \in 2 .. 3, Caller("resume", k, e)' \/ Caller("pause", k, e)'
          PROVE  pc'[e] \in Loop \cup {"init"}
      <3>1. \/ el[e].taskRun /\ ~Caller("run", 2, e) /\ ~Caller("terminate", 3, e)
            \/ Caller("resume", 2, e) \/ Caller("pause", 2, e)
        <4>1. Arrives("resume", k, e) \/ Arrives("pause", k, e)
          BY <1>9, <2>4
        <4>2. at' = k /\ Callee' = e /\ (At("resume", k)' \/ At("pause", k)')
          BY <2>4 DEF Caller, At
        <4>3. ~Caller("run", 2, e) /\ ~Caller("terminate", 3, e)
          <5>1. \A f, i, j : Caller(f, i, e) /\ Goto(j) => f \in {"resume", "pause"}
            BY <2>4, GotoCaller
          <5>2. ~(Return \/ ReturnFail \/ GiveUp \/ GiveUpFail)
            <6>1. k # 1
              BY SMT
            <6> QED
              BY <4>2, <6>1, LeaveCaller
          <5>3. \E f, i, j : Caller(f, i, e) /\ Goto(j)
            BY <1>1, <5>2 DEF Stays
          <5> QED
            BY <5>1, <5>3, CallerUnique
        <4> QED
          BY <4>1, <4>3 DEF Arrives
      <3> QED
        BY <1>3, <1>8, <1>11, <2>1, <3>1 DEF Waiting
    <2>5. Caller("pause", 2, e)' => "PAUSED" \notin el'[e].bits
      BY <1>8, <1>9 DEF Arrives
    <2>6. /\ Caller("resume", 3, e)' => Has(cmdq'[e], "RESUME")
          /\ Caller("pause", 3, e)' => Has(cmdq'[e], "PAUSE")
      <3>1. Arrives("resume", 3, e) => cmdq' = [cmdq EXCEPT ![e] = Append(@, "RESUME")]
        BY DEF Arrives
      <3>2. Arrives("pause", 3, e) => cmdq' = [cmdq EXCEPT ![e] = Append(@, "PAUSE")]
        BY DEF Arrives
      <3> QED
        BY <1>5, <1>8, <1>9, <3>1, <3>2
    <2>7. Waits(e)' => pc'[e] \in Loop /\ el'[e].isRunning
      <3>1. Waits(e)' => el[e].isRunning
        BY <1>8, <1>9 DEF Waits, Arrives
      <3>2. Waits(e)' => ~Caller("terminate", 3, e)
        <4> SUFFICES ASSUME Waits(e)', Caller("terminate", 3, e) PROVE FALSE
          OBVIOUS
        <4>1. \A f, i : Caller(f, i, e) => f = "terminate" /\ i = 3
          BY CallerUnique
        <4>2. Return \/ ReturnFail \/ GiveUp \/ GiveUpFail
          BY <1>1, <4>1 DEF Stays
        <4>3. at' = 2
          BY DEF Waits, Caller, At
        <4> QED
          BY <4>2, <4>3, LeaveCaller
      <3> QED
        BY <1>7, <1>12, <2>1, <3>1, <3>2
    <2>8. ~Caller("run", 2, e)'
      <3> SUFFICES ASSUME Caller("run", 2, e)' PROVE FALSE
        OBVIOUS
      <3>1. at' = 2
        BY DEF Caller, At
      <3>2. ~(Return \/ ReturnFail \/ GiveUp \/ GiveUpFail)
        BY <3>1, LeaveCaller
      <3>3. \A f, i, j : Caller(f, i, e) /\ Goto(j) => f = "run"
        BY GotoCaller
      <3>4. Caller("run", 1, e) /\ Goto(2) /\ pc'[e] = "begin"
        BY <1>1, <3>2, <3>3 DEF Stays
      <3>5. ~Caller("run", 2, e)
        BY <3>4, CallerUnique
      <3> QED
        BY <2>1, <3>4, <3>5 DEF Life, Starts
    <2>9. Caller("terminate", 3, e)' => Uses(e)'
      <3> SUFFICES ASSUME Caller("terminate", 3, e)' PROVE Uses(e)'
        OBVIOUS
      <3>1. Caller("terminate", 2, e)
        BY <1>8, <1>9 DEF Arrives
      <3>2. el[e].taskRun
        BY <3>1 DEF Life, Trusts
      <3>3. Uses(e)
        BY <3>2 DEF Life, Still, Uses
      <3> QED
        BY <2>1, <3>3 DEF Uses
    <2>10. Waiting(e)'
      BY <2>4, <2>5, <2>6, <2>7, <2>8, <2>9 DEF Waiting
    <2> QED
      BY <2>2, <2>3, <2>10 DEF Answers
  <1> QED
    BY <1>1, <1>13, <1>14 DEF Sends

\* What is no step of e's task and no call of e.
LEMMA AnswersElsewhere ==
  ASSUME Shapes, NEW e \in HasTask, Answers(e),
         (ElementCall /\ Callee # e) \/ Operation \/ Between \/ Drain \/ Gone \/ UNCHANGED vars
  PROVE  Answers(e)'
  <1>1. e \in Elements
    BY ChainAssumption
  <1>2. pc'[e] = pc[e] /\ todo'[e] = todo[e] /\ el'[e] = el[e] /\ cmdq'[e] = cmdq[e]
    <2>1. CASE (ElementCall /\ Callee # e) \/ Operation \/ Between \/ Drain
      BY <1>1, <2>1, OthersApart
    <2>2. CASE Gone \/ UNCHANGED vars
      BY <2>2 DEF Gone, vars, taskVars
    <2> QED
      BY <2>1, <2>2
  <1>3. CASE UNCHANGED <<agenda, at>>
    <2>1. \A f, k : Caller(f, k, e)' <=> Caller(f, k, e)
      BY <1>3, CallerStays
    <2> QED
      BY <1>2, <2>1, AnswersKept
  <1>4. CASE ElementCall /\ Callee # e
    <2>1. ~Caller("pause", 3, e)
      BY <1>4 DEF Caller
    <2>2. ASSUME NEW f, NEW k \in 2 .. 3, Caller(f, k, e)'
          PROVE  FALSE
      <3>1. k # 1 /\ at' = k /\ Callee' = e
        BY <2>2, SMT DEF Caller, At
      <3>2. \E j \in 1 .. 6 : Goto(j)
        BY <1>4, <3>1, CallMoves, LeaveCaller
      <3>3. Callee' = Callee
        BY <3>2 DEF Goto, Callee
      <3> QED
        BY <1>4, <3>1, <3>3
    <2> QED
      BY <1>2, <2>1, <2>2, AnswersKept
  <1>5. CASE Operation \/ Between
    <2>1. at = 1 /\ at' = 1
      <3>1. Operation => at = 1 /\ at' = 1
        BY OperationAgenda DEF Shapes, CallTypes
      <3>2. Between => at = 1 /\ at' = 1
        BY DEF Between, At
      <3> QED
        BY <1>5, <3>1, <3>2
    <2>2. 3 # 1 /\ \A k \in 2 .. 3 : k # 1
      BY SMT
    <2>3. ~Caller("pause", 3, e) /\ \A f : \A k \in 2 .. 3 : ~Caller(f, k, e)'
      BY <2>1, <2>2 DEF Caller, At
    <2> QED
      BY <1>2, <2>3, AnswersKept
  <1>6. CASE Drain \/ Gone \/ UNCHANGED vars
    <2>1. UNCHANGED <<agenda, at>>
      BY <1>6 DEF Drain, Gone, vars, callVars
    <2> QED
      BY <1>3, <2>1
  <1> QED
    BY <1>4, <1>5, <1>6

LEMMA AnswersInit == Init => AnswersInv
  <1> SUFFICES ASSUME Init, NEW e \in HasTask
               PROVE  Answers(e)
    BY DEF AnswersInv
  <1>1. \A x : ~Has(<<>>, x)
    BY LiteralHas
  <1>2. /\ ~el[e].isRunning /\ pc[e] = "none" /\ todo[e] = <<>> /\ cmdq[e] = <<>>
        /\ agenda = <<>>
    BY ChainAssumption DEF Init
  <1>3. \A f, k : ~Caller(f, k, e)
    BY <1>2 DEF Caller, At
  <1>4. (\A x : ~Has(todo[e], x)) /\ ~Has(cmdq[e], "PAUSE")
    BY <1>1, <1>2, Zenon
  <1>5. Halting(e)
    BY <1>2, <1>4 DEF Halting
  <1>6. Pausing(e)
    BY <1>4, NotLast DEF Pausing
  <1>7. Waiting(e)
    BY <1>3 DEF Waiting, Waits
  <1> QED
    BY <1>5, <1>6, <1>7 DEF Answers

LEMMA AnswersStep == Shapes /\ LifeInv /\ OpensInv /\ AnswersInv /\ [Next]_vars => AnswersInv'
  <1> SUFFICES ASSUME Shapes, LifeInv, OpensInv, AnswersInv, [Next]_vars, ~fault', NEW e \in HasTask
               PROVE  Answers(e)'
    BY DEF AnswersInv
  <1>1. ~fault
    BY FaultStays DEF Shapes, CallTypes
  <1>2. Life(e) /\ OpensRunning(e) /\ Answers(e)
    BY <1>1 DEF LifeInv, OpensInv, AnswersInv
  <1>3. CASE ElementCall /\ Callee = e
    BY <1>2, <1>3, AnswersCall
  <1>4. CASE (ElementCall /\ Callee # e) \/ Operation \/ Between \/ Drain \/ Gone \/ UNCHANGED vars
    BY <1>2, <1>4, AnswersElsewhere
  <1>5. ASSUME NEW d \in HasTask, Task(d) \/ Fail(d)
        PROVE  Answers(e)'
    <2>1. CASE d = e
      BY <1>2, <1>5, <2>1, TaskKinds, AnswersWrite, AnswersMoves
    <2>2. CASE d # e
      <3>1. /\ pc'[e] = pc[e] /\ todo'[e] = todo[e] /\ el'[e] = el[e] /\ cmdq'[e] = cmdq[e]
            /\ UNCHANGED <<agenda, at>>
        BY <1>5, <2>2, TaskApart
      <3>2. \A f, k : Caller(f, k, e)' <=> Caller(f, k, e)
        BY <3>1, CallerStays
      <3> QED
        BY <1>2, <3>1, <3>2, AnswersKept
    <2> QED
      BY <2>1, <2>2
  <1> QED
    BY <1>3, <1>4, <1>5 DEF Next

LEMMA AnswersImplies == Shapes /\ LifeInv /\ AnswersInv => AnswerComes
  <1> SUFFICES ASSUME Shapes, LifeInv, AnswersInv, ~fault, NEW e \in HasTask
               PROVE  LET inLoop == pc[e] \notin {"none", "begin", "init", "exit"} IN
                      /\ WaitsIn("run", 2, e, "CREATED") =>
                           pc[e] = "begin" \/ (pc[e] = "init" /\ Pending(e, Set("CREATED")))
                      /\ WaitsIn("resume", 3, e, "RESUMED") =>
                           (inLoop \/ pc[e] = "init") /\ (Queued(e, "RESUME") \/ Pending(e, Set("RESUMED")))
                      /\ WaitsIn("pause", 3, e, "PAUSED") =>
                           (inLoop \/ pc[e] = "init") /\ (Queued(e, "PAUSE") \/ Pending(e, Set("PAUSED")))
                      /\ WaitsIn("wait", 2, e, "STOPPED") \/ WaitsIn("wait_ms", 2, e, "STOPPED") =>
                           inLoop /\ (el[e].isRunning \/ Pending(e, Set("STOPPED")))
                      /\ WaitsIn("terminate", 3, e, "DESTROYED") =>
                           \/ (inLoop \/ pc[e] = "init") /\ Queued(e, "DESTROY")
                           \/ pc[e] = "exit" /\ Pending(e, Set("DESTROYED"))
    BY DEF AnswerComes
  <1> DEFINE inLoop == pc[e] \notin {"none", "begin", "init", "exit"}
  <1>1. Life(e) /\ Waiting(e)
    BY DEF LifeInv, AnswersInv, Answers
  <1>2. \A f, k, b : WaitsIn(f, k, e, b) => Caller(f, k, e) /\ b \notin el[e].bits
    BY DEF WaitsIn, Caller
  <1>3. /\ \A c : Has(cmdq[e], c) => Queued(e, c)
        /\ \A w : Has(todo[e], w) => Pending(e, w)
    BY DEF Has, Queued, Pending
  <1>4. pc[e] \in Loop => inLoop
    BY DEF Loop
  <1>5. 2 \in 2 .. 3 /\ 3 \in 2 .. 3
    BY SMT
  <1>6. e \in Elements /\ pc[e] \in Places /\ todo[e] \in Seq(Writes)
    BY ChainAssumption DEF Shapes, TaskTypes
  <1>7. WaitsIn("run", 2, e, "CREATED") =>
          pc[e] = "begin" \/ (pc[e] = "init" /\ Pending(e, Set("CREATED")))
    BY <1>1, <1>2, <1>3 DEF Waiting
  <1>8. WaitsIn("resume", 3, e, "RESUMED") =>
          (inLoop \/ pc[e] = "init") /\ (Queued(e, "RESUME") \/ Pending(e, Set("RESUMED")))
    <2>1. Caller("resume", 3, e) => pc[e] \in Loop \cup {"init"}
      BY <1>1, <1>5 DEF Waiting
    <2> QED
      BY <1>1, <1>2, <1>3, <1>4, <2>1 DEF Waiting, Resumed
  <1>9. WaitsIn("pause", 3, e, "PAUSED") =>
          (inLoop \/ pc[e] = "init") /\ (Queued(e, "PAUSE") \/ Pending(e, Set("PAUSED")))
    <2>1. Caller("pause", 3, e) => pc[e] \in Loop \cup {"init"}
      BY <1>1, <1>5 DEF Waiting
    <2> QED
      BY <1>1, <1>2, <1>3, <1>4, <2>1 DEF Waiting, Paused
  <1>10. WaitsIn("wait", 2, e, "STOPPED") \/ WaitsIn("wait_ms", 2, e, "STOPPED") =>
           inLoop /\ (el[e].isRunning \/ Pending(e, Set("STOPPED")))
    BY <1>1, <1>2, <1>3, <1>4 DEF Waiting, Waits, Stopped
  <1>11. WaitsIn("terminate", 3, e, "DESTROYED") =>
           \/ (inLoop \/ pc[e] = "init") /\ Queued(e, "DESTROY")
           \/ pc[e] = "exit" /\ Pending(e, Set("DESTROYED"))
    <2> SUFFICES ASSUME WaitsIn("terminate", 3, e, "DESTROYED")
                 PROVE  \/ (inLoop \/ pc[e] = "init") /\ Queued(e, "DESTROY")
                        \/ pc[e] = "exit" /\ Pending(e, Set("DESTROYED"))
      OBVIOUS
    <2>1. Uses(e) /\ (pc[e] = "exit" \/ Has(cmdq[e], "DESTROY"))
      BY <1>1, <1>2 DEF Waiting, Life, Destroys
    <2>2. CASE pc[e] = "exit"
      <3>1. todo[e] # <<>>
        BY <2>1, <2>2 DEF Uses
      <3>2. Len(todo[e]) \in DOMAIN todo[e]
        BY <1>6, <3>1, SMT
      <3>3. todo[e][Len(todo[e])] = Set("DESTROYED")
        BY <1>1, <2>2, <3>1, <3>2 DEF Life, Leaves
      <3> QED
        BY <2>2, <3>2, <3>3 DEF Pending
    <2>3. CASE pc[e] # "exit"
      <3>1. Has(cmdq[e], "DESTROY") /\ pc[e] \notin {"none", "begin", "exit"}
        BY <1>1, <2>1, <2>3 DEF Life, Destroys, Has
      <3> QED
        BY <1>3, <3>1
    <2> QED
      BY <2>2, <2>3
  <1> QED
    BY <1>7, <1>8, <1>9, <1>10, <1>11

\* A caller that waits for an event bit of an element waits for something under way: until a
\* command is refused, an allocation fails or a wait expires, the task is alive and still has the
\* command to take or the bit to set.  Only that keeps xEventGroupWaitBits from its 2 s, and
\* audio_pipeline_wait_for_stop, which has no limit, from waiting for ever: a task that leaves
\* between the caller's look at task_run and its command answers nothing.  For every chain, every
\* queue length and every caller, also one that runs, pauses or stops the pipeline again.
THEOREM AnswerComesCorrect == Spec => []AnswerComes
  BY ShapesAlways, LifeAlways, OpensAlways, AnswersInit, AnswersStep, AnswersImplies, PTL DEF Spec
=============================================================================
