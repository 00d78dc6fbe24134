----------------------- MODULE AudioPipeline_proofs -----------------------
(***************************************************************************)
(* Proofs about AudioPipeline, for any chain of elements and any order in  *)
(* which its caller uses the operations.  LifeInv ties the life of each    *)
(* element's task to what the caller is doing, EndInv the elements and     *)
(* ring buffers that are freed to the calls still to be made.  Both hold   *)
(* up to the first fault.                                                  *)
(***************************************************************************)
EXTENDS AudioPipeline, SequenceTheorems, TLAPS

-----------------------------------------------------------------------------
\* The writes of the handlers: those that matter to the life of the task, and the others.
StopDone == <<"stopping", FALSE>>
Birth == {<<"taskRun", TRUE>>, Set("CREATED")}
Ordinary ==
  ({"set", "clear"} \X {"STOPPED", "PAUSED", "RESUMED"})
  \cup ({"rings"} \X {"reset", "done", "abort"})
  \cup ({"isOpen", "isRunning"} \X BOOLEAN)
  \cup ({"state"} \X States) \cup ({"wait"} \X {"zero", "max"})
Plain == Ordinary \cup {StopDone}
Writes == Plain \cup Birth \cup {<<"taskRun", FALSE>>, Set("DESTROYED")}

Has(s, x) == \E k \in DOMAIN s : s[k] = x

Record == [state : States, isOpen : BOOLEAN, isRunning : BOOLEAN,
           taskRun : BOOLEAN, stopping : BOOLEAN,
           wait : {"zero", "max"}, bits : SUBSET Bits]
Ring == [n : 0 .. RingCap, done : BOOLEAN, abort : BOOLEAN, there : BOOLEAN]

Functions == {"run", "resume", "pause", "stop", "wait", "wait_ms", "terminate", "free",
              "reset_rings", "reset_state", "ran", "resumed", "waited", "unlink"}
Calls == Functions \X Elements

Loop == {"wait", "blocked", "open", "reopen", "process", "busy"}

\* TypeOK, and the sequences of writes and calls.
Places == {"none", "begin", "init", "exit"} \cup Loop
TaskTypes ==
  /\ el \in [Elements -> Record]
  /\ cmdq \in [Elements -> Seq(Commands)]
  /\ \A e \in Elements : Len(cmdq[e]) <= QueueLen
  /\ pc \in [Elements -> Places]
  /\ todo \in [Elements -> Seq(Writes)]
CallTypes ==
  /\ pstate \in {"INIT", "RUNNING", "ERROR"}
  /\ last \in {"init"} \cup Operations
  /\ failed \in BOOLEAN /\ fault \in BOOLEAN
  /\ agenda \in Seq(Calls)
  /\ at \in Nat
  /\ agenda = <<>> => at = 1
Shapes ==
  /\ TaskTypes
  /\ ring \in [1 .. Last - 1 -> Ring]
  /\ live \subseteq Elements
  /\ CallTypes

\* The caller is at step k of function f on element e.
Caller(f, k, e) == At(f, k) /\ Callee = e

\* The states in which the task has nothing to write yet, or no longer.
Still(e) ==
  /\ pc[e] \in {"none", "begin"} => todo[e] = <<>>
  /\ pc[e] \in {"none", "begin"} \/ (pc[e] = "exit" /\ todo[e] = <<>>)
       => ~el[e].taskRun /\ ~el[e].stopping

\* A task that has not said it runs is waited for by audio_element_run.
Starts(e) ==
  /\ pc[e] = "begin" \/ (pc[e] = "init" /\ ~el[e].taskRun)
       => Caller("run", 2, e) /\ "CREATED" \notin el[e].bits
  /\ pc[e] = "init" =>
       /\ \A k \in DOMAIN todo[e] : todo[e][k] \in Plain \cup Birth
       /\ ~el[e].taskRun => todo[e] # <<>> /\ Head(todo[e]) = <<"taskRun", TRUE>>

\* A task in its loop runs, and its handlers say nothing of that.
Works(e) ==
  pc[e] \in Loop =>
    /\ el[e].taskRun
    /\ \A k \in DOMAIN todo[e] : todo[e][k] \in Plain

\* A task on its way out is waited for by audio_element_terminate, until its last write.
Leaves(e) ==
  pc[e] = "exit" /\ todo[e] # <<>> =>
    /\ Caller("terminate", 3, e) /\ "DESTROYED" \notin el[e].bits
    /\ \A k \in DOMAIN todo[e] :
         /\ todo[e][k] \notin Birth
         /\ todo[e][k] = Set("DESTROYED") <=> k = Len(todo[e])
    /\ el[e].taskRun => Has(todo[e], <<"taskRun", FALSE>>)
    /\ el[e].stopping => Has(todo[e], StopDone)

\* The same for the command that makes it leave, the last one it gets.
Destroys(e) ==
  /\ \A k \in DOMAIN cmdq[e] : cmdq[e][k] = "DESTROY" =>
       /\ k = Len(cmdq[e])
       /\ Caller("terminate", 3, e) /\ "DESTROYED" \notin el[e].bits
       /\ pc[e] \notin {"none", "begin", "exit"}
  /\ Caller("terminate", 3, e) /\ Uses(e) => pc[e] = "exit" \/ Has(cmdq[e], "DESTROY")

\* Where the caller has seen task_run and goes on as if it still held.
Trusts(e) ==
  (\E k \in 2 .. 6 : Caller("stop", k, e)) \/ Caller("terminate", 2, e) => el[e].taskRun

\* StopUnderWay for one element.
Stops(e) ==
  el[e].stopping =>
    Has(cmdq[e], "STOP") \/ Caller("stop", 6, e) \/ Has(todo[e], StopDone)

Life(e) == Still(e) /\ Starts(e) /\ Works(e) /\ Leaves(e) /\ Destroys(e) /\ Trusts(e) /\ Stops(e)

LifeInv == ~fault => \A e \in HasTask : Life(e)

-----------------------------------------------------------------------------
Ending == live # Elements \/ \E k \in DOMAIN agenda : agenda[k][1] = "free"

\* e's task is gone, or is terminated before the k-th call of the agenda.
DoneBefore(e, k) == ~Uses(e) \/ \E j \in 1 .. k - 1 : agenda[j] = <<"terminate", e>>

EndParts ==
  /\ Ending => \A k \in DOMAIN agenda : agenda[k][1] \notin {"run", "ran"}
  /\ \A e \in HasTask : \A k \in DOMAIN agenda : agenda[k] = <<"free", e>> => DoneBefore(e, k)
  /\ \A k \in DOMAIN agenda : agenda[k][1] = "unlink" =>
       /\ \A e \in HasTask : DoneBefore(e, k)
       /\ \E j \in DOMAIN agenda : j > k /\ agenda[j][1] = "free"
  /\ (\E i \in DOMAIN ring : ~ring[i].there) => Ending /\ \A e \in HasTask : ~Uses(e)
  /\ \A e \in HasTask : e \notin live => ~Uses(e)

EndInv == ~fault => EndParts

-----------------------------------------------------------------------------
\* What a write does to the fields the invariants look at.
LEMMA WrittenPlain ==
  ASSUME NEW r \in Record, NEW w \in Ordinary
  PROVE  /\ Written(r, w) \in Record
         /\ Written(r, w).taskRun = r.taskRun
         /\ Written(r, w).stopping = r.stopping
         /\ "CREATED" \in Written(r, w).bits <=> "CREATED" \in r.bits
         /\ "DESTROYED" \in Written(r, w).bits <=> "DESTROYED" \in r.bits
  <1>1. CASE w \in {"set"} \X {"STOPPED", "PAUSED", "RESUMED"}
    <2>1. PICK b \in {"STOPPED", "PAUSED", "RESUMED"} : w = <<"set", b>>
      BY <1>1
    <2>2. Written(r, w) = [r EXCEPT !.bits = @ \cup {b}]
      BY <2>1 DEF Written
    <2> QED
      BY <2>1, <2>2, SMT DEF Record, Bits
  <1>2. CASE w \in {"clear"} \X {"STOPPED", "PAUSED", "RESUMED"}
    <2>1. PICK b \in {"STOPPED", "PAUSED", "RESUMED"} : w = <<"clear", b>>
      BY <1>2
    <2>2. Written(r, w) = [r EXCEPT !.bits = @ \ {b}]
      BY <2>1 DEF Written
    <2> QED
      BY <2>1, <2>2, SMT DEF Record, Bits
  <1>3. CASE w \in {"rings"} \X {"reset", "done", "abort"}
    BY <1>3, Zenon DEF Written
  <1>4. CASE w \in {"isOpen"} \X BOOLEAN
    <2>1. PICK v \in BOOLEAN : w = <<"isOpen", v>>
      BY <1>4
    <2>2. Written(r, w) = [r EXCEPT !.isOpen = v]
      BY <2>1 DEF Written
    <2> QED
      BY <2>2, SMT DEF Record
  <1>5. CASE w \in {"isRunning"} \X BOOLEAN
    <2>1. PICK v \in BOOLEAN : w = <<"isRunning", v>>
      BY <1>5
    <2>2. Written(r, w) = [r EXCEPT !.isRunning = v]
      BY <2>1 DEF Written
    <2> QED
      BY <2>2, SMT DEF Record
  <1>6. CASE w \in {"state"} \X States
    <2>1. PICK v \in States : w = <<"state", v>>
      BY <1>6
    <2>2. Written(r, w) = [r EXCEPT !.state = v]
      BY <2>1 DEF Written
    <2> QED
      BY <2>2, SMT DEF Record
  <1>7. CASE w \in {"wait"} \X {"zero", "max"}
    <2>1. PICK v \in {"zero", "max"} : w = <<"wait", v>>
      BY <1>7
    <2>2. Written(r, w) = [r EXCEPT !.wait = v]
      BY <2>1 DEF Written
    <2> QED
      BY <2>2, SMT DEF Record
  <1> QED
    BY <1>1, <1>2, <1>3, <1>4, <1>5, <1>6, <1>7 DEF Ordinary

LEMMA WrittenFlag ==
  ASSUME NEW r \in Record, NEW v \in BOOLEAN
  PROVE  /\ Written(r, <<"stopping", v>>) = [r EXCEPT !.stopping = v]
         /\ Written(r, <<"taskRun", v>>) = [r EXCEPT !.taskRun = v]
         /\ \A b \in Bits : Written(r, Set(b)) = [r EXCEPT !.bits = @ \cup {b}]
  BY Zenon DEF Written, Set

\* What an update of one field leaves alone.
LEMMA FieldUpdates ==
  ASSUME NEW r \in Record, NEW v \in BOOLEAN, NEW s \in States,
         NEW B \in SUBSET Bits, NEW m \in {"zero", "max"}
  PROVE  /\ [r EXCEPT !.stopping = v] \in Record
         /\ [r EXCEPT !.stopping = v].stopping = v
         /\ [r EXCEPT !.stopping = v].taskRun = r.taskRun
         /\ [r EXCEPT !.stopping = v].bits = r.bits
         /\ [r EXCEPT !.taskRun = v] \in Record
         /\ [r EXCEPT !.taskRun = v].taskRun = v
         /\ [r EXCEPT !.taskRun = v].stopping = r.stopping
         /\ [r EXCEPT !.taskRun = v].bits = r.bits
         /\ [r EXCEPT !.bits = B] \in Record
         /\ [r EXCEPT !.bits = B].taskRun = r.taskRun
         /\ [r EXCEPT !.bits = B].stopping = r.stopping
         /\ [r EXCEPT !.bits = B].bits = B
         /\ [r EXCEPT !.state = s] \in Record
         /\ [r EXCEPT !.state = s].taskRun = r.taskRun
         /\ [r EXCEPT !.state = s].stopping = r.stopping
         /\ [r EXCEPT !.state = s].bits = r.bits
         /\ [r EXCEPT !.isRunning = v] \in Record
         /\ [r EXCEPT !.isRunning = v].taskRun = r.taskRun
         /\ [r EXCEPT !.isRunning = v].stopping = r.stopping
         /\ [r EXCEPT !.isRunning = v].bits = r.bits
         /\ [r EXCEPT !.wait = m] \in Record
         /\ [r EXCEPT !.wait = m].taskRun = r.taskRun
         /\ [r EXCEPT !.wait = m].stopping = r.stopping
         /\ [r EXCEPT !.wait = m].bits = r.bits
  <1>1. /\ [r EXCEPT !.stopping = v] \in Record
        /\ [r EXCEPT !.taskRun = v] \in Record
        /\ [r EXCEPT !.isRunning = v] \in Record
    BY SMT DEF Record
  <1>2. /\ [r EXCEPT !.bits = B] \in Record
        /\ [r EXCEPT !.state = s] \in Record
        /\ [r EXCEPT !.wait = m] \in Record
    BY SMT DEF Record
  <1> QED
    BY <1>1, <1>2, SMT DEF Record

-----------------------------------------------------------------------------
\* Sequences: short literals, and what stays in a tail.
LEMMA ShortSeqs ==
  ASSUME NEW S, NEW a \in S, NEW b \in S, NEW c \in S, NEW d \in S, NEW f \in S, NEW g \in S
  PROVE  /\ << >> \in Seq(S) /\ <<a>> \in Seq(S) /\ <<a, b>> \in Seq(S)
         /\ <<a, b, c>> \in Seq(S) /\ <<a, b, c, d>> \in Seq(S)
         /\ <<a, b, c, d, f>> \in Seq(S) /\ <<a, b, c, d, f, g>> \in Seq(S)
  BY SMT

LEMMA FourSeq ==
  ASSUME NEW S, NEW a \in S, NEW b \in S, NEW c \in S, NEW d \in S
  PROVE  /\ <<a, b, c, d>> \in Seq(S) /\ <<a, b, c, d>> # <<>> /\ Head(<<a, b, c, d>>) = a
         /\ DOMAIN <<a, b, c, d>> = 1 .. 4
         /\ <<a, b, c, d>>[1] = a /\ <<a, b, c, d>>[2] = b
         /\ <<a, b, c, d>>[3] = c /\ <<a, b, c, d>>[4] = d
  BY SMT

LEMMA TailHas ==
  ASSUME NEW S, NEW s \in Seq(S), s # <<>>
  PROVE  /\ Tail(s) \in Seq(S) /\ Head(s) = s[1] /\ Head(s) \in S
         /\ Len(Tail(s)) = Len(s) - 1 /\ Len(s) \in Nat \ {0}
         /\ \A k \in DOMAIN Tail(s) : k + 1 \in DOMAIN s /\ Tail(s)[k] = s[k + 1]
         /\ \A x : Has(s, x) /\ Head(s) # x => Has(Tail(s), x)
         /\ \A k \in DOMAIN s : k # 1 => k - 1 \in DOMAIN Tail(s) /\ Tail(s)[k - 1] = s[k]
  <1>1. /\ Tail(s) \in Seq(S) /\ Len(Tail(s)) = Len(s) - 1 /\ Len(s) \in Nat \ {0}
        /\ Head(s) = s[1] /\ Head(s) \in S
    BY SMT
  <1>2. \A k \in 1 .. Len(s) - 1 : Tail(s)[k] = s[k + 1]
    BY SMT
  <1>3. DOMAIN s = 1 .. Len(s) /\ DOMAIN Tail(s) = 1 .. Len(s) - 1
    BY <1>1, SMT
  <1>4. \A k \in DOMAIN s : k # 1 => k - 1 \in DOMAIN Tail(s) /\ Tail(s)[k - 1] = s[k]
    BY <1>1, <1>2, <1>3, SMT
  <1>5. \A k \in DOMAIN Tail(s) : k + 1 \in DOMAIN s /\ Tail(s)[k] = s[k + 1]
    BY <1>1, <1>2, <1>3, SMT
  <1>6. ASSUME NEW x, Has(s, x), Head(s) # x PROVE Has(Tail(s), x)
    <2>1. PICK k \in DOMAIN s : s[k] = x
      BY <1>6 DEF Has
    <2>2. k # 1
      BY <1>6, <2>1, <1>1
    <2> QED
      BY <2>1, <2>2, <1>4 DEF Has
  <1> QED
    BY <1>1, <1>4, <1>5, <1>6

LEMMA AppendHas ==
  ASSUME NEW S, NEW s \in Seq(S), NEW y \in S
  PROVE  /\ Append(s, y) \in Seq(S)
         /\ Len(Append(s, y)) = Len(s) + 1
         /\ DOMAIN Append(s, y) = 1 .. Len(s) + 1 /\ DOMAIN s = 1 .. Len(s)
         /\ \A k \in DOMAIN s : Append(s, y)[k] = s[k]
         /\ Append(s, y)[Len(s) + 1] = y
         /\ \A x : Has(s, x) => Has(Append(s, y), x)
         /\ Has(Append(s, y), y)
  BY SMT DEF Has
LEMMA JoinedSeq ==
  ASSUME NEW S, NEW s \in Seq(S), NEW t \in Seq(S)
  PROVE  /\ s \o t \in Seq(S)
         /\ Len(s \o t) = Len(s) + Len(t) /\ Len(s) \in Nat /\ Len(t) \in Nat
         /\ DOMAIN (s \o t) = 1 .. Len(s) + Len(t)
         /\ DOMAIN s = 1 .. Len(s) /\ DOMAIN t = 1 .. Len(t)
         /\ \A k \in 1 .. Len(s) : (s \o t)[k] = s[k]
         /\ \A k \in 1 .. Len(t) : (s \o t)[Len(s) + k] = t[k]
         /\ \A x : Has(t, x) => Has(s \o t, x)
         /\ \A x : Has(s, x) => Has(s \o t, x)
  <1>1. /\ s \o t \in Seq(S)
        /\ Len(s \o t) = Len(s) + Len(t) /\ Len(s) \in Nat /\ Len(t) \in Nat
        /\ DOMAIN (s \o t) = 1 .. Len(s) + Len(t)
        /\ DOMAIN s = 1 .. Len(s) /\ DOMAIN t = 1 .. Len(t)
    BY SMT
  <1>2. \A k \in 1 .. Len(s) + Len(t) : (s \o t)[k] = IF k <= Len(s) THEN s[k] ELSE t[k - Len(s)]
    BY ConcatProperties
  <1>3. \A k \in 1 .. Len(s) : (s \o t)[k] = s[k]
    BY <1>1, <1>2, SMT
  <1>4. \A k \in 1 .. Len(t) : (s \o t)[Len(s) + k] = t[k]
    BY <1>1, <1>2, SMT
  <1>5. ASSUME NEW x, Has(t, x) PROVE Has(s \o t, x)
    <2>1. PICK k \in 1 .. Len(t) : t[k] = x
      BY <1>5, <1>1 DEF Has
    <2>2. Len(s) + k \in DOMAIN (s \o t)
      BY <1>1, SMT
    <2> QED
      BY <2>1, <2>2, <1>4 DEF Has
  <1>6. ASSUME NEW x, Has(s, x) PROVE Has(s \o t, x)
    <2>1. PICK k \in 1 .. Len(s) : s[k] = x
      BY <1>6, <1>1 DEF Has
    <2>2. k \in DOMAIN (s \o t)
      BY <1>1, SMT
    <2> QED
      BY <2>1, <2>2, <1>3 DEF Has
  <1> QED
    BY <1>1, <1>3, <1>4, <1>5, <1>6

-----------------------------------------------------------------------------
\* The handlers.
LEMMA OrdinaryWrites ==
  /\ \A v \in BOOLEAN : <<"isOpen", v>> \in Plain /\ <<"isRunning", v>> \in Plain
  /\ \A s \in States : <<"state", s>> \in Plain
  /\ \A m \in {"zero", "max"} : <<"wait", m>> \in Plain
  /\ \A x \in {"reset", "done", "abort"} : <<"rings", x>> \in Plain
  /\ \A b \in {"STOPPED", "PAUSED", "RESUMED"} : Set(b) \in Plain /\ Clear(b) \in Plain
  /\ StopDone \in Plain
  BY Zenon DEF Plain, Ordinary, Set, Clear

LEMMA PlainIsNotSpecial ==
  /\ \A w \in Plain : /\ w \notin Birth /\ w # <<"taskRun", FALSE>> /\ w # Set("DESTROYED")
                      /\ w # StopDone => w \in Ordinary
  /\ Plain \subseteq Writes
  <1>1. ASSUME NEW w \in Ordinary
        PROVE  w \notin Birth /\ w # <<"taskRun", FALSE>> /\ w # Set("DESTROYED")
    <2> DEFINE special == Birth \cup {<<"taskRun", FALSE>>, Set("DESTROYED")}
    <2>a. \A x \in special : x[1] \in {"taskRun", "set"}
                             /\ (x[1] = "set" => x[2] \in {"CREATED", "DESTROYED"})
      <3>1. /\ <<"taskRun", TRUE>>[1] = "taskRun" /\ <<"taskRun", FALSE>>[1] = "taskRun"
            /\ Set("CREATED")[2] = "CREATED" /\ Set("DESTROYED")[2] = "DESTROYED"
            /\ Set("CREATED")[1] = "set" /\ Set("DESTROYED")[1] = "set"
        BY DEF Set
      <3> QED
        BY <3>1, Zenon DEF Birth
    <2>1. CASE w \in {"set", "clear"} \X {"STOPPED", "PAUSED", "RESUMED"}
      <3>1. w[1] \in {"set", "clear"} /\ w[2] \in {"STOPPED", "PAUSED", "RESUMED"}
        BY <2>1
      <3>2. w \notin special
        BY <2>a, <3>1
      <3> QED
        BY <3>2
    <2>2. CASE w[1] \in {"rings", "isOpen", "isRunning", "state", "wait"}
      <3>1. w \notin special
        BY <2>a, <2>2
      <3> QED
        BY <3>1
    <2>3. \/ w \in {"set", "clear"} \X {"STOPPED", "PAUSED", "RESUMED"}
          \/ w[1] \in {"rings", "isOpen", "isRunning", "state", "wait"}
      BY Zenon DEF Ordinary
    <2> QED
      BY <2>1, <2>2, <2>3
  <1>2. StopDone \notin Birth /\ StopDone # <<"taskRun", FALSE>> /\ StopDone # Set("DESTROYED")
    BY Zenon DEF StopDone, Birth, Set
  <1> QED
    BY <1>1, <1>2 DEF Plain, Writes

\* The states and the booleans the handlers name.
LEMMA StateNames ==
  {"INIT", "INITIALIZING", "RUNNING", "PAUSED", "STOPPED", "FINISHED", "ERROR"} = States
  BY DEF States

LEMMA OnStopPlain ==
  ASSUME NEW r
  PROVE  OnStop(r) \in Seq(Plain) /\ Has(OnStop(r), StopDone)
  <1> DEFINE a == <<"isOpen", FALSE>>
             b == <<"state", "STOPPED">>
             c == <<"wait", "max">>
             d == <<"isRunning", FALSE>>
             f == Set("STOPPED")
  <1>1. a \in Plain /\ b \in Plain /\ c \in Plain /\ d \in Plain /\ f \in Plain /\ StopDone \in Plain
    BY OrdinaryWrites, StateNames
  <1>2. OnStop(r) \in {<<a, b, c, d, StopDone, f>>, <<StopDone>>, <<b, d, StopDone, f>>}
    BY DEF OnStop, StopDone
  <1> HIDE DEF a, b, c, d, f
  <1>3. /\ <<a, b, c, d, StopDone, f>> \in Seq(Plain) /\ <<StopDone>> \in Seq(Plain)
        /\ <<b, d, StopDone, f>> \in Seq(Plain)
    BY <1>1, ShortSeqs
  <1>4. /\ Has(<<a, b, c, d, StopDone, f>>, StopDone) /\ Has(<<StopDone>>, StopDone)
        /\ Has(<<b, d, StopDone, f>>, StopDone)
    BY SMT DEF Has
  <1> QED
    BY <1>2, <1>3, <1>4

LEMMA OtherHandlersPlain ==
  ASSUME NEW r
  PROVE  /\ OnError(r) \in Seq(Plain) /\ OnFinish(r) \in Seq(Plain)
         /\ OnPause \in Seq(Plain) /\ OnResume(r) \in Seq(Plain)
         /\ Opened \in Seq(Plain)
  <1> DEFINE a == <<"isOpen", FALSE>>
             c == <<"wait", "max">>
             d == <<"isRunning", FALSE>>
             f == Set("STOPPED")
             s(x) == <<"state", x>>
  <1>1. /\ a \in Plain /\ c \in Plain /\ d \in Plain /\ f \in Plain
        /\ \A x \in {"ERROR", "FINISHED", "PAUSED", "INITIALIZING", "RUNNING"} : s(x) \in Plain
    BY OrdinaryWrites, StateNames
  <1>2. <<"isRunning", TRUE>> \in Plain /\ <<"isOpen", TRUE>> \in Plain
        /\ Set("RESUMED") \in Plain /\ Set("PAUSED") \in Plain /\ Clear("STOPPED") \in Plain
        /\ <<"wait", "zero">> \in Plain /\ <<"rings", "reset">> \in Plain
    BY OrdinaryWrites
  <1>3. OnError(r) \in Seq(Plain)
    <2>1. <<a, s("ERROR"), c, d, f>> \in Seq(Plain) /\ <<>> \in Seq(Plain)
      BY <1>1, ShortSeqs
    <2> QED
      BY <2>1 DEF OnError
  <1>4. OnFinish(r) \in Seq(Plain)
    <2>1. <<a, s("FINISHED"), c, d, f>> \in Seq(Plain) /\ <<>> \in Seq(Plain)
      BY <1>1, ShortSeqs
    <2> QED
      BY <2>1 DEF OnFinish
  <1>5. OnPause \in Seq(Plain)
    <2>1. <<s("PAUSED"), a, c, d, Set("PAUSED")>> \in Seq(Plain)
      BY <1>1, <1>2, ShortSeqs
    <2> QED
      BY <2>1 DEF OnPause
  <1>6. OnResume(r) \in Seq(Plain)
    <2>1. /\ << <<"isRunning", TRUE>>, Set("RESUMED") >> \in Seq(Plain)
          /\ << <<"isRunning", TRUE>>, Set("RESUMED"), <<"isOpen", TRUE>>, s("INITIALIZING") >>
               \in Seq(Plain)
          /\ << <<"rings", "reset">> >> \in Seq(Plain) /\ <<>> \in Seq(Plain)
      BY <1>1, <1>2, ShortSeqs
    <2>2. \A p \in {<<>>, << <<"rings", "reset">> >>} :
            p \o << <<"isRunning", TRUE>>, Set("RESUMED"), <<"isOpen", TRUE>>, s("INITIALIZING") >>
              \in Seq(Plain)
      BY <2>1, JoinedSeq
    <2> QED
      BY <2>1, <2>2 DEF OnResume
  <1>7. Opened \in Seq(Plain)
    <2>1. <<s("RUNNING"), <<"wait", "zero">>, Clear("STOPPED")>> \in Seq(Plain)
      BY <1>1, <1>2, ShortSeqs
    <2> QED
      BY <2>1 DEF Opened
  <1> QED
    BY <1>3, <1>4, <1>5, <1>6, <1>7

LEMMA OpenFailedPlain ==
  ASSUME NEW r, NEW res
  PROVE  /\ OpenFailed(r, res) \in Seq(Plain)
         /\ OpenFailed(r, res) \o << Set("STOPPED") >> \in Seq(Plain)
         /\ OpenFailed(r, res) \o << >> \in Seq(Plain)
         /\ << <<"rings", "done">> >> \o OnFinish(r) \in Seq(Plain)
  <1>1. /\ << <<"state", "ERROR">> >> \in Seq(Plain) /\ <<>> \in Seq(Plain)
        /\ << <<"rings", "abort">>, <<"isRunning", FALSE>> >> \in Seq(Plain)
        /\ << <<"rings", "done">> >> \in Seq(Plain) /\ << Set("STOPPED") >> \in Seq(Plain)
    BY OrdinaryWrites, StateNames, ShortSeqs
  <1>2. /\ OnStop(r) \in Seq(Plain) /\ OnError([r EXCEPT !.state = "ERROR"]) \in Seq(Plain)
        /\ OnFinish(r) \in Seq(Plain)
    BY OnStopPlain, OtherHandlersPlain
  <1>3. << <<"state", "ERROR">> >> \o OnError([r EXCEPT !.state = "ERROR"]) \in Seq(Plain)
    BY <1>1, <1>2, JoinedSeq
  <1>4. OpenFailed(r, res) \in Seq(Plain)
    <2> DEFINE p == IF res = "ABORT" THEN OnStop(r)
                    ELSE << <<"state", "ERROR">> >> \o OnError([r EXCEPT !.state = "ERROR"])
    <2>1. p \in Seq(Plain)
      BY <1>2, <1>3
    <2> HIDE DEF p
    <2>2. p \o << <<"rings", "abort">>, <<"isRunning", FALSE>> >> \in Seq(Plain)
      BY <2>1, <1>1, JoinedSeq
    <2> QED
      BY <2>2 DEF OpenFailed, p
  <1> QED
    BY <1>1, <1>2, <1>4, JoinedSeq
\* The writes of a task on its way out.
ExitSeq(t) ==
  /\ t \in Seq(Writes) /\ t # <<>>
  /\ \A k \in DOMAIN t : t[k] \notin Birth /\ (t[k] = Set("DESTROYED") <=> k = Len(t))
  /\ Has(t, <<"taskRun", FALSE>>) /\ Has(t, StopDone)

LEMMA ExitPrefix ==
  ASSUME NEW p \in Seq(Plain), NEW t, ExitSeq(t)
  PROVE  ExitSeq(p \o t)
  <1>1. p \in Seq(Writes) /\ t \in Seq(Writes) /\ t # <<>> /\ DOMAIN p = 1 .. Len(p) /\ Len(p) \in Nat
    BY PlainIsNotSpecial, SeqMonotonic, LenProperties DEF ExitSeq
  <1>2. Len(t) \in Nat \ {0} /\ DOMAIN t = 1 .. Len(t)
    BY <1>1, SMT
  <1>3. \A k \in 1 .. Len(p) : p[k] \notin Birth /\ p[k] # Set("DESTROYED")
    BY <1>1, ElementOfSeq, PlainIsNotSpecial
  <1>4. p \o t \in Seq(Writes) /\ Has(p \o t, <<"taskRun", FALSE>>) /\ Has(p \o t, StopDone)
        /\ Len(p \o t) = Len(p) + Len(t) /\ DOMAIN (p \o t) = 1 .. Len(p) + Len(t)
    BY <1>1, JoinedSeq DEF ExitSeq
  <1>5. p \o t # <<>>
    BY <1>1, <1>2, <1>4, SMT
  <1>6. ASSUME NEW k \in DOMAIN (p \o t)
        PROVE  (p \o t)[k] \notin Birth /\ ((p \o t)[k] = Set("DESTROYED") <=> k = Len(p \o t))
    <2>1. CASE k \in 1 .. Len(p)
      <3>1. (p \o t)[k] = p[k]
        BY <2>1, <1>1, JoinedSeq
      <3>2. k # Len(p \o t)
        BY <2>1, <1>1, <1>2, <1>4, SMT
      <3> QED
        BY <2>1, <3>1, <3>2, <1>3
    <2>2. CASE k \notin 1 .. Len(p)
      <3>1. PICK j \in 1 .. Len(t) : k = Len(p) + j
        <4>1. k - Len(p) \in 1 .. Len(t) /\ k = Len(p) + (k - Len(p))
          BY <2>2, <1>1, <1>2, <1>4, SMT
        <4> QED
          BY <4>1
      <3>2. (p \o t)[k] = t[j]
        BY <3>1, <1>1, JoinedSeq
      <3>3. k = Len(p \o t) <=> j = Len(t)
        <4>1. Len(p) \in Nat /\ Len(t) \in Nat /\ Len(p \o t) = Len(p) + Len(t)
          BY <1>1, <1>2, <1>4
        <4>2. \A m, n \in Nat : Len(p) = m /\ Len(t) = n =>
                (Len(p) + j = m + n <=> j = n)
          BY SMT
        <4> QED
          BY <3>1, <4>1, <4>2
      <3> QED
        BY <3>2, <3>3, <1>2 DEF ExitSeq
    <2> QED
      BY <2>1, <2>2
  <1> QED
    BY <1>4, <1>5, <1>6 DEF ExitSeq

LEMMA LastWrites ==
  ExitSeq(<< <<"isOpen", FALSE>>, StopDone, <<"taskRun", FALSE>>,
             Set("STOPPED"), Set("RESUMED"), Set("DESTROYED") >>)
  <1> DEFINE a == <<"isOpen", FALSE>>
             b == <<"taskRun", FALSE>>
             c == Set("STOPPED")
             d == Set("RESUMED")
             f == Set("DESTROYED")
             t == <<a, StopDone, b, c, d, f>>
  <1>1. a \in Plain /\ StopDone \in Plain /\ c \in Plain /\ d \in Plain
    BY OrdinaryWrites
  <1>2. b \notin Birth /\ f \notin Birth /\ b # f
    <2>1. <<"taskRun", FALSE>>[1] = "taskRun" /\ Set("DESTROYED")[1] = "set"
          /\ Set("DESTROYED")[2] = "DESTROYED" /\ Set("CREATED")[2] = "CREATED"
          /\ Set("CREATED")[1] = "set" /\ <<"taskRun", TRUE>>[1] = "taskRun"
      BY DEF Set
    <2>2. <<"taskRun", FALSE>> # <<"taskRun", TRUE>>
      BY Zenon
    <2> QED
      BY <2>1, <2>2, Zenon DEF Birth
  <1>3. \A w \in {a, StopDone, c, d} : w \notin Birth /\ w # f
    BY <1>1, PlainIsNotSpecial
  <1>4. \A w \in {a, StopDone, b, c, d, f} : w \in Writes
    BY <1>1, PlainIsNotSpecial DEF Writes
  <1> HIDE DEF a, b, c, d, f
  <1>5. t \in Seq(Writes) /\ t # <<>> /\ Len(t) = 6 /\ DOMAIN t = 1 .. 6
    BY <1>4, SMT
  <1>6. /\ t[1] = a /\ t[2] = StopDone /\ t[3] = b /\ t[4] = c /\ t[5] = d /\ t[6] = f
    OBVIOUS
  <1>7. Has(t, b) /\ Has(t, StopDone)
    BY <1>5, <1>6, SMT DEF Has
  <1>8. \A k \in 1 .. 6 : t[k] \notin Birth /\ (t[k] = f <=> k = 6)
    <2>1. \A k \in 1 .. 6 : k = 1 \/ k = 2 \/ k = 3 \/ k = 4 \/ k = 5 \/ k = 6
      BY SMT
    <2> QED
      BY <2>1, <1>6, <1>2, <1>3
  <1>9. ExitSeq(t)
    BY <1>5, <1>7, <1>8 DEF ExitSeq, b, f
  <1> QED
    BY <1>9 DEF a, b, c, d, f

LEMMA OnExitSeq ==
  ASSUME NEW r
  PROVE  /\ ExitSeq(OnExit(r))
         /\ ExitSeq(<< <<"isRunning", FALSE>>, Set("STOPPED") >> \o OnExit(r))
         /\ << <<"taskRun", FALSE>>, Clear("STOPPED") >> \o OnExit(r) \in Seq(Writes)
  <1>1. << <<"state", "STOPPED">> >> \in Seq(Plain) /\ <<>> \in Seq(Plain)
        /\ << <<"isRunning", FALSE>>, Set("STOPPED") >> \in Seq(Plain)
    BY OrdinaryWrites, StateNames, ShortSeqs
  <1>2. ExitSeq(OnExit(r))
    <2>1. (IF r.isOpen THEN << <<"state", "STOPPED">> >> ELSE <<>>) \in Seq(Plain)
      BY <1>1
    <2> QED
      BY <2>1, LastWrites, ExitPrefix DEF OnExit, StopDone
  <1>3. ExitSeq(<< <<"isRunning", FALSE>>, Set("STOPPED") >> \o OnExit(r))
    BY <1>1, <1>2, ExitPrefix
  <1>4. << <<"taskRun", FALSE>>, Clear("STOPPED") >> \o OnExit(r) \in Seq(Writes)
    <2>1. <<"taskRun", FALSE>> \in Writes /\ Clear("STOPPED") \in Writes
      BY OrdinaryWrites, PlainIsNotSpecial DEF Writes
    <2>2. << <<"taskRun", FALSE>>, Clear("STOPPED") >> \in Seq(Writes)
      BY <2>1, ShortSeqs
    <2> QED
      BY <2>2, <1>2, JoinedSeq DEF ExitSeq
  <1> QED
    BY <1>2, <1>3, <1>4

\* The writes of a task that begins.
LEMMA FirstWrites ==
  ASSUME NEW t, t = << <<"taskRun", TRUE>>, Set("CREATED"), <<"state", "INIT">>, <<"wait", "max">> >>
  PROVE  /\ t \in Seq(Writes) /\ t # <<>> /\ Head(t) = <<"taskRun", TRUE>>
         /\ \A k \in DOMAIN t : t[k] \in Plain \cup Birth
  <1> DEFINE a == <<"taskRun", TRUE>>
             b == Set("CREATED")
             c == <<"state", "INIT">>
             d == <<"wait", "max">>
  <1>1. a \in Birth /\ b \in Birth /\ c \in Plain /\ d \in Plain
    BY OrdinaryWrites, StateNames DEF Birth
  <1>2. a \in Writes /\ b \in Writes /\ c \in Writes /\ d \in Writes
    BY <1>1, PlainIsNotSpecial DEF Writes
  <1>3. t = <<a, b, c, d>>
    OBVIOUS
  <1> HIDE DEF a, b, c, d
  <1>4. t \in Seq(Writes) /\ t # <<>> /\ Head(t) = a /\ DOMAIN t = 1 .. 4
        /\ t[1] = a /\ t[2] = b /\ t[3] = c /\ t[4] = d
    <2>1. /\ <<a, b, c, d>> \in Seq(Writes) /\ <<a, b, c, d>> # <<>> /\ Head(<<a, b, c, d>>) = a
          /\ DOMAIN <<a, b, c, d>> = 1 .. 4
          /\ <<a, b, c, d>>[1] = a /\ <<a, b, c, d>>[2] = b
          /\ <<a, b, c, d>>[3] = c /\ <<a, b, c, d>>[4] = d
      BY <1>2, FourSeq
    <2> QED
      BY <1>3, <2>1
  <1>5. \A k \in 1 .. 4 : t[k] \in Plain \cup Birth
    <2>1. \A k \in 1 .. 4 : k = 1 \/ k = 2 \/ k = 3 \/ k = 4
      BY SMT
    <2> QED
      BY <2>1, <1>4, <1>1
  <1>6. Head(t) = <<"taskRun", TRUE>>
    BY <1>4 DEF a
  <1> QED
    BY <1>4, <1>5, <1>6
-----------------------------------------------------------------------------
\* Types.
LEMMA WrittenRecord ==
  ASSUME NEW r \in Record, NEW w \in Writes
  PROVE  Written(r, w) \in Record
  <1>1. CASE w \in Ordinary
    BY <1>1, WrittenPlain
  <1>2. CASE w \in {StopDone, <<"taskRun", TRUE>>, <<"taskRun", FALSE>>}
    <2>1. \A v \in BOOLEAN : [r EXCEPT !.stopping = v] \in Record /\ [r EXCEPT !.taskRun = v] \in Record
      BY SMT DEF Record
    <2> QED
      BY <1>2, <2>1, WrittenFlag DEF StopDone
  <1>3. CASE w \in {Set("CREATED"), Set("DESTROYED")}
    <2>1. PICK b \in Bits : w = Set(b)
      BY <1>3 DEF Bits
    <2>2. Written(r, w) = [r EXCEPT !.bits = @ \cup {b}]
      BY <2>1, WrittenFlag
    <2> QED
      BY <2>2, SMT DEF Record
  <1> QED
    BY <1>1, <1>2, <1>3 DEF Writes, Plain, Birth

LEMMA RingsTyped ==
  ASSUME NEW how \in {"abort", "done", "reset"}, NEW is,
         ring \in [1 .. Last - 1 -> Ring]
  PROVE  /\ RingsAfter(how, is) \in [1 .. Last - 1 -> Ring]
         /\ \A i \in 1 .. Last - 1 : RingsAfter(how, is)[i].there = ring[i].there
  <1>1. EmptyRing \in Ring /\ EmptyRing.there = TRUE
    <2>1. 0 \in 0 .. RingCap
      BY ChainAssumption, SMT
    <2> QED
      BY <2>1, Zenon DEF EmptyRing, Ring
  <1>2. \A i \in 1 .. Last - 1 :
          /\ [ring[i] EXCEPT !.abort = TRUE] \in Ring
          /\ [ring[i] EXCEPT !.done = TRUE] \in Ring
          /\ [ring[i] EXCEPT !.abort = TRUE].there = ring[i].there
          /\ [ring[i] EXCEPT !.done = TRUE].there = ring[i].there
    <2>1. \A v \in BOOLEAN : \A i \in 1 .. Last - 1 :
          /\ [ring[i] EXCEPT !.abort = v] \in Ring
          /\ [ring[i] EXCEPT !.done = v] \in Ring
          /\ [ring[i] EXCEPT !.abort = v].there = ring[i].there
          /\ [ring[i] EXCEPT !.done = v].there = ring[i].there
      BY SMT DEF Ring
    <2> QED
      BY <2>1
  <1>3. \A i \in 1 .. Last - 1 :
          LET x == IF i \notin is \/ ~ring[i].there THEN ring[i]
                   ELSE IF how = "reset" THEN EmptyRing ELSE [ring[i] EXCEPT ![how] = TRUE]
          IN  x \in Ring /\ x.there = ring[i].there
    <2> SUFFICES ASSUME NEW i \in 1 .. Last - 1,
                        ~(i \notin is \/ ~ring[i].there), how # "reset"
                 PROVE  [ring[i] EXCEPT ![how] = TRUE] \in Ring
                        /\ [ring[i] EXCEPT ![how] = TRUE].there = ring[i].there
      BY <1>1
    <2>1. how = "abort" \/ how = "done"
      OBVIOUS
    <2> QED
      BY <2>1, <1>2
  <1> QED
    BY <1>3 DEF RingsAfter

LEMMA LastIsPos == Last \in Nat \ {0} /\ Elements = {Chain[i] : i \in 1 .. Last} /\ Indices = 1 .. Last
                   /\ \A i \in 1 .. Last : Chain[i] \in Elements
  <1>1. Chain \in Seq(Elements) /\ Chain # <<>>
    BY ChainAssumption
  <1>2. Len(Chain) \in Nat \ {0} /\ DOMAIN Chain = 1 .. Len(Chain)
    BY <1>1, SMT
  <1> QED
    BY <1>2 DEF Last, Elements, Indices

\* The agenda of each operation.
LEMMA OverCalls ==
  ASSUME NEW f \in Functions
  PROVE  /\ Over(f) \in Seq(Calls) /\ Self(f) \in Seq(Calls)
         /\ Len(Over(f)) = Last /\ DOMAIN Over(f) = 1 .. Last
         /\ \A k \in 1 .. Last : Over(f)[k] = <<f, Chain[k]>>
         /\ Len(Self(f)) = 1 /\ DOMAIN Self(f) = 1 .. 1 /\ Self(f)[1] = <<f, Chain[1]>>
  <1>1. \A i \in 1 .. Last : <<f, Chain[i]>> \in Calls
    BY LastIsPos DEF Calls
  <1>2. Over(f) = [i \in 1 .. Last |-> <<f, Chain[i]>>]
    BY LastIsPos DEF Over
  <1>3. /\ [i \in 1 .. Last |-> <<f, Chain[i]>>] \in [1 .. Last -> Calls]
    BY <1>1
  <1>4. Over(f) \in Seq(Calls) /\ Len(Over(f)) = Last
    BY <1>2, <1>3, LastIsPos, SMT
  <1>5. <<f, Chain[1]>> \in Calls
    BY <1>1, LastIsPos, SMT
  <1>6. Self(f) \in Seq(Calls) /\ Len(Self(f)) = 1 /\ DOMAIN Self(f) = 1 .. 1
        /\ Self(f)[1] = <<f, Chain[1]>>
    BY <1>5, SMT DEF Self
  <1> QED
    BY <1>2, <1>4, <1>6

LEMMA DeinitCalls ==
  /\ DeinitEach \in Seq(Calls) /\ Len(DeinitEach) = 4 * Last /\ DOMAIN DeinitEach = 1 .. 4 * Last
  /\ \A k \in 1 .. 4 * Last : DeinitEach[k][1] \in {"stop", "wait_ms", "terminate", "free"}
  /\ DeinitEach[4][1] = "free"
  <1> DEFINE f == <<"stop", "wait_ms", "terminate", "free">>
             g(k) == f[((k - 1) % 4) + 1]
             c(k) == Chain[((k - 1) \div 4) + 1]
  <1>1. \A k \in 1 .. 4 * Last : ((k - 1) % 4) + 1 \in 1 .. 4 /\ ((k - 1) \div 4) + 1 \in 1 .. Last
    BY LastIsPos, SMT
  <1>2. \A m \in 1 .. 4 : f[m] \in {"stop", "wait_ms", "terminate", "free"}
    BY SMT
  <1>3. \A k \in 1 .. 4 * Last : g(k) \in {"stop", "wait_ms", "terminate", "free"} /\ c(k) \in Elements
    BY <1>1, <1>2, LastIsPos
  <1>4. DeinitEach = [k \in 1 .. 4 * Last |-> <<g(k), c(k)>>]
    BY DEF DeinitEach
  <1>5. g(4) = "free" /\ 4 \in 1 .. 4 * Last
    BY LastIsPos, SMT
  <1> HIDE DEF g, c
  <1>6. \A k \in 1 .. 4 * Last : <<g(k), c(k)>> \in Calls
    BY <1>3 DEF Calls, Functions
  <1>7. DeinitEach \in [1 .. 4 * Last -> Calls]
    BY <1>4, <1>6
  <1>8. 4 * Last \in Nat
    BY LastIsPos, SMT
  <1>9. DeinitEach \in Seq(Calls) /\ Len(DeinitEach) = 4 * Last
    BY <1>7, <1>8, SMT
  <1>10. \A k \in 1 .. 4 * Last : DeinitEach[k][1] = g(k)
    BY <1>4
  <1> QED
    BY <1>3, <1>4, <1>5, <1>9, <1>10

LEMMA ShapesInit == Init => Shapes
  <1> SUFFICES ASSUME Init PROVE Shapes
    OBVIOUS
  <1>1. \A e \in Elements : el[e] \in Record
    <2>1. [state |-> "INIT", isOpen |-> FALSE, isRunning |-> FALSE, taskRun |-> FALSE,
           stopping |-> FALSE, wait |-> "zero", bits |-> {}] \in Record
      BY StateNames, Zenon DEF Record
    <2> QED
      BY <2>1 DEF Init
  <1>2. \A e \in Elements : cmdq[e] \in Seq(Commands) /\ Len(cmdq[e]) <= QueueLen /\ todo[e] \in Seq(Writes)
    BY ChainAssumption, SMT DEF Init
  <1>3. EmptyRing \in Ring
    <2>1. 0 \in 0 .. RingCap
      BY ChainAssumption, SMT
    <2> QED
      BY <2>1, Zenon DEF EmptyRing, Ring
  <1>4. el \in [Elements -> Record] /\ ring \in [1 .. Last - 1 -> Ring]
        /\ pc \in [Elements -> Places] /\ todo \in [Elements -> Seq(Writes)]
        /\ cmdq \in [Elements -> Seq(Commands)]
    BY <1>1, <1>2, <1>3 DEF Init, Places
  <1>5. agenda \in Seq(Calls) /\ at \in Nat /\ at = 1
    BY SMT DEF Init
  <1> QED
    BY <1>2, <1>4, <1>5 DEF Init, Shapes, TaskTypes, CallTypes

\* Shapes includes the type invariant.
LEMMA ShapesTypes == Shapes => TypeOK
  <1>1. Places = {"none", "begin", "init", "wait", "blocked", "open", "reopen", "process", "busy", "exit"}
    BY DEF Loop, Places
  <1> QED
    BY <1>1, Zenon DEF Shapes, TaskTypes, CallTypes, TypeOK, Record, Ring

-----------------------------------------------------------------------------
\* The steps keep the types.  First the parts steps are made of.
LEMMA ThenTypes ==
  ASSUME Shapes, NEW e \in Elements, NEW p \in Places, NEW ws \in Seq(Writes), Then(e, p, ws)
  PROVE  /\ pc' \in [Elements -> Places] /\ todo' \in [Elements -> Seq(Writes)]
         /\ pc'[e] = p /\ todo'[e] = ws
         /\ \A d \in Elements : d # e => pc'[d] = pc[d] /\ todo'[d] = todo[d]
  BY DEF Then, Shapes, TaskTypes

LEMMA CalleeTypes ==
  ASSUME Shapes, agenda # <<>>
  PROVE  /\ Callee \in Elements /\ Head(agenda)[1] \in Functions
         /\ el[Callee] \in Record /\ Tail(agenda) \in Seq(Calls)
         /\ cmdq[Callee] \in Seq(Commands)
  <1>1. Head(agenda) \in Calls /\ Tail(agenda) \in Seq(Calls)
    BY TailHas DEF Shapes, CallTypes
  <1>2. Callee \in Elements /\ Head(agenda)[1] \in Functions
    BY <1>1 DEF Calls, Callee
  <1> QED
    BY <1>1, <1>2 DEF Shapes, TaskTypes

LEMMA GotoTypes ==
  ASSUME Shapes, agenda # <<>>, NEW k \in Nat, Goto(k)
  PROVE  CallTypes'
  BY DEF Goto, Shapes, CallTypes

LEMMA LeaveTypes ==
  ASSUME Shapes, agenda # <<>>, NEW ret \in BOOLEAN, NEW bad \in BOOLEAN, Leave(ret, bad)
  PROVE  CallTypes'
  BY CalleeTypes, SMT DEF Leave, Shapes, CallTypes

\* Every way to leave an element function.
LEMMA ReturnTypes ==
  ASSUME Shapes, agenda # <<>>, Return \/ ReturnFail \/ GiveUp \/ GiveUpFail
  PROVE  CallTypes'
  <1>1. failed \in BOOLEAN /\ fault \in BOOLEAN
    BY DEF Shapes, CallTypes
  <1>2. \E ret, bad \in BOOLEAN : Leave(ret, bad)
    BY <1>1, Zenon DEF Return, ReturnFail, GiveUp, GiveUpFail
  <1> QED
    BY <1>2, LeaveTypes

LEMMA UpdateTypes ==
  ASSUME Shapes, agenda # <<>>, NEW r \in Record, Update(r)
  PROVE  /\ el' \in [Elements -> Record] /\ el'[Callee] = r
         /\ \A d \in Elements : d # Callee => el'[d] = el[d]
  BY CalleeTypes DEF Update, Shapes, TaskTypes

LEMMA BitsTypes ==
  ASSUME Shapes, agenda # <<>>, NEW b \in Bits, With(b) \/ Without(b)
  PROVE  el' \in [Elements -> Record]
  <1>1. /\ [el[Callee] EXCEPT !.bits = @ \cup {b}] \in Record
        /\ [el[Callee] EXCEPT !.bits = @ \ {b}] \in Record
    BY CalleeTypes, SMT DEF Record
  <1> QED
    BY <1>1, UpdateTypes DEF With, Without

LEMMA SendTypes ==
  ASSUME Shapes, agenda # <<>>, NEW c \in Commands, ~QueueFull, SendCmd(c)
  PROVE  cmdq' \in [Elements -> Seq(Commands)] /\ \A e \in Elements : Len(cmdq'[e]) <= QueueLen
  <1>1. Append(cmdq[Callee], c) \in Seq(Commands) /\ Len(Append(cmdq[Callee], c)) = Len(cmdq[Callee]) + 1
        /\ Len(cmdq[Callee]) \in Nat
    BY CalleeTypes, AppendHas, LenProperties
  <1>2. Len(cmdq[Callee]) <= QueueLen /\ Len(cmdq[Callee]) # QueueLen /\ QueueLen \in Nat
    BY CalleeTypes, ChainAssumption DEF Shapes, TaskTypes, QueueFull
  <1>3. Len(Append(cmdq[Callee], c)) <= QueueLen
    BY <1>1, <1>2, SMT
  <1> QED
    BY <1>1, <1>3, CalleeTypes DEF SendCmd, Shapes, TaskTypes

LEMMA RingKept ==
  ASSUME Shapes
  PROVE  \A how \in {"abort", "done", "reset"} : \A is : RingsAfter(how, is) \in [1 .. Last - 1 -> Ring]
  BY RingsTyped DEF Shapes

LEMMA PlaceNames ==
  /\ \A p \in {"none", "begin", "init", "exit"} : p \in Places /\ p \notin Loop
  /\ \A p \in Loop : p \in Places
  /\ Loop = {"wait", "blocked", "open", "reopen", "process", "busy"}
  BY Zenon DEF Places, Loop

\* What a task goes on with.
LEMMA TaskMoves ==
  ASSUME NEW e,
         Begin(e) \/ Allocate(e) \/ Wait(e) \/ Command(e) \/ Open(e) \/ Process(e)
           \/ Busy(e) \/ Fail(e) \/ Exit(e)
  PROVE  \E p \in Places : \E ws \in Seq(Writes) : Then(e, p, ws)
  <1> DEFINE Goes == \E p \in Places : \E ws \in Seq(Writes) : Then(e, p, ws)
  <1>1. \A ws \in Seq(Plain) : ws \in Seq(Writes)
    BY PlainIsNotSpecial, SeqMonotonic
  <1>2. \A p \in Places : \A ws \in Seq(Plain) : Then(e, p, ws) => Goes
    BY <1>1
  <1>3. <<>> \in Seq(Plain) /\ <<>> \in Seq(Writes)
    BY SMT
  <1>4. /\ \A r : OnStop(r) \in Seq(Plain) /\ OnError(r) \in Seq(Plain) /\ OnResume(r) \in Seq(Plain)
        /\ OnPause \in Seq(Plain) /\ Opened \in Seq(Plain)
    BY OnStopPlain, OtherHandlersPlain
  <1>5. {"none", "begin", "init", "exit", "wait", "blocked", "open", "reopen", "process", "busy"} \subseteq Places
    BY PlaceNames
  <1>6. CASE Begin(e)
    BY <1>5, <1>6, FirstWrites DEF Begin
  <1>7. CASE Allocate(e)
    <2>1. << Clear("STOPPED") >> \in Seq(Plain)
      BY OrdinaryWrites, ShortSeqs
    <2> QED
      BY <1>7, <1>2, <1>5, <2>1, OnExitSeq DEF Allocate
  <1>8. CASE Wait(e)
    BY <1>8, <1>3, <1>5 DEF Wait
  <1>9. CASE Command(e)
    BY <1>9, <1>2, <1>4, <1>5, OnExitSeq DEF Command, ExitSeq
  <1>10. CASE Open(e)
    <2>1. \A res : /\ OpenFailed(el[e], res) \o << Set("STOPPED") >> \in Seq(Plain)
                   /\ OpenFailed(el[e], res) \o << >> \in Seq(Plain)
      BY OpenFailedPlain
    <2>2. \A res : OpenFailed(el[e], res) \o (IF pc[e] = "open" THEN << Set("STOPPED") >> ELSE <<>>)
                     \in Seq(Plain)
      BY <2>1
    <2>3. (IF pc[e] = "open" THEN "process" ELSE "wait") \in Places
      BY <1>5
    <2> QED
      BY <1>10, <1>2, <1>4, <2>2, <2>3 DEF Open
  <1>11. CASE Process(e)
    BY <1>11, <1>3, <1>5 DEF Process
  <1>12. CASE Busy(e)
    <2>1. << <<"rings", "done">> >> \o OnFinish(el[e]) \in Seq(Plain)
      BY OpenFailedPlain
    <2> QED
      BY <1>12, <1>2, <1>3, <1>4, <1>5, <2>1 DEF Busy
  <1>13. CASE Fail(e)
    BY <1>13, <1>2, <1>4, <1>5 DEF Fail
  <1>14. CASE Exit(e)
    BY <1>14, <1>3, <1>5 DEF Exit
  <1> QED
    BY <1>6, <1>7, <1>8, <1>9, <1>10, <1>11, <1>12, <1>13, <1>14

LEMMA WriteTypes ==
  ASSUME Shapes, NEW e \in HasTask, Write(e)
  PROVE  Shapes'
  <1>1. e \in Elements /\ todo[e] \in Seq(Writes) /\ todo[e] # <<>> /\ el[e] \in Record
    BY ChainAssumption DEF Shapes, TaskTypes, Write
  <1>2. Tail(todo[e]) \in Seq(Writes) /\ Head(todo[e]) \in Writes
    BY <1>1, TailHas
  <1>3. Written(el[e], Head(todo[e])) \in Record
    BY <1>1, <1>2, WrittenRecord
  <1>4. el' = [el EXCEPT ![e] = Written(el[e], Head(todo[e]))] /\ todo' = [todo EXCEPT ![e] = Tail(todo[e])]
    BY DEF Write
  <1>5. TaskTypes'
    BY <1>1, <1>2, <1>3, <1>4 DEF Shapes, TaskTypes, Write
  <1>6. ring' \in [1 .. Last - 1 -> Ring]
    <2>1. CASE ring' = ring
      BY <2>1 DEF Shapes
    <2>2. CASE Head(todo[e]) \in {<<"rings", "reset">>, <<"rings", "done">>}
               /\ ring' = RingsAfter(Head(todo[e])[2], OutRing(e))
      <3>1. Head(todo[e])[2] \in {"reset", "done"}
        BY <2>2
      <3> QED
        BY <2>2, <3>1, RingKept
    <2>3. CASE ring' = RingsAfter("abort", InRing(e) \cup OutRing(e))
      BY <2>3, RingKept
    <2> QED
      BY <2>1, <2>2, <2>3 DEF Write
  <1>7. live' = live /\ UNCHANGED callVars
    BY DEF Write
  <1> QED
    BY <1>5, <1>6, <1>7, Zenon DEF Shapes, CallTypes, callVars

LEMMA TaskStepTypes ==
  ASSUME Shapes, NEW e \in HasTask, Task(e) \/ Fail(e)
  PROVE  Shapes'
  <1>1. e \in Elements
    BY ChainAssumption
  <1>2. CASE Write(e)
    BY <1>2, WriteTypes
  <1>3. CASE ~Write(e)
    <2>1. Begin(e) \/ Allocate(e) \/ Wait(e) \/ Command(e) \/ Open(e) \/ Process(e)
           \/ Busy(e) \/ Fail(e) \/ Exit(e)
      BY <1>3 DEF Task
    <2>2. PICK p \in Places, ws \in Seq(Writes) : Then(e, p, ws)
      BY <2>1, TaskMoves
    <2>3. pc' \in [Elements -> Places] /\ todo' \in [Elements -> Seq(Writes)]
      BY <1>1, <2>2, ThenTypes
    <2>4. el' = el /\ live' = live /\ UNCHANGED <<pstate, last, agenda, at, failed>>
      BY <2>1 DEF Begin, Allocate, Wait, Command, Open, Process, Busy, Fail, Exit, callVars
    <2>5. fault' \in BOOLEAN
      <3>1. fault' = fault \/ fault' = TRUE
        BY <2>1, Zenon DEF Begin, Allocate, Wait, Command, Open, Process, Busy, Fail, Exit, callVars
      <3> QED
        BY <3>1 DEF Shapes, CallTypes
    <2>6. cmdq' \in [Elements -> Seq(Commands)] /\ \A d \in Elements : Len(cmdq'[d]) <= QueueLen
      <3>1. CASE cmdq' = cmdq
        BY <3>1 DEF Shapes, TaskTypes
      <3>2. CASE cmdq[e] # <<>> /\ cmdq' = [cmdq EXCEPT ![e] = Tail(@)]
        <4>1. cmdq[e] \in Seq(Commands) /\ Len(cmdq[e]) <= QueueLen /\ QueueLen \in Nat
          BY <1>1, ChainAssumption DEF Shapes, TaskTypes
        <4>2. Tail(cmdq[e]) \in Seq(Commands) /\ Len(Tail(cmdq[e])) = Len(cmdq[e]) - 1 /\ Len(cmdq[e]) \in Nat
          BY <3>2, <4>1, TailHas
        <4>3. Len(Tail(cmdq[e])) <= QueueLen
          BY <4>1, <4>2, SMT
        <4> QED
          BY <1>1, <3>2, <4>2, <4>3 DEF Shapes, TaskTypes
      <3>3. cmdq' = cmdq \/ (cmdq[e] # <<>> /\ cmdq' = [cmdq EXCEPT ![e] = Tail(@)])
        BY <2>1, Zenon DEF Begin, Allocate, Wait, Command, Open, Process, Busy, Fail, Exit
      <3> QED
        BY <3>1, <3>2, <3>3
    <2>7. ring' \in [1 .. Last - 1 -> Ring]
      <3>1. CASE ring' = ring
        BY <3>1 DEF Shapes
      <3>2. CASE CanMove(e) /\ ring' = [i \in DOMAIN ring |->
                      IF i \in InRing(e) THEN [ring[i] EXCEPT !.n = @ - 1]
                      ELSE IF i \in OutRing(e) THEN [ring[i] EXCEPT !.n = @ + 1]
                      ELSE ring[i]]
        <4>1. DOMAIN ring = 1 .. Last - 1 /\ \A i \in 1 .. Last - 1 : ring[i] \in Ring
          BY DEF Shapes
        <4>2. RingCap \in Nat
          BY ChainAssumption
        <4>3. \A i \in 1 .. Last - 1 : i \in InRing(e) => [ring[i] EXCEPT !.n = @ - 1] \in Ring
          <5> SUFFICES ASSUME NEW i \in 1 .. Last - 1, ring[i].n > 0 PROVE [ring[i] EXCEPT !.n = @ - 1] \in Ring
            BY <3>2 DEF CanMove
          <5>1. ring[i] \in Ring
            BY <4>1
          <5> QED
            BY <4>2, <5>1, SMT DEF Ring
        <4>4. \A i \in 1 .. Last - 1 : i \in OutRing(e) => [ring[i] EXCEPT !.n = @ + 1] \in Ring
          <5> SUFFICES ASSUME NEW i \in 1 .. Last - 1, ring[i].n < RingCap PROVE [ring[i] EXCEPT !.n = @ + 1] \in Ring
            BY <3>2 DEF CanMove
          <5>1. ring[i] \in Ring
            BY <4>1
          <5> QED
            BY <4>2, <5>1, SMT DEF Ring
        <4> QED
          BY <3>2, <4>1, <4>3, <4>4
      <3>3. ring' = ring \/ (CanMove(e) /\ ring' = [i \in DOMAIN ring |->
                      IF i \in InRing(e) THEN [ring[i] EXCEPT !.n = @ - 1]
                      ELSE IF i \in OutRing(e) THEN [ring[i] EXCEPT !.n = @ + 1]
                      ELSE ring[i]])
        BY <2>1, Zenon DEF Begin, Allocate, Wait, Command, Open, Process, Busy, Fail, Exit
      <3> QED
        BY <3>1, <3>2, <3>3
    <2>8. CallTypes'
      BY <2>4, <2>5 DEF Shapes, CallTypes
    <2>9. TaskTypes'
      BY <2>3, <2>4, <2>6 DEF Shapes, TaskTypes
    <2> QED
      BY <2>4, <2>7, <2>8, <2>9 DEF Shapes
  <1> QED
    BY <1>2, <1>3

-----------------------------------------------------------------------------
\* A call of an element function changes the callee's structure, its queue and the caller's
\* own state, and each within the types.
LEMMA CallStays ==
  ASSUME Shapes, ElementCall
  PROVE  agenda # <<>>
  BY DEF ElementCall, ElementRun, ElementResume, ElementPause, ElementStop, ElementWait,
         ElementReset, ElementTerminate, ElementFree, At

LEMMA CallMoves ==
  ASSUME Shapes, ElementCall
  PROVE  (\E k \in 1 .. 6 : Goto(k)) \/ Return \/ ReturnFail \/ GiveUp \/ GiveUpFail
  <1> DEFINE Moves == (\E k \in 1 .. 6 : Goto(k)) \/ Return \/ ReturnFail \/ GiveUp \/ GiveUpFail
  <1>1. /\ 1 \in 1 .. 6 /\ 2 \in 1 .. 6 /\ 3 \in 1 .. 6 /\ 4 \in 1 .. 6 /\ 5 \in 1 .. 6 /\ 6 \in 1 .. 6
    BY SMT
  <1>2. \A k : k \in 1 .. 6 /\ Goto(k) => Moves
    OBVIOUS
  <1>3. Return \/ ReturnFail \/ GiveUp \/ GiveUpFail => Moves
    OBVIOUS
  <1> HIDE DEF Moves
  <1>4. ElementRun => Moves
    BY <1>1, <1>2, <1>3, Zenon DEF ElementRun, Waited
  <1>5. ElementResume => Moves
    BY <1>1, <1>2, <1>3, Zenon DEF ElementResume
  <1>6. ElementPause => Moves
    BY <1>1, <1>2, <1>3, Zenon DEF ElementPause, Waited
  <1>7. ElementStop => Moves
    <2>1. \A c : Goto(IF c THEN 4 ELSE 5) => Moves
      BY <1>1, <1>2
    <2> QED
      BY <1>1, <1>2, <1>3, <2>1, Zenon DEF ElementStop
  <1>8. ElementWait => Moves
    <2>1. \A c : Goto(IF c THEN 2 ELSE 3) => Moves
      BY <1>1, <1>2
    <2> QED
      BY <1>1, <1>2, <1>3, <2>1, Zenon DEF ElementWait, Waited
  <1>9. ElementReset \/ ElementFree => Moves
    BY <1>3 DEF ElementReset, ElementFree
  <1>10. ElementTerminate => Moves
    BY <1>1, <1>2, <1>3, Zenon DEF ElementTerminate, Waited
  <1> QED
    BY <1>4, <1>5, <1>6, <1>7, <1>8, <1>9, <1>10 DEF ElementCall, Moves

LEMMA CallerTypes ==
  ASSUME Shapes, ElementCall
  PROVE  CallTypes'
  <1>1. \A k \in 1 .. 6 : k \in Nat
    BY SMT
  <1> QED
    BY <1>1, CallStays, CallMoves, GotoTypes, ReturnTypes

\* The structures element functions write.
LEMMA SeveralUpdates ==
  ASSUME NEW r \in Record, NEW v \in BOOLEAN, NEW w \in BOOLEAN, NEW s \in States, NEW B \in SUBSET Bits
  PROVE  /\ [r EXCEPT !.isRunning = v, !.state = s] \in Record
         /\ [r EXCEPT !.taskRun = v, !.isRunning = w] \in Record
         /\ [r EXCEPT !.bits = B, !.state = s] \in Record
         /\ [r EXCEPT !.bits = B, !.isRunning = v, !.state = s] \in Record
         /\ [r EXCEPT !.isRunning = v, !.state = s, !.bits = B] \in Record
         /\ [r EXCEPT !.bits = B, !.taskRun = v, !.isRunning = w, !.state = s] \in Record
  <1>1. \A x \in Record : /\ [x EXCEPT !.bits = B] \in Record /\ [x EXCEPT !.taskRun = v] \in Record
                           /\ [x EXCEPT !.isRunning = v] \in Record /\ [x EXCEPT !.isRunning = w] \in Record
                           /\ [x EXCEPT !.state = s] \in Record
    BY FieldUpdates
  <1>2. [[r EXCEPT !.isRunning = v] EXCEPT !.state = s] \in Record
    BY <1>1
  <1>3. [r EXCEPT !.isRunning = v, !.state = s] \in Record
    BY <1>2
  <1> QED
    BY <1>1

LEMMA RecordUpdates ==
  ASSUME NEW r \in Record
  PROVE  /\ [r EXCEPT !.bits = @ \ {"CREATED"}, !.state = "ERROR"] \in Record
         /\ [r EXCEPT !.bits = @ \ {"CREATED"}, !.taskRun = TRUE,
                      !.isRunning = TRUE, !.state = "RUNNING"] \in Record
         /\ [r EXCEPT !.isRunning = TRUE, !.state = "RUNNING"] \in Record
         /\ [r EXCEPT !.state = "PAUSED"] \in Record
         /\ [r EXCEPT !.bits = @ \ {"PAUSED"}, !.isRunning = FALSE, !.state = "PAUSED"] \in Record
         /\ [r EXCEPT !.wait = "zero"] \in Record
         /\ [r EXCEPT !.isRunning = FALSE, !.state = "STOPPED", !.bits = @ \cup {"STOPPED"}] \in Record
         /\ [r EXCEPT !.stopping = TRUE] \in Record
         /\ [r EXCEPT !.stopping = FALSE] \in Record
         /\ [r EXCEPT !.state = "INIT"] \in Record
         /\ [r EXCEPT !.taskRun = FALSE, !.isRunning = FALSE] \in Record
  <1>1. r.bits \ {"CREATED"} \in SUBSET Bits /\ r.bits \ {"PAUSED"} \in SUBSET Bits
        /\ r.bits \cup {"STOPPED"} \in SUBSET Bits
    BY DEF Record, Bits
  <1>2. \A v \in BOOLEAN : \A s \in States : \A m \in {"zero", "max"} :
          /\ [r EXCEPT !.state = s] \in Record /\ [r EXCEPT !.wait = m] \in Record
          /\ [r EXCEPT !.stopping = v] \in Record
    BY <1>1, FieldUpdates
  <1> QED
    BY <1>1, <1>2, SeveralUpdates, StateNames, Zenon

LEMMA CallRecords ==
  ASSUME Shapes, ElementCall
  PROVE  el' \in [Elements -> Record]
  <1> DEFINE Typed == el' \in [Elements -> Record]
             r == el[Callee]
  <1>1. agenda # <<>> /\ r \in Record
    BY CallStays, CalleeTypes
  <1>2. \A b \in Bits : With(b) \/ Without(b) => Typed
    BY <1>1, BitsTypes
  <1>3. \A x \in Record : Update(x) => Typed
    BY <1>1, UpdateTypes
  <1>4. UNCHANGED el => Typed
    BY DEF Shapes, TaskTypes
  <1>5. Bits = {"STOPPED", "CREATED", "DESTROYED", "PAUSED", "RESUMED"}
    BY DEF Bits
  <1> HIDE DEF Typed
  <1>6. ElementRun => Typed
    BY <1>1, <1>2, <1>3, <1>4, <1>5, RecordUpdates, Zenon DEF ElementRun
  <1>7. ElementResume => Typed
    BY <1>1, <1>2, <1>3, <1>4, <1>5, RecordUpdates, Zenon DEF ElementResume
  <1>8. ElementPause => Typed
    BY <1>1, <1>2, <1>3, <1>4, <1>5, RecordUpdates, Zenon DEF ElementPause
  <1>9. ElementStop => Typed
    <2>1. (IF r.state = "PAUSED" THEN [r EXCEPT !.wait = "zero"] ELSE r) \in Record
      BY <1>1, RecordUpdates
    <2> QED
      BY <1>1, <1>2, <1>3, <1>4, <1>5, <2>1, RecordUpdates, Zenon DEF ElementStop
  <1>10. ElementWait => Typed
    BY <1>1, <1>2, <1>3, <1>4, <1>5, RecordUpdates, Zenon DEF ElementWait
  <1>11. ElementReset \/ ElementFree => Typed
    BY <1>1, <1>3, <1>4, RecordUpdates, Zenon DEF ElementReset, ElementFree
  <1>12. ElementTerminate => Typed
    BY <1>1, <1>2, <1>3, <1>4, <1>5, RecordUpdates, Zenon DEF ElementTerminate
  <1> QED
    BY <1>6, <1>7, <1>8, <1>9, <1>10, <1>11, <1>12 DEF ElementCall, Typed

\* Only audio_element_run makes a task or empties a queue; the others send one command.
LEMMA CallTasks ==
  ASSUME Shapes, ElementCall
  PROVE  \/ /\ At("run", 1) /\ ElementRun
            /\ cmdq' = [cmdq EXCEPT ![Callee] = <<>>]
            /\ Then(Callee, "begin", <<>>) \/ UNCHANGED <<pc, todo>>
         \/ /\ UNCHANGED <<pc, todo>>
            /\ \/ UNCHANGED cmdq
               \/ \E c \in Commands : ~QueueFull /\ SendCmd(c)
  <1>1. Commands = {"STOP", "PAUSE", "RESUME", "DESTROY"}
    BY DEF Commands
  <1> DEFINE Sends == \E c \in Commands : ~QueueFull /\ SendCmd(c)
             Quiet == UNCHANGED <<pc, todo>> /\ (UNCHANGED cmdq \/ Sends)
  <1>2. \A c \in {"STOP", "PAUSE", "RESUME", "DESTROY"} : ~QueueFull /\ SendCmd(c) => Sends
    BY <1>1
  <1>3. Sends <=> \E c \in Commands : ~QueueFull /\ SendCmd(c)
    OBVIOUS
  <1> HIDE DEF Sends
  <1>4. ElementResume => Quiet
    BY <1>2, Zenon DEF ElementResume
  <1>5. ElementPause => Quiet
    BY <1>2, Zenon DEF ElementPause
  <1>6. ElementStop => Quiet
    BY <1>2, Zenon DEF ElementStop
  <1>7. ElementWait \/ ElementReset \/ ElementFree => Quiet
    BY DEF ElementWait, ElementReset, ElementFree, taskVars
  <1>8. ElementTerminate => Quiet
    BY <1>2, Zenon DEF ElementTerminate
  <1>9. ElementRun => Quiet \/ (/\ At("run", 1) /\ ElementRun
                                /\ cmdq' = [cmdq EXCEPT ![Callee] = <<>>]
                                /\ Then(Callee, "begin", <<>>) \/ UNCHANGED <<pc, todo>>)
    BY DEF ElementRun, taskVars
  <1> QED
    BY <1>3, <1>4, <1>5, <1>6, <1>7, <1>8, <1>9 DEF ElementCall

LEMMA CallRings ==
  ASSUME Shapes, ElementCall
  PROVE  /\ ring' \in [1 .. Last - 1 -> Ring]
         /\ \A i \in DOMAIN ring : ring'[i].there = ring[i].there
         /\ live' \subseteq Elements
  <1>1. ring' = ring \/ \E how \in {"abort", "reset"} : \E is : ring' = RingsAfter(how, is)
    BY Zenon DEF ElementCall, ElementRun, ElementResume, ElementPause, ElementStop, ElementWait,
         ElementReset, ElementTerminate, ElementFree
  <1>2. ring \in [1 .. Last - 1 -> Ring]
    BY DEF Shapes
  <1>3. live' \subseteq live
    BY DEF ElementCall, ElementRun, ElementResume, ElementPause, ElementStop, ElementWait,
         ElementReset, ElementTerminate, ElementFree
  <1>4. DOMAIN ring = 1 .. Last - 1
    BY <1>2
  <1>5. \A how \in {"abort", "reset"} : \A is : ring' = RingsAfter(how, is) =>
          ring' \in [1 .. Last - 1 -> Ring] /\ \A i \in 1 .. Last - 1 : ring'[i].there = ring[i].there
    BY <1>2, RingsTyped
  <1> QED
    BY <1>1, <1>2, <1>3, <1>4, <1>5 DEF Shapes

LEMMA CallStepTypes ==
  ASSUME Shapes, ElementCall
  PROVE  Shapes'
  <1>1. agenda # <<>> /\ Callee \in Elements
    BY CallStays, CalleeTypes
  <1>2. /\ cmdq' \in [Elements -> Seq(Commands)]
        /\ \A d \in Elements : Len(cmdq'[d]) <= QueueLen
        /\ pc' \in [Elements -> Places]
        /\ todo' \in [Elements -> Seq(Writes)]
    <2>1. CASE UNCHANGED cmdq /\ UNCHANGED <<pc, todo>>
      BY <2>1 DEF Shapes, TaskTypes
    <2>2. CASE (\E c \in Commands : ~QueueFull /\ SendCmd(c)) /\ UNCHANGED <<pc, todo>>
      <3>1. cmdq' \in [Elements -> Seq(Commands)] /\ \A d \in Elements : Len(cmdq'[d]) <= QueueLen
        BY <1>1, <2>2, SendTypes
      <3> QED
        BY <2>2, <3>1 DEF Shapes, TaskTypes
    <2>3. CASE cmdq' = [cmdq EXCEPT ![Callee] = <<>>]
               /\ (Then(Callee, "begin", <<>>) \/ UNCHANGED <<pc, todo>>)
      <3>1. <<>> \in Seq(Commands) /\ Len(<<>>) <= QueueLen /\ <<>> \in Seq(Writes)
        BY ChainAssumption, SMT
      <3>2. cmdq' \in [Elements -> Seq(Commands)] /\ \A d \in Elements : Len(cmdq'[d]) <= QueueLen
        BY <1>1, <2>3, <3>1 DEF Shapes, TaskTypes
      <3>3. pc' \in [Elements -> Places] /\ todo' \in [Elements -> Seq(Writes)]
        <4>1. "begin" \in Places
          BY PlaceNames
        <4>2. CASE Then(Callee, "begin", <<>>)
          BY <1>1, <3>1, <4>1, <4>2, ThenTypes
        <4>3. CASE UNCHANGED <<pc, todo>>
          BY <4>3 DEF Shapes, TaskTypes
        <4> QED
          BY <2>3, <4>2, <4>3
      <3> QED
        BY <3>2, <3>3
    <2> QED
      BY <2>1, <2>2, <2>3, CallTasks
  <1> QED
    BY <1>2, CallerTypes, CallRecords, CallRings DEF Shapes, TaskTypes

\* What the caller goes on with when an operation starts.
LEMMA OperationCalls ==
  ASSUME Shapes, Operation
  PROVE  \E op \in Operations : \E calls \in Seq(Calls) : Start(op, calls)
  <1> DEFINE Started == \E op \in Operations : \E calls \in Seq(Calls) : Start(op, calls)
  <1>1. \A op \in Operations : \A calls \in Seq(Calls) : Start(op, calls) => Started
    OBVIOUS
  <1>2. Operations = {"run", "pause", "resume", "stop", "wait_for_stop", "reset", "terminate", "deinit"}
    BY DEF Operations
  <1>3. \A f \in Functions : Over(f) \in Seq(Calls) /\ Self(f) \in Seq(Calls)
    BY OverCalls
  <1>4. {"run", "resume", "pause", "stop", "wait", "terminate", "reset_rings", "reset_state",
         "ran", "resumed", "waited", "unlink"} \subseteq Functions
    BY DEF Functions
  <1>5. <<>> \in Seq(Calls) /\ DeinitEach \in Seq(Calls)
    BY DeinitCalls, SMT
  <1>6. \A a, b \in Seq(Calls) : a \o b \in Seq(Calls)
    BY JoinedSeq
  <1> HIDE DEF Started
  <1>7. CASE PipelineRun
    <2>1. (IF pstate = "INIT" THEN Over("run") \o Over("resume") \o Self("ran") ELSE <<>>) \in Seq(Calls)
      BY <1>3, <1>4, <1>5, <1>6
    <2> QED
      BY <1>1, <1>2, <1>7, <2>1, Zenon DEF PipelineRun
  <1>8. CASE PipelineResume
    <2>1. Over("resume") \o Self("resumed") \in Seq(Calls)
      BY <1>3, <1>4, <1>6
    <2> QED
      BY <1>1, <1>2, <1>8, <2>1, Zenon DEF PipelineResume
  <1>9. CASE PipelinePause
    BY <1>1, <1>2, <1>3, <1>4, <1>9 DEF PipelinePause
  <1>10. CASE PipelineStop
    <2>1. (IF pstate = "RUNNING" THEN Over("stop") ELSE <<>>) \in Seq(Calls)
      BY <1>3, <1>4, <1>5
    <2> QED
      BY <1>1, <1>2, <1>10, <2>1, Zenon DEF PipelineStop
  <1>11. CASE PipelineWaitForStop
    <2>1. (IF pstate = "RUNNING" THEN Over("wait") \o Self("waited") ELSE <<>>) \in Seq(Calls)
      BY <1>3, <1>4, <1>5, <1>6
    <2> QED
      BY <1>1, <1>2, <1>11, <2>1, Zenon DEF PipelineWaitForStop
  <1>12. CASE PipelineTerminate
    BY <1>1, <1>2, <1>3, <1>4, <1>12 DEF PipelineTerminate
  <1>13. CASE PipelineReset
    <2>1. Over("reset_rings") \o Over("reset_state") \in Seq(Calls)
      BY <1>3, <1>4, <1>6
    <2> QED
      BY <1>1, <1>2, <1>13, <2>1, Zenon DEF PipelineReset
  <1>14. CASE PipelineDeinit
    <2>1. Over("terminate") \o Self("unlink") \o DeinitEach \in Seq(Calls)
      BY <1>3, <1>4, <1>5, <1>6
    <2> QED
      BY <1>1, <1>2, <1>14, <2>1, Zenon DEF PipelineDeinit
  <1> QED
    BY <1>7, <1>8, <1>9, <1>10, <1>11, <1>12, <1>13, <1>14 DEF Operation, Started

LEMMA OperationTypes ==
  ASSUME Shapes, Operation
  PROVE  Shapes'
  <1>1. PICK op \in Operations, calls \in Seq(Calls) : Start(op, calls)
    BY OperationCalls
  <1>2. UNCHANGED <<el, cmdq, pc, todo, ring, live, pstate, at, fault>> /\ last' = op
        /\ agenda' = calls /\ failed' = FALSE
    BY <1>1 DEF Start, taskVars
  <1>3. at = 1
    BY <1>1 DEF Start, Shapes, CallTypes
  <1> QED
    BY <1>1, <1>2, <1>3 DEF Shapes, TaskTypes, CallTypes

LEMMA BetweenTypes ==
  ASSUME Shapes, Between
  PROVE  Shapes'
  <1>1. agenda # <<>>
    BY DEF Between, At
  <1>2. Tail(agenda) \in Seq(Calls) /\ Over("terminate") \in Seq(Calls) /\ <<>> \in Seq(Calls)
    <2>1. "terminate" \in Functions
      BY DEF Functions
    <2> QED
      BY <1>1, <2>1, CalleeTypes, OverCalls, EmptySeq
  <1>3. agenda' \in Seq(Calls)
    <2>1. agenda' \in {Tail(agenda), Over("terminate"), <<>>}
      BY Zenon DEF Between
    <2> QED
      BY <1>2, <2>1
  <1>4. pstate' \in {"INIT", "RUNNING", "ERROR"}
    <2>1. pstate' \in {"INIT", "RUNNING", "ERROR", pstate}
      BY Zenon DEF Between
    <2> QED
      BY <2>1 DEF Shapes, CallTypes
  <1>5. ring' \in [1 .. Last - 1 -> Ring]
    <2>1. \A i \in 1 .. Last - 1 : [ring[i] EXCEPT !.there = FALSE] \in Ring
      <3>1. \A v \in BOOLEAN : \A i \in 1 .. Last - 1 : [ring[i] EXCEPT !.there = v] \in Ring
        BY SMT DEF Shapes, Ring
      <3> QED
        BY <3>1
    <2>2. ring' = ring \/ ring' = [i \in DOMAIN ring |-> [ring[i] EXCEPT !.there = FALSE]]
      BY DEF Between
    <2> QED
      BY <2>1, <2>2 DEF Shapes
  <1>6. at' = 1 /\ UNCHANGED <<el, cmdq, pc, todo, live, last, failed, fault>>
    BY DEF Between, taskVars
  <1> QED
    BY <1>3, <1>4, <1>5, <1>6 DEF Shapes, TaskTypes, CallTypes

LEMMA DrainTypes ==
  ASSUME Shapes, Drain
  PROVE  Shapes'
  <1>1. Last - 1 \in 1 .. Last - 1
    BY LastIsPos, SMT DEF Drain
  <1>2. ring[Last - 1] \in Ring /\ ring[Last - 1].n > 0
    BY <1>1 DEF Shapes, Drain
  <1>3. [ring[Last - 1] EXCEPT !.n = @ - 1] \in Ring
    BY <1>2, ChainAssumption, SMT DEF Ring
  <1>4. ring' = [ring EXCEPT ![Last - 1] = [ring[Last - 1] EXCEPT !.n = @ - 1]]
    BY DEF Drain
  <1>5. ring' \in [1 .. Last - 1 -> Ring]
    BY <1>1, <1>3, <1>4 DEF Shapes
  <1>6. UNCHANGED <<el, cmdq, pc, todo, live, callVars>>
    BY DEF Drain, taskVars
  <1> QED
    BY <1>5, <1>6 DEF Shapes, TaskTypes, CallTypes, callVars

LEMMA ShapesStep == Shapes /\ [Next]_vars => Shapes'
  <1> SUFFICES ASSUME Shapes, [Next]_vars PROVE Shapes'
    OBVIOUS
  <1>1. CASE Operation
    BY <1>1, OperationTypes
  <1>2. CASE ElementCall
    BY <1>2, CallStepTypes
  <1>3. CASE Between
    BY <1>3, BetweenTypes
  <1>4. CASE Drain
    BY <1>4, DrainTypes
  <1>5. CASE Gone \/ UNCHANGED vars
    <2>1. UNCHANGED <<el, cmdq, pc, todo, ring, live, pstate, last, agenda, at, failed, fault>>
      BY <1>5 DEF Gone, vars, taskVars, callVars
    <2> QED
      BY <2>1 DEF Shapes, TaskTypes, CallTypes
  <1>6. CASE \E e \in HasTask : Task(e) \/ Fail(e)
    BY <1>6, TaskStepTypes
  <1> QED
    BY <1>1, <1>2, <1>3, <1>4, <1>5, <1>6 DEF Next

LEMMA ShapesAlways == Spec => []Shapes
  BY ShapesInit, ShapesStep, PTL DEF Spec

\* Every state has the types of TypeOK: no queue of commands is longer than
\* internal_queue_size, no ring buffer holds more than its capacity.
THEOREM PipelineTypeCorrect == Spec => []TypeOK
  BY ShapesAlways, ShapesTypes, PTL

-----------------------------------------------------------------------------
\* Where the caller is.
LEMMA CallerUnique ==
  \A f, g, k, j, d, e : Caller(f, k, d) /\ Caller(g, j, e) => f = g /\ k = j /\ d = e
  BY DEF Caller, At

LEMMA CallerStays ==
  ASSUME UNCHANGED <<agenda, at>>
  PROVE  \A f, k, e : Caller(f, k, e)' <=> Caller(f, k, e)
  BY DEF Caller, At, Callee

\* The caller does nothing that e's task depends on.
Involved(e) ==
  \E f \in {"run", "stop", "terminate"} : \E k \in 2 .. 6 : Caller(f, k, e)

LEMMA InvolvedCallers ==
  ASSUME NEW e, ~Involved(e)
  PROVE  /\ ~Caller("run", 2, e) /\ ~Caller("terminate", 2, e) /\ ~Caller("terminate", 3, e)
         /\ \A k \in 2 .. 6 : ~Caller("stop", k, e)
         /\ ~Caller("stop", 6, e)
  <1>1. 2 \in 2 .. 6 /\ 3 \in 2 .. 6 /\ 6 \in 2 .. 6
    BY SMT
  <1> QED
    BY <1>1 DEF Involved

\* A task that waits for nothing the caller does, and that the caller does not wait for.
Settled(e) ==
  /\ pc[e] # "begin"
  /\ pc[e] \in {"none", "exit"} => todo[e] = <<>> /\ ~el[e].taskRun /\ ~el[e].stopping
  /\ pc[e] = "init" => el[e].taskRun /\ \A k \in DOMAIN todo[e] : todo[e][k] \in Plain \cup Birth
  /\ Works(e)
  /\ ~Has(cmdq[e], "DESTROY")

LEMMA SettledFromLife ==
  ASSUME NEW e, Life(e),
         pc[e] # "begin", pc[e] = "init" => el[e].taskRun,
         pc[e] = "exit" => todo[e] = <<>>, ~Has(cmdq[e], "DESTROY")
  PROVE  Settled(e)
  BY DEF Life, Still, Starts, Settled

LEMMA SettledUnlessCalled ==
  ASSUME NEW e, Life(e), ~Caller("run", 2, e), ~Caller("terminate", 3, e)
  PROVE  Settled(e)
  <1>1. pc[e] # "begin" /\ (pc[e] = "init" => el[e].taskRun)
    BY DEF Life, Starts
  <1>2. pc[e] = "exit" => todo[e] = <<>>
    BY DEF Life, Leaves
  <1>3. ~Has(cmdq[e], "DESTROY")
    BY DEF Life, Destroys, Has
  <1> QED
    BY <1>1, <1>2, <1>3, SettledFromLife

LEMMA LifeFromSettled ==
  ASSUME NEW e, Settled(e), Stops(e), Trusts(e), ~Caller("terminate", 3, e)
  PROVE  Life(e)
  <1>1. Still(e) /\ Starts(e) /\ Works(e)
    BY DEF Settled, Still, Starts
  <1>2. Leaves(e)
    BY DEF Settled, Leaves
  <1>3. Destroys(e)
    BY DEF Settled, Destroys, Has
  <1> QED
    BY <1>1, <1>2, <1>3 DEF Life

\* The same at the end of a step.
LEMMA LifeFromSettledNext ==
  ASSUME NEW e, Settled(e)', Stops(e)', Trusts(e)', ~Caller("terminate", 3, e)'
  PROVE  Life(e)'
  <1>1. Still(e)' /\ Starts(e)' /\ Works(e)'
    BY DEF Settled, Still, Starts
  <1>2. Leaves(e)'
    BY DEF Settled, Leaves
  <1>3. Destroys(e)'
    BY DEF Settled, Destroys, Has
  <1> QED
    BY <1>1, <1>2, <1>3 DEF Life

LEMMA SettledStep ==
  ASSUME NEW e, Settled(e), pc'[e] = pc[e], todo'[e] = todo[e],
         el'[e].taskRun = el[e].taskRun, el'[e].stopping => el[e].stopping \/ el[e].taskRun,
         ~Has(cmdq'[e], "DESTROY")
  PROVE  Settled(e)'
  <1>1. Works(e)'
    BY DEF Settled, Works
  <1> QED
    BY <1>1 DEF Settled

\* What an appended command adds.
LEMMA AppendNew ==
  ASSUME NEW S, NEW s \in Seq(S), NEW y \in S
  PROVE  /\ \A x : Has(Append(s, y), x) => Has(s, x) \/ x = y
         /\ \A x : Has(s, x) => Has(Append(s, y), x)
         /\ Has(Append(s, y), y)
  <1>1. ASSUME NEW x, Has(Append(s, y), x) PROVE Has(s, x) \/ x = y
    <2>1. PICK k \in DOMAIN Append(s, y) : Append(s, y)[k] = x
      BY <1>1 DEF Has
    <2>2. k \in DOMAIN s \/ k = Len(s) + 1
      <3>1. Len(s) \in Nat
        BY LenProperties
      <3> QED
        BY <2>1, <3>1, AppendHas, SMT
    <2> QED
      BY <2>1, <2>2, AppendHas DEF Has
  <1> QED
    BY <1>1, AppendHas

\* A settled task stays settled while the caller only writes other fields or sends a command
\* other than DESTROY.
LEMMA UninvolvedStep ==
  ASSUME Shapes, NEW e \in Elements, Life(e), ~Involved(e), ~Involved(e)',
         pc'[e] = pc[e], todo'[e] = todo[e],
         el'[e].taskRun = el[e].taskRun, el'[e].stopping = el[e].stopping,
         \/ cmdq'[e] = cmdq[e]
         \/ \E c \in Commands \ {"DESTROY"} : cmdq'[e] = Append(cmdq[e], c)
  PROVE  Life(e)'
  <1>1. Settled(e)
    BY InvolvedCallers, SettledUnlessCalled
  <1>2. cmdq[e] \in Seq(Commands)
    BY DEF Shapes, TaskTypes
  <1>3. ~Has(cmdq'[e], "DESTROY") /\ (Has(cmdq[e], "STOP") => Has(cmdq'[e], "STOP"))
    <2>1. ~Has(cmdq[e], "DESTROY")
      BY <1>1 DEF Settled
    <2>2. CASE cmdq'[e] = cmdq[e]
      BY <2>1, <2>2
    <2>3. ASSUME NEW c \in Commands \ {"DESTROY"}, cmdq'[e] = Append(cmdq[e], c)
          PROVE  ~Has(cmdq'[e], "DESTROY") /\ (Has(cmdq[e], "STOP") => Has(cmdq'[e], "STOP"))
      BY <1>2, <2>1, <2>3, AppendNew
    <2> QED
      BY <2>2, <2>3
  <1>4. Settled(e)'
    BY <1>1, <1>3, SettledStep
  <1>5. Stops(e)'
    BY <1>3, InvolvedCallers DEF Life, Stops
  <1>6. ~Caller("terminate", 3, e)' /\ Trusts(e)'
    <2>1. /\ ~Caller("terminate", 2, e)' /\ ~Caller("terminate", 3, e)'
          /\ \A k \in 2 .. 6 : ~Caller("stop", k, e)'
      <3>1. 2 \in 2 .. 6 /\ 3 \in 2 .. 6
        BY SMT
      <3> QED
        BY <3>1 DEF Involved
    <2> QED
      BY <2>1 DEF Trusts
  <1> QED
    BY <1>4, <1>5, <1>6, LifeFromSettledNext

-----------------------------------------------------------------------------
\* The steps of e's task and its life.  A step in the loop, which may take a command other
\* than DESTROY.
LEMMA TailCommand ==
  ASSUME NEW s \in Seq(Commands), s # <<>>, Head(s) # "DESTROY",
         \A k \in DOMAIN s : s[k] = "DESTROY" => k = Len(s)
  PROVE  /\ \A k \in DOMAIN Tail(s) : Tail(s)[k] = "DESTROY" => k = Len(Tail(s))
         /\ Has(s, "DESTROY") => Has(Tail(s), "DESTROY")
         /\ Has(Tail(s), "DESTROY") => Has(s, "DESTROY")
  <1>1. /\ \A k \in DOMAIN Tail(s) : k + 1 \in DOMAIN s /\ Tail(s)[k] = s[k + 1]
        /\ Has(s, "DESTROY") => Has(Tail(s), "DESTROY")
        /\ Len(Tail(s)) = Len(s) - 1 /\ Len(s) \in Nat
    BY TailHas
  <1>2. ASSUME NEW k \in DOMAIN Tail(s), Tail(s)[k] = "DESTROY" PROVE k = Len(Tail(s))
    <2>1. k + 1 = Len(s)
      BY <1>1, <1>2
    <2>2. k \in Nat
      <3>1. DOMAIN Tail(s) = 1 .. Len(Tail(s))
        BY TailHas, LenProperties
      <3> QED
        BY <1>2, <3>1, SMT
    <2>3. \A j, m \in Nat : j + 1 = m => j = m - 1
      BY SMT
    <2> QED
      BY <1>1, <2>1, <2>2, <2>3
  <1>3. Has(Tail(s), "DESTROY") => Has(s, "DESTROY")
    BY <1>1 DEF Has
  <1> QED
    BY <1>1, <1>2, <1>3

LEMMA LoopLife ==
  ASSUME Shapes, NEW e \in Elements, Life(e), todo[e] = <<>>,
         pc[e] \in Loop \cup {"init"}, NEW p \in Loop, NEW ws \in Seq(Plain), Then(e, p, ws),
         el' = el, UNCHANGED <<agenda, at>>,
         \/ cmdq' = cmdq
         \/ /\ cmdq[e] # <<>> /\ cmdq' = [cmdq EXCEPT ![e] = Tail(@)]
            /\ Head(cmdq[e]) # "DESTROY"
            /\ Head(cmdq[e]) = "STOP" => Has(ws, StopDone)
  PROVE  Life(e)'
  <1>1. p \in Places /\ ws \in Seq(Writes) /\ p \notin {"none", "begin", "init", "exit"}
    BY PlaceNames, PlainIsNotSpecial, SeqMonotonic DEF Loop
  <1>2. pc'[e] = p /\ todo'[e] = ws
    BY <1>1, ThenTypes
  <1>3. el[e].taskRun
    <2>1. CASE pc[e] \in Loop
      BY <2>1 DEF Life, Works
    <2>2. CASE pc[e] = "init"
      BY <2>2 DEF Life, Starts
    <2> QED
      BY <2>1, <2>2
  <1>4. pc[e] \notin {"none", "begin", "exit"} /\ Uses(e)
    BY DEF Loop, Uses
  <1>5. \A f, k, d : Caller(f, k, d)' <=> Caller(f, k, d)
    BY CallerStays
  <1>6. cmdq[e] \in Seq(Commands)
    BY DEF Shapes, TaskTypes
  <1>7. Still(e)' /\ Starts(e)' /\ Leaves(e)'
    BY <1>1, <1>2 DEF Still, Starts, Leaves
  <1>8. Works(e)'
    <2>1. \A k \in DOMAIN ws : ws[k] \in Plain
      BY LenProperties, ElementOfSeq
    <2> QED
      BY <1>2, <1>3, <2>1 DEF Works
  <1>9. Destroys(e)'
    <2>1. CASE cmdq' = cmdq
      BY <1>1, <1>2, <1>4, <1>5, <2>1 DEF Life, Destroys
    <2>2. CASE cmdq[e] # <<>> /\ cmdq' = [cmdq EXCEPT ![e] = Tail(@)] /\ Head(cmdq[e]) # "DESTROY"
      <3>1. cmdq'[e] = Tail(cmdq[e])
        BY <2>2 DEF Shapes, TaskTypes
      <3>2. \A k \in DOMAIN cmdq[e] : cmdq[e][k] = "DESTROY" => k = Len(cmdq[e])
        BY DEF Life, Destroys
      <3>3. /\ \A k \in DOMAIN Tail(cmdq[e]) : Tail(cmdq[e])[k] = "DESTROY" => k = Len(Tail(cmdq[e]))
            /\ Has(cmdq[e], "DESTROY") => Has(Tail(cmdq[e]), "DESTROY")
            /\ Has(Tail(cmdq[e]), "DESTROY") => Has(cmdq[e], "DESTROY")
        BY <1>6, <2>2, <3>2, TailCommand
      <3>4. Has(Tail(cmdq[e]), "DESTROY") => Caller("terminate", 3, e) /\ "DESTROYED" \notin el[e].bits
        BY <3>3 DEF Life, Destroys, Has
      <3>5. Caller("terminate", 3, e) => Has(Tail(cmdq[e]), "DESTROY")
        BY <3>3, <1>4 DEF Life, Destroys
      <3>6. \A k \in DOMAIN Tail(cmdq[e]) : Tail(cmdq[e])[k] = "DESTROY" => Has(Tail(cmdq[e]), "DESTROY")
        BY DEF Has
      <3> QED
        BY <1>1, <1>2, <1>5, <3>1, <3>3, <3>4, <3>5, <3>6 DEF Destroys
    <2> QED
      BY <2>1, <2>2
  <1>10. Trusts(e)'
    BY <1>3, <1>5 DEF Trusts
  <1>11. Stops(e)'
    <2>1. ~Has(todo[e], StopDone)
      BY DEF Has
    <2>2. el[e].stopping => Has(cmdq[e], "STOP") \/ Caller("stop", 6, e)
      BY <2>1 DEF Life, Stops
    <2>3. Has(cmdq[e], "STOP") => Has(cmdq'[e], "STOP") \/ Has(ws, StopDone)
      <3>1. CASE cmdq' = cmdq
        BY <3>1
      <3>2. CASE /\ cmdq[e] # <<>> /\ cmdq' = [cmdq EXCEPT ![e] = Tail(@)]
                 /\ Head(cmdq[e]) = "STOP" => Has(ws, StopDone)
        <4>1. cmdq'[e] = Tail(cmdq[e])
          BY <3>2 DEF Shapes, TaskTypes
        <4>2. Has(cmdq[e], "STOP") /\ Head(cmdq[e]) # "STOP" => Has(Tail(cmdq[e]), "STOP")
          BY <1>6, <3>2, TailHas
        <4> QED
          BY <3>2, <4>1, <4>2
      <3> QED
        BY <3>1, <3>2
    <2> QED
      BY <1>2, <1>5, <2>2, <2>3 DEF Stops
  <1> QED
    BY <1>7, <1>8, <1>9, <1>10, <1>11 DEF Life

\* A handler's next write.
LEMMA WriteLife ==
  ASSUME Shapes, NEW e \in HasTask, Life(e), Write(e)
  PROVE  Life(e)'
  <1> DEFINE w == Head(todo[e])
             t == Tail(todo[e])
             r == el[e]
  <1>1. e \in Elements /\ todo[e] \in Seq(Writes) /\ todo[e] # <<>> /\ r \in Record
    BY ChainAssumption DEF Shapes, TaskTypes, Write
  <1>2. /\ w = todo[e][1] /\ w \in Writes /\ 1 \in DOMAIN todo[e]
        /\ Len(t) = Len(todo[e]) - 1 /\ Len(todo[e]) \in Nat \ {0}
        /\ \A k \in DOMAIN t : k + 1 \in DOMAIN todo[e] /\ t[k] = todo[e][k + 1]
        /\ \A x : Has(todo[e], x) /\ w # x => Has(t, x)
    <2>1. DOMAIN todo[e] = 1 .. Len(todo[e])
      BY <1>1, LenProperties
    <2> QED
      BY <1>1, <2>1, TailHas, SMT
  <1>3. el'[e] = Written(r, w) /\ todo'[e] = t /\ pc' = pc /\ cmdq' = cmdq /\ UNCHANGED <<agenda, at>>
    BY <1>1 DEF Write, Shapes, TaskTypes, callVars
  <1>4. \A f, k, d : Caller(f, k, d)' <=> Caller(f, k, d)
    BY <1>3, CallerStays
  <1>5. pc[e] \notin {"none", "begin"} /\ pc[e] \in Places /\ Uses(e)
    BY <1>1 DEF Life, Still, Shapes, TaskTypes, Uses
  \* What the write does.
  <1>6. /\ w \in Ordinary => /\ el'[e].taskRun = r.taskRun /\ el'[e].stopping = r.stopping
                             /\ "DESTROYED" \in el'[e].bits <=> "DESTROYED" \in r.bits
        /\ w = StopDone => /\ el'[e].taskRun = r.taskRun /\ ~el'[e].stopping
                           /\ el'[e].bits = r.bits
        /\ w = <<"taskRun", TRUE>> => /\ el'[e].taskRun /\ el'[e].stopping = r.stopping
                                      /\ el'[e].bits = r.bits
        /\ w = <<"taskRun", FALSE>> => /\ ~el'[e].taskRun /\ el'[e].stopping = r.stopping
                                       /\ el'[e].bits = r.bits
        /\ w = Set("CREATED") => /\ el'[e].taskRun = r.taskRun /\ el'[e].stopping = r.stopping
                                 /\ "DESTROYED" \in el'[e].bits <=> "DESTROYED" \in r.bits
        /\ w = Set("DESTROYED") => /\ el'[e].taskRun = r.taskRun /\ el'[e].stopping = r.stopping
    <2>1. w \in Ordinary => /\ el'[e].taskRun = r.taskRun /\ el'[e].stopping = r.stopping
                            /\ "DESTROYED" \in el'[e].bits <=> "DESTROYED" \in r.bits
      BY <1>1, <1>3, WrittenPlain
    <2>2. \A v \in BOOLEAN :
            /\ [r EXCEPT !.stopping = v].stopping = v
            /\ [r EXCEPT !.stopping = v].taskRun = r.taskRun
            /\ [r EXCEPT !.stopping = v].bits = r.bits
            /\ [r EXCEPT !.taskRun = v].taskRun = v
            /\ [r EXCEPT !.taskRun = v].stopping = r.stopping
            /\ [r EXCEPT !.taskRun = v].bits = r.bits
      <3>1. "INIT" \in States /\ {} \in SUBSET Bits /\ "zero" \in {"zero", "max"}
        BY StateNames
      <3> QED
        BY <1>1, <3>1, FieldUpdates
    <2>3. \A b \in Bits : LET B == r.bits \cup {b} IN
            /\ [r EXCEPT !.bits = @ \cup {b}].taskRun = r.taskRun
            /\ [r EXCEPT !.bits = @ \cup {b}].stopping = r.stopping
            /\ [r EXCEPT !.bits = @ \cup {b}].bits = B
      <3>1. "INIT" \in States /\ TRUE \in BOOLEAN /\ "zero" \in {"zero", "max"}
            /\ \A b \in Bits : r.bits \cup {b} \in SUBSET Bits
        BY <1>1, StateNames DEF Record
      <3> QED
        BY <1>1, <3>1, FieldUpdates
    <2>4. /\ w = StopDone => el'[e] = [r EXCEPT !.stopping = FALSE]
          /\ \A v \in BOOLEAN : w = <<"taskRun", v>> => el'[e] = [r EXCEPT !.taskRun = v]
          /\ \A b \in Bits : w = Set(b) => el'[e] = [r EXCEPT !.bits = @ \cup {b}]
      <3>1. /\ \A v \in BOOLEAN : /\ Written(r, <<"stopping", v>>) = [r EXCEPT !.stopping = v]
                                 /\ Written(r, <<"taskRun", v>>) = [r EXCEPT !.taskRun = v]
            /\ \A b \in Bits : Written(r, Set(b)) = [r EXCEPT !.bits = @ \cup {b}]
        BY <1>1, WrittenFlag
      <3>2. w = StopDone => w = <<"stopping", FALSE>>
        BY DEF StopDone
      <3> HIDE DEF r, w
      <3> QED
        BY <1>3, <3>1, <3>2, Zenon
    <2>5. "CREATED" \in Bits /\ "DESTROYED" \in Bits
      BY DEF Bits
    <2> QED
      BY <2>1, <2>2, <2>3, <2>4, <2>5
  <1>7. w \in Plain \/ w \in Birth \/ w = <<"taskRun", FALSE>> \/ w = Set("DESTROYED")
    BY <1>2 DEF Writes
  <1>8. w \in Plain => w \in Ordinary \/ w = StopDone
    BY DEF Plain
  <1>9. el'[e].stopping => r.stopping /\ w # StopDone
    BY <1>6, <1>7, <1>8 DEF Birth
  <1>10. w # Set("DESTROYED") => ("DESTROYED" \in el'[e].bits <=> "DESTROYED" \in r.bits)
    BY <1>6, <1>7, <1>8 DEF Birth
  <1> HIDE DEF w, t, r
  <1>11. Stops(e)'
    <2>1. el'[e].stopping => Has(cmdq[e], "STOP") \/ Caller("stop", 6, e) \/ Has(t, StopDone)
      BY <1>2, <1>9 DEF Life, Stops, r
    <2> QED
      BY <1>3, <1>4, <2>1 DEF Stops
  <1>12. CASE pc[e] = "init"
    <2>1. /\ \A k \in DOMAIN todo[e] : todo[e][k] \in Plain \cup Birth
          /\ ~r.taskRun => w = <<"taskRun", TRUE>>
      BY <1>12 DEF Life, Starts, w, r
    <2>2. w \in Plain \cup Birth
      BY <1>2, <2>1
    <2>3. el'[e].taskRun
      <3>1. Set("CREATED") # <<"taskRun", TRUE>>
        BY Zenon DEF Set
      <3> QED
        BY <1>6, <1>8, <2>1, <2>2, <3>1, PlainIsNotSpecial DEF Birth
    <2>4. w # Set("DESTROYED")
      <3>1. Set("DESTROYED") # Set("CREATED") /\ Set("DESTROYED") # <<"taskRun", TRUE>>
        BY Zenon DEF Set
      <3> QED
        BY <2>2, <3>1, PlainIsNotSpecial DEF Birth
    <2>5. \A k \in DOMAIN t : t[k] \in Plain \cup Birth
      BY <1>2, <2>1
    <2>6. Still(e)' /\ Starts(e)' /\ Leaves(e)' /\ Works(e)'
      BY <1>3, <1>12, <2>3, <2>5, PlaceNames DEF Still, Starts, Leaves, Works
    <2>7. Destroys(e)'
      BY <1>3, <1>4, <1>5, <1>10, <1>12, <2>4 DEF Life, Destroys, r
    <2>8. Trusts(e)'
      BY <2>3 DEF Trusts
    <2> QED
      BY <1>11, <2>6, <2>7, <2>8 DEF Life
  <1>13. CASE pc[e] \in Loop
    <2>1. r.taskRun /\ \A k \in DOMAIN todo[e] : todo[e][k] \in Plain
      BY <1>13 DEF Life, Works, r
    <2>2. w \in Plain
      BY <1>2, <2>1
    <2>3. el'[e].taskRun
      BY <1>6, <1>8, <2>1, <2>2
    <2>4. w # Set("DESTROYED")
      BY <2>2, PlainIsNotSpecial
    <2>5. \A k \in DOMAIN t : t[k] \in Plain
      BY <1>2, <2>1
    <2>6. pc[e] \notin {"none", "begin", "init", "exit"}
      BY <1>13 DEF Loop
    <2>7. Still(e)' /\ Starts(e)' /\ Leaves(e)' /\ Works(e)'
      BY <1>3, <2>3, <2>5, <2>6 DEF Still, Starts, Leaves, Works
    <2>8. Destroys(e)'
      BY <1>3, <1>4, <1>5, <1>10, <2>4, <2>6 DEF Life, Destroys, r
    <2>9. Trusts(e)'
      BY <2>3 DEF Trusts
    <2> QED
      BY <1>11, <2>7, <2>8, <2>9 DEF Life
  <1>14. CASE pc[e] = "exit"
    <2>1. /\ Caller("terminate", 3, e) /\ "DESTROYED" \notin r.bits
          /\ \A k \in DOMAIN todo[e] :
               todo[e][k] \notin Birth /\ (todo[e][k] = Set("DESTROYED") <=> k = Len(todo[e]))
          /\ r.taskRun => Has(todo[e], <<"taskRun", FALSE>>)
          /\ r.stopping => Has(todo[e], StopDone)
      BY <1>1, <1>14 DEF Life, Leaves, r
    <2>2. w \notin Birth /\ (w = Set("DESTROYED") <=> Len(todo[e]) = 1)
      BY <1>2, <2>1
    <2>3. el'[e].taskRun => Has(t, <<"taskRun", FALSE>>)
      <3>1. el'[e].taskRun => r.taskRun /\ w # <<"taskRun", FALSE>>
        BY <1>6, <1>7, <1>8, <2>2
      <3> QED
        BY <1>2, <2>1, <3>1
    <2>4. el'[e].stopping => Has(t, StopDone)
      BY <1>2, <1>9, <2>1
    <2>5. ASSUME NEW k \in DOMAIN t
          PROVE  t[k] \notin Birth /\ (t[k] = Set("DESTROYED") <=> k = Len(t))
      <3>1. t[k] = todo[e][k + 1] /\ k + 1 \in DOMAIN todo[e]
        BY <1>2
      <3>2. k \in Nat
        <4>1. t \in Seq(Writes)
          BY <1>1, TailHas DEF t
        <4> QED
          BY <4>1, LenProperties, SMT
      <3>3. k + 1 = Len(todo[e]) <=> k = Len(t)
        BY <1>2, <3>2, SMT
      <3> QED
        BY <2>1, <3>1, <3>3
    <2>6. t # <<>> => w # Set("DESTROYED")
      <3>1. Len(<<>>) = 0 /\ t \in Seq(Writes)
        BY <1>1, TailHas DEF t
      <3> QED
        BY <1>2, <2>2, <3>1, EmptySeq, SMT
    <2>7. \A x : ~Has(<<>>, x)
      BY DEF Has
    <2>8. Leaves(e)'
      BY <1>3, <1>4, <1>10, <2>1, <2>3, <2>4, <2>5, <2>6 DEF Leaves
    <2>9. Still(e)'
      BY <1>3, <1>14, <2>3, <2>4, <2>7 DEF Still
    <2>10. Starts(e)' /\ Works(e)'
      BY <1>3, <1>14 DEF Starts, Works, Loop
    <2>11. Destroys(e)'
      BY <1>3, <1>14 DEF Life, Destroys
    <2>12. Trusts(e)'
      BY <1>4, <2>1, CallerUnique DEF Trusts
    <2> QED
      BY <1>11, <2>8, <2>9, <2>10, <2>11, <2>12 DEF Life
  <1> QED
    BY <1>5, <1>12, <1>13, <1>14 DEF Places

\* The task says that it runs, after audio_element_run has made it.
LEMMA BeginLife ==
  ASSUME Shapes, NEW e \in Elements, Life(e), Begin(e)
  PROVE  Life(e)'
  <1> DEFINE ws == << <<"taskRun", TRUE>>, Set("CREATED"), <<"state", "INIT">>, <<"wait", "max">> >>
  <1>1. /\ ws \in Seq(Writes) /\ ws # <<>> /\ Head(ws) = <<"taskRun", TRUE>>
        /\ \A k \in DOMAIN ws : ws[k] \in Plain \cup Birth
    BY FirstWrites
  <1>2. pc[e] = "begin" /\ Then(e, "init", ws) /\ UNCHANGED <<el, cmdq, agenda, at>>
    BY DEF Begin, callVars
  <1> HIDE DEF ws
  <1>3. pc'[e] = "init" /\ todo'[e] = ws
    BY <1>1, <1>2, PlaceNames, ThenTypes
  <1>4. \A f, k, d : Caller(f, k, d)' <=> Caller(f, k, d)
    BY <1>2, CallerStays
  <1>5. /\ Caller("run", 2, e) /\ "CREATED" \notin el[e].bits
        /\ ~el[e].taskRun /\ ~el[e].stopping
    BY <1>2 DEF Life, Starts, Still
  <1>6. Still(e)' /\ Leaves(e)'
    BY <1>3 DEF Still, Leaves
  <1>7. Starts(e)'
    BY <1>1, <1>2, <1>3, <1>4, <1>5 DEF Starts
  <1>8. Works(e)'
    BY <1>3, PlaceNames DEF Works
  <1>9. Destroys(e)'
    <2>1. \A k \in DOMAIN cmdq[e] : cmdq[e][k] # "DESTROY"
      BY <1>2 DEF Life, Destroys
    <2>2. ~Caller("terminate", 3, e)
      BY <1>5, CallerUnique
    <2> QED
      BY <1>2, <1>4, <2>1, <2>2 DEF Destroys
  <1>10. Trusts(e)'
    <2>1. ~Caller("terminate", 2, e) /\ \A k \in 2 .. 6 : ~Caller("stop", k, e)
      BY <1>5, CallerUnique
    <2> QED
      BY <1>4, <2>1 DEF Trusts
  <1>11. Stops(e)'
    BY <1>2, <1>5 DEF Stops
  <1> QED
    BY <1>6, <1>7, <1>8, <1>9, <1>10, <1>11 DEF Life

\* It takes DESTROY, the last command it gets.
LEMMA DestroyLife ==
  ASSUME Shapes, NEW e \in Elements, Life(e), pc[e] \in {"wait", "blocked"},
         NEW ws, ExitSeq(ws), Then(e, "exit", ws), UNCHANGED <<el, agenda, at>>,
         cmdq[e] # <<>>, Head(cmdq[e]) = "DESTROY", cmdq' = [cmdq EXCEPT ![e] = Tail(@)]
  PROVE  Life(e)'
  <1>1. /\ ws \in Seq(Writes) /\ ws # <<>>
        /\ \A k \in DOMAIN ws : ws[k] \notin Birth /\ (ws[k] = Set("DESTROYED") <=> k = Len(ws))
        /\ Has(ws, <<"taskRun", FALSE>>) /\ Has(ws, StopDone)
    BY DEF ExitSeq
  <1>2. pc'[e] = "exit" /\ todo'[e] = ws
    BY <1>1, PlaceNames, ThenTypes
  <1>3. \A f, k, d : Caller(f, k, d)' <=> Caller(f, k, d)
    BY CallerStays
  <1>4. cmdq'[e] = Tail(cmdq[e]) /\ cmdq[e] \in Seq(Commands)
    BY DEF Shapes, TaskTypes
  <1>5. cmdq[e][1] = "DESTROY" /\ 1 \in DOMAIN cmdq[e] /\ Len(Tail(cmdq[e])) = Len(cmdq[e]) - 1
        /\ Tail(cmdq[e]) \in Seq(Commands)
    <2>1. DOMAIN cmdq[e] = 1 .. Len(cmdq[e]) /\ Len(cmdq[e]) \in Nat \ {0}
      BY <1>4, LenProperties, TailHas
    <2> QED
      BY <1>4, <2>1, TailHas, SMT
  <1>6. 1 = Len(cmdq[e]) /\ Caller("terminate", 3, e) /\ "DESTROYED" \notin el[e].bits
    BY <1>5 DEF Life, Destroys
  <1>7. DOMAIN Tail(cmdq[e]) = {}
    <2>1. DOMAIN Tail(cmdq[e]) = 1 .. Len(Tail(cmdq[e]))
      BY <1>5, LenProperties
    <2>2. Len(Tail(cmdq[e])) = 0
      BY <1>5, <1>6, SMT
    <2>3. 1 .. 0 = {}
      BY SMT
    <2> QED
      BY <2>1, <2>2, <2>3
  <1>8. Still(e)' /\ Starts(e)'
    BY <1>1, <1>2 DEF Still, Starts
  <1>9. Works(e)'
    BY <1>2, PlaceNames DEF Works
  <1>10. Leaves(e)'
    BY <1>1, <1>2, <1>3, <1>6 DEF Leaves
  <1>11. Destroys(e)'
    BY <1>2, <1>4, <1>7 DEF Destroys
  <1>12. Trusts(e)'
    <2>1. ~Caller("terminate", 2, e) /\ \A k \in 2 .. 6 : ~Caller("stop", k, e)
      BY <1>6, CallerUnique
    <2> QED
      BY <1>3, <2>1 DEF Trusts
  <1>13. Stops(e)'
    BY <1>1, <1>2 DEF Stops
  <1> QED
    BY <1>8, <1>9, <1>10, <1>11, <1>12, <1>13 DEF Life

\* vTaskDelete
LEMMA ExitLife ==
  ASSUME Shapes, NEW e \in Elements, Life(e), Exit(e)
  PROVE  Life(e)'
  <1>1. pc[e] = "exit" /\ todo[e] = <<>> /\ Then(e, "none", <<>>) /\ UNCHANGED <<el, cmdq, agenda, at>>
    BY DEF Exit, callVars
  <1>2. pc'[e] = "none" /\ todo'[e] = <<>>
    BY <1>1, PlaceNames, EmptySeq, ThenTypes
  <1>3. \A f, k, d : Caller(f, k, d)' <=> Caller(f, k, d)
    BY <1>1, CallerStays
  <1>4. ~el[e].taskRun /\ ~el[e].stopping
    BY <1>1 DEF Life, Still
  <1>5. Still(e)' /\ Starts(e)' /\ Leaves(e)'
    BY <1>1, <1>2, <1>4 DEF Still, Starts, Leaves
  <1>6. Works(e)'
    BY <1>2, PlaceNames DEF Works
  <1>7. Destroys(e)'
    <2>1. \A k \in DOMAIN cmdq[e] : cmdq[e][k] # "DESTROY"
      BY <1>1 DEF Life, Destroys
    <2>2. ~Uses(e)'
      BY <1>2 DEF Uses
    <2> QED
      BY <1>1, <2>1, <2>2 DEF Destroys
  <1>8. Trusts(e)'
    BY <1>1, <1>3 DEF Life, Trusts
  <1>9. Stops(e)'
    BY <1>1, <1>4 DEF Stops
  <1> QED
    BY <1>5, <1>6, <1>7, <1>8, <1>9 DEF Life

LEMMA TaskLife ==
  ASSUME Shapes, NEW e \in HasTask, Life(e), Task(e) \/ Fail(e), ~fault'
  PROVE  Life(e)'
  <1>1. e \in Elements
    BY ChainAssumption
  <1>2. \A r : OnStop(r) \in Seq(Plain) /\ Has(OnStop(r), StopDone) /\ OnError(r) \in Seq(Plain)
               /\ OnResume(r) \in Seq(Plain) /\ OnPause \in Seq(Plain) /\ Opened \in Seq(Plain)
    BY OnStopPlain, OtherHandlersPlain
  <1>3. <<>> \in Seq(Plain)
    BY EmptySeq
  <1> DEFINE Steps(c) ==
        \E p \in Loop : \E ws \in Seq(Plain) : Then(e, p, ws) /\ (c => Has(ws, StopDone))
  <1>4. \A c : \A p \in Loop : \A ws \in Seq(Plain) :
          Then(e, p, ws) /\ (c => Has(ws, StopDone)) => Steps(c)
    OBVIOUS
  <1>5. ASSUME Steps(FALSE), todo[e] = <<>>, pc[e] \in Loop \cup {"init"},
               UNCHANGED <<el, cmdq, agenda, at>>
        PROVE  Life(e)'
    <2>1. PICK p \in Loop, ws \in Seq(Plain) : Then(e, p, ws)
      BY <1>5
    <2> QED
      BY <1>1, <1>5, <2>1, LoopLife
  <1> HIDE DEF Steps
  <1>6. CASE Write(e)
    BY <1>6, WriteLife
  <1>7. CASE Begin(e)
    BY <1>1, <1>7, BeginLife
  <1>8. CASE Allocate(e)
    <2>1. Then(e, "wait", << Clear("STOPPED") >>)
      BY <1>8 DEF Allocate
    <2>2. << Clear("STOPPED") >> \in Seq(Plain)
      BY OrdinaryWrites, ShortSeqs
    <2>3. Steps(FALSE)
      BY <1>4, <2>1, <2>2, PlaceNames
    <2> QED
      BY <1>5, <1>8, <2>3 DEF Allocate
  <1>9. CASE Wait(e)
    <2>1. Steps(FALSE)
      BY <1>3, <1>4, <1>9, PlaceNames DEF Wait
    <2> QED
      BY <1>5, <1>9, <2>1, PlaceNames DEF Wait, callVars
  <1>10. CASE Command(e)
    <2>1. /\ pc[e] \in Loop /\ todo[e] = <<>> /\ cmdq[e] # <<>> /\ cmdq' = [cmdq EXCEPT ![e] = Tail(@)]
          /\ UNCHANGED <<el, agenda, at>>
      BY <1>10, PlaceNames DEF Command, callVars
    <2>2. CASE Head(cmdq[e]) = "DESTROY"
      <3>1. Then(e, "exit", << <<"isRunning", FALSE>>, Set("STOPPED") >> \o OnExit(el[e]))
        BY <1>10, <2>2 DEF Command
      <3>2. pc[e] \in {"wait", "blocked"}
        BY <1>10 DEF Command
      <3> QED
        BY <1>1, <2>1, <2>2, <3>1, <3>2, OnExitSeq, DestroyLife
    <2>3. CASE Head(cmdq[e]) # "DESTROY"
      <3>1. PICK p \in Loop, ws \in Seq(Plain) :
              Then(e, p, ws) /\ (Head(cmdq[e]) = "STOP" => Has(ws, StopDone))
        BY <1>2, <1>10, <2>3, PlaceNames DEF Command
      <3> QED
        BY <1>1, <2>1, <2>3, <3>1, LoopLife
    <2> QED
      BY <2>2, <2>3
  <1>11. CASE Open(e)
    <2>1. \A res : /\ OpenFailed(el[e], res) \o << Set("STOPPED") >> \in Seq(Plain)
                   /\ OpenFailed(el[e], res) \o << >> \in Seq(Plain)
      BY OpenFailedPlain
    <2>2. \A res : OpenFailed(el[e], res) \o (IF pc[e] = "open" THEN << Set("STOPPED") >> ELSE <<>>)
                     \in Seq(Plain)
      BY <2>1
    <2>3. (IF pc[e] = "open" THEN "process" ELSE "wait") \in Loop
      BY PlaceNames
    <2>4. Steps(FALSE)
      BY <1>2, <1>4, <1>11, <2>2, <2>3 DEF Open
    <2> QED
      BY <1>5, <1>11, <2>4, PlaceNames DEF Open, callVars
  <1>12. CASE Process(e)
    <2>1. Steps(FALSE)
      BY <1>3, <1>4, <1>12, PlaceNames DEF Process
    <2> QED
      BY <1>5, <1>12, <2>1, PlaceNames DEF Process, callVars
  <1>13. CASE Busy(e)
    <2>1. << <<"rings", "done">> >> \o OnFinish(el[e]) \in Seq(Plain)
      BY OpenFailedPlain
    <2>2. Steps(FALSE)
      BY <1>2, <1>3, <1>4, <1>13, <2>1, PlaceNames DEF Busy
    <2> QED
      BY <1>5, <1>13, <2>2, PlaceNames DEF Busy, callVars
  <1>14. CASE Fail(e)
    <2>1. Steps(FALSE)
      BY <1>2, <1>4, <1>14, PlaceNames DEF Fail
    <2> QED
      BY <1>5, <1>14, <2>1, PlaceNames DEF Fail, callVars
  <1>15. CASE Exit(e)
    BY <1>1, <1>15, ExitLife
  <1> QED
    BY <1>6, <1>7, <1>8, <1>9, <1>10, <1>11, <1>12, <1>13, <1>14, <1>15 DEF Task

\* The other elements' tasks.
LEMMA SameLife ==
  ASSUME NEW e, Life(e), el'[e] = el[e], cmdq'[e] = cmdq[e], pc'[e] = pc[e], todo'[e] = todo[e],
         UNCHANGED <<agenda, at>>
  PROVE  Life(e)'
  <1>1. \A f, k, d : Caller(f, k, d)' <=> Caller(f, k, d)
    BY CallerStays
  <1>2. Uses(e)' <=> Uses(e)
    BY DEF Uses
  <1>3. Still(e)' /\ Starts(e)' /\ Works(e)'
    BY <1>1 DEF Life, Still, Starts, Works
  <1>4. Leaves(e)' /\ Destroys(e)'
    BY <1>1, <1>2 DEF Life, Leaves, Destroys
  <1>5. Trusts(e)' /\ Stops(e)'
    BY <1>1 DEF Life, Trusts, Stops
  <1> QED
    BY <1>3, <1>4, <1>5 DEF Life

LEMMA TaskElsewhere ==
  ASSUME Shapes, NEW d \in HasTask, Task(d) \/ Fail(d), NEW e \in HasTask, e # d
  PROVE  pc'[e] = pc[e] /\ todo'[e] = todo[e]
  <1>1. d \in Elements /\ e \in Elements
    BY ChainAssumption
  <1>2. CASE Write(d)
    BY <1>1, <1>2 DEF Write, Shapes, TaskTypes
  <1>3. CASE ~Write(d)
    <2>1. PICK p \in Places, ws \in Seq(Writes) : Then(d, p, ws)
      BY <1>3, TaskMoves DEF Task
    <2> QED
      BY <1>1, <2>1, ThenTypes
  <1> QED
    BY <1>2, <1>3

LEMMA TaskStepLife ==
  ASSUME Shapes, LifeInv, NEW d \in HasTask, Task(d) \/ Fail(d)
  PROVE  LifeInv'
  <1> SUFFICES ASSUME ~fault', NEW e \in HasTask PROVE Life(e)'
    BY DEF LifeInv
  <1>1. ~fault
    BY DEF Task, Write, Begin, Allocate, Wait, Command, Open, Process, Busy, Fail, Exit, callVars
  <1>2. Life(e)
    BY <1>1 DEF LifeInv
  <1>3. CASE e = d
    BY <1>2, <1>3, TaskLife
  <1>4. CASE e # d
    <2>1. d \in Elements /\ e \in Elements
      BY ChainAssumption
    <2>2. UNCHANGED <<agenda, at>>
      BY DEF Task, Write, Begin, Allocate, Wait, Command, Open, Process, Busy, Fail, Exit, callVars
    <2>3. el'[e] = el[e]
      BY <1>4, <2>1 DEF Shapes, TaskTypes, Task, Write, Begin, Allocate, Wait, Command, Open, Process,
                        Busy, Fail, Exit
    <2>4. cmdq'[e] = cmdq[e]
      BY <1>4, <2>1 DEF Shapes, TaskTypes, Task, Write, Begin, Allocate, Wait, Command, Open, Process,
                        Busy, Fail, Exit
    <2>5. pc'[e] = pc[e] /\ todo'[e] = todo[e]
      BY <1>4, TaskElsewhere
    <2> QED
      BY <1>2, <2>2, <2>3, <2>4, <2>5, SameLife
  <1> QED
    BY <1>3, <1>4

-----------------------------------------------------------------------------
\* The caller's steps and the lives of the tasks.
LEMMA InvolvedAt ==
  ASSUME NEW e
  PROVE  Involved(e) => agenda # <<>> /\ at # 1 /\ Callee = e
  <1>1. \A k \in 2 .. 6 : k # 1
    BY SMT
  <1> QED
    BY <1>1 DEF Involved, Caller, At

LEMMA InvolvedAtNext ==
  ASSUME NEW e
  PROVE  Involved(e)' => agenda' # <<>> /\ at' # 1 /\ Callee' = e
  <1>1. \A k \in 2 .. 6 : k # 1
    BY SMT
  <1> QED
    BY <1>1 DEF Involved, Caller, At

\* Faults are remembered.
LEMMA FaultStays ==
  ASSUME [Next]_vars, fault = TRUE
  PROVE  fault' = TRUE
  <1>1. CASE Operation
    BY <1>1 DEF Operation, PipelineRun, PipelineResume, PipelinePause, PipelineStop,
                PipelineWaitForStop, PipelineTerminate, PipelineReset, PipelineDeinit, Start
  <1>2. CASE ElementCall
    <2>1. fault' = fault \/ fault' = TRUE
      BY <1>2, Zenon DEF ElementCall, ElementRun, ElementResume, ElementPause, ElementStop, ElementWait,
         ElementReset, ElementTerminate, ElementFree, Goto, Return, ReturnFail, GiveUp, GiveUpFail,
         Leave, Waited
    <2> QED
      BY <2>1
  <1>3. CASE Between
    BY <1>3 DEF Between
  <1>4. CASE Drain \/ Gone \/ UNCHANGED vars
    BY <1>4 DEF Drain, Gone, vars, callVars
  <1>5. ASSUME NEW e \in HasTask, Task(e) \/ Fail(e)
        PROVE  fault' = TRUE
    <2>1. fault' = fault \/ fault' = TRUE
      BY <1>5 DEF Task, Write, Begin, Allocate, Wait, Command, Open, Process, Busy, Fail, Exit, callVars
    <2> QED
      BY <2>1
  <1> QED
    BY <1>1, <1>2, <1>3, <1>4, <1>5 DEF Next

\* Where the caller goes.
LEMMA GotoCaller ==
  ASSUME NEW f, NEW k, NEW e, Caller(f, k, e), NEW j, Goto(j)
  PROVE  \A g, i, d : Caller(g, i, d)' <=> g = f /\ i = j /\ d = e
  BY DEF Goto, Caller, At, Callee

LEMMA LeaveCaller ==
  ASSUME Return \/ ReturnFail \/ GiveUp \/ GiveUpFail
  PROVE  /\ at' = 1 /\ agenda' = Tail(agenda)
         /\ \A e : ~Involved(e)'
         /\ \A e : ~Caller("terminate", 3, e)' /\ ~Caller("terminate", 2, e)'
         /\ \A e : \A k \in 2 .. 6 : ~Caller("stop", k, e)'
         /\ \A e : Trusts(e)'
         /\ GiveUp \/ GiveUpFail => fault'
  <1>1. at' = 1 /\ agenda' = Tail(agenda) /\ (GiveUp \/ GiveUpFail => fault')
    BY DEF Return, ReturnFail, GiveUp, GiveUpFail, Leave
  <1>2. \A f, e : \A k \in 2 .. 6 : ~Caller(f, k, e)'
    <2>1. \A k \in 2 .. 6 : k # 1
      BY SMT
    <2> QED
      BY <1>1, <2>1 DEF Caller, At
  <1>3. 2 \in 2 .. 6 /\ 3 \in 2 .. 6
    BY SMT
  <1>4. \A e : ~Caller("terminate", 3, e)' /\ ~Caller("terminate", 2, e)'
    BY <1>2, <1>3
  <1>5. \A e : Trusts(e)'
    BY <1>2, <1>4 DEF Trusts
  <1>6. \A e : ~Involved(e)'
    BY <1>2 DEF Involved
  <1> QED
    BY <1>1, <1>2, <1>4, <1>5, <1>6

\* audio_element_run
LEMMA RunLife ==
  ASSUME Shapes, ElementRun, NEW e \in HasTask, Callee = e, Life(e), ~fault'
  PROVE  Life(e)'
  <1>1. e \in Elements /\ agenda # <<>> /\ el[e] \in Record
    BY ChainAssumption DEF ElementRun, At, Shapes, TaskTypes
  <1>2. CASE At("run", 1)
    <2>1. Caller("run", 1, e) /\ at = 1
      BY <1>2 DEF Caller, At
    <2>2. ~Involved(e)
      BY <2>1, InvolvedAt
    <2>3. CASE Return /\ UNCHANGED <<el, taskVars, ring, live>>
      BY <1>1, <2>2, <2>3, LeaveCaller, UninvolvedStep DEF taskVars
    <2>4. CASE /\ ~el[e].taskRun /\ ~Uses(e) /\ cmdq' = [cmdq EXCEPT ![e] = <<>>]
               /\ Without("CREATED") /\ Then(e, "begin", <<>>) /\ Goto(2)
      <3>1. pc'[e] = "begin" /\ todo'[e] = <<>> /\ cmdq'[e] = <<>>
        BY <1>1, <2>4, PlaceNames, EmptySeq, ThenTypes DEF Shapes, TaskTypes
      <3>2. /\ ~el'[e].taskRun /\ el'[e].stopping = el[e].stopping /\ "CREATED" \notin el'[e].bits
        <4>1. el'[e] = [el[e] EXCEPT !.bits = @ \ {"CREATED"}]
          BY <1>1, <2>4 DEF Without, Update, Shapes, TaskTypes
        <4>2. el[e].bits \ {"CREATED"} \in SUBSET Bits /\ "INIT" \in States /\ "zero" \in {"zero", "max"}
          BY <1>1, StateNames DEF Record
        <4> QED
          BY <1>1, <2>4, <4>1, <4>2, FieldUpdates
      <3>3. ~el[e].stopping
        <4>1. pc[e] = "none" \/ (pc[e] = "exit" /\ todo[e] = <<>>)
          BY <2>4 DEF Uses
        <4> QED
          BY <4>1 DEF Life, Still
      <3>4. \A g, i, d : Caller(g, i, d)' <=> g = "run" /\ i = 2 /\ d = e
        BY <2>1, <2>4, GotoCaller
      <3>5. Still(e)' /\ Starts(e)' /\ Leaves(e)' /\ Works(e)'
        BY <3>1, <3>2, <3>3, <3>4, PlaceNames DEF Still, Starts, Leaves, Works
      <3>6. Destroys(e)'
        <4>1. ~Caller("terminate", 3, e)'
          BY <3>4
        <4>2. DOMAIN <<>> = {}
          OBVIOUS
        <4> QED
          BY <3>1, <4>1, <4>2 DEF Destroys
      <3>7. Trusts(e)' /\ Stops(e)'
        BY <3>2, <3>3, <3>4 DEF Trusts, Stops
      <3> QED
        BY <3>5, <3>6, <3>7 DEF Life
    <2>5. ~GiveUp
      BY LeaveCaller
    <2>6. ~At("run", 2)
      BY <1>2 DEF At
    <2> QED
      BY <1>2, <2>3, <2>4, <2>5, <2>6 DEF ElementRun
  <1>3. CASE At("run", 2)
    <2>1. Seen("CREATED") /\ Return /\ UNCHANGED <<el, taskVars, ring, live>>
      BY <1>3, LeaveCaller DEF ElementRun, At, Waited
    <2>2. Caller("run", 2, e) /\ "CREATED" \in el[e].bits
      BY <1>3, <2>1 DEF Caller, Seen
    <2>3. Settled(e)
      <3>1. ~Caller("terminate", 3, e)
        BY <2>2, CallerUnique
      <3>2. pc[e] # "begin" /\ (pc[e] = "init" => el[e].taskRun)
        BY <2>2 DEF Life, Starts
      <3>3. pc[e] = "exit" => todo[e] = <<>>
        BY <3>1 DEF Life, Leaves
      <3>4. ~Has(cmdq[e], "DESTROY")
        BY <3>1 DEF Life, Destroys, Has
      <3> QED
        BY <3>2, <3>3, <3>4, SettledFromLife
    <2>4. Settled(e)'
      BY <2>1, <2>3, SettledStep DEF taskVars, Settled
    <2>5. Stops(e)'
      <3>1. ~Caller("stop", 6, e)
        BY <2>2, CallerUnique
      <3> QED
        BY <2>1, <3>1 DEF Life, Stops, taskVars
    <2> QED
      BY <2>1, <2>4, <2>5, LeaveCaller, LifeFromSettledNext
  <1> QED
    BY <1>2, <1>3 DEF ElementRun

LEMMA UpdatedRecord ==
  ASSUME Shapes, NEW e \in Elements, Callee = e, NEW r, Update(r)
  PROVE  el'[e] = r
  BY DEF Update, Shapes, TaskTypes

\* With and Without keep what the life of the task depends on.
LEMMA BitsKept ==
  ASSUME Shapes, NEW e \in Elements, Callee = e, NEW b \in Bits, With(b) \/ Without(b)
  PROVE  el'[e].taskRun = el[e].taskRun /\ el'[e].stopping = el[e].stopping
         /\ (Without(b) => b \notin el'[e].bits)
  <1>1. el[e] \in Record
    BY DEF Shapes, TaskTypes
  <1>2. el[e].bits \cup {b} \in SUBSET Bits /\ el[e].bits \ {b} \in SUBSET Bits
    BY <1>1 DEF Record
  <1>3. "INIT" \in States /\ TRUE \in BOOLEAN /\ "zero" \in {"zero", "max"}
    BY StateNames
  <1>4. /\ With(b) => el'[e] = [el[e] EXCEPT !.bits = @ \cup {b}]
        /\ Without(b) => el'[e] = [el[e] EXCEPT !.bits = @ \ {b}]
    BY UpdatedRecord DEF With, Without
  <1>5. /\ [el[e] EXCEPT !.bits = @ \cup {b}].taskRun = el[e].taskRun
        /\ [el[e] EXCEPT !.bits = @ \cup {b}].stopping = el[e].stopping
        /\ [el[e] EXCEPT !.bits = @ \ {b}].taskRun = el[e].taskRun
        /\ [el[e] EXCEPT !.bits = @ \ {b}].stopping = el[e].stopping
        /\ [el[e] EXCEPT !.bits = @ \ {b}].bits = el[e].bits \ {b}
    BY <1>1, <1>2, <1>3, FieldUpdates
  <1> QED
    BY <1>4, <1>5

LEMMA StateKept ==
  ASSUME Shapes, NEW e \in Elements, Callee = e, NEW s \in States, NEW m \in {"zero", "max"}, NEW v \in BOOLEAN
  PROVE  /\ Update([el[e] EXCEPT !.state = s]) =>
              el'[e].taskRun = el[e].taskRun /\ el'[e].stopping = el[e].stopping
         /\ Update([el[e] EXCEPT !.wait = m]) =>
              el'[e].taskRun = el[e].taskRun /\ el'[e].stopping = el[e].stopping
         /\ Update([el[e] EXCEPT !.stopping = v]) =>
              el'[e].taskRun = el[e].taskRun /\ el'[e].stopping = v
  <1>1. el[e] \in Record /\ {} \in SUBSET Bits
    BY DEF Shapes, TaskTypes
  <1>2. ASSUME Update([el[e] EXCEPT !.state = s])
        PROVE  el'[e].taskRun = el[e].taskRun /\ el'[e].stopping = el[e].stopping
    <2>1. el'[e] = [el[e] EXCEPT !.state = s]
      BY <1>2, UpdatedRecord
    <2> QED
      BY <1>1, <2>1, FieldUpdates
  <1>3. ASSUME Update([el[e] EXCEPT !.wait = m])
        PROVE  el'[e].taskRun = el[e].taskRun /\ el'[e].stopping = el[e].stopping
    <2>1. el'[e] = [el[e] EXCEPT !.wait = m]
      BY <1>3, UpdatedRecord
    <2> QED
      BY <1>1, <2>1, FieldUpdates
  <1>4. ASSUME Update([el[e] EXCEPT !.stopping = v])
        PROVE  el'[e].taskRun = el[e].taskRun /\ el'[e].stopping = v
    <2>1. el'[e] = [el[e] EXCEPT !.stopping = v]
      BY <1>4, UpdatedRecord
    <2> QED
      BY <1>1, <2>1, FieldUpdates
  <1> QED
    BY <1>2, <1>3, <1>4

\* audio_element_stop: from the moment it has seen task_run to its return nobody ends the task.
LEMMA StopLife ==
  ASSUME Shapes, ElementStop, NEW e \in HasTask, Callee = e, Life(e), ~fault'
  PROVE  Life(e)'
  <1>1. e \in Elements /\ agenda # <<>> /\ el[e] \in Record /\ cmdq[e] \in Seq(Commands)
    BY ChainAssumption DEF ElementStop, At, Shapes, TaskTypes
  <1>2. PICK k \in 1 .. 6 : Caller("stop", k, e)
    <2>1. 1 \in 1 .. 6 /\ 2 \in 1 .. 6 /\ 3 \in 1 .. 6 /\ 4 \in 1 .. 6 /\ 5 \in 1 .. 6 /\ 6 \in 1 .. 6
      BY SMT
    <2>2. \A k \in 1 .. 6 : At("stop", k) => Caller("stop", k, e)
      BY DEF Caller
    <2> QED
      BY <2>1, <2>2, Zenon DEF ElementStop
  <1>3. Settled(e) /\ (k # 1 => el[e].taskRun) /\ ~Caller("terminate", 3, e)
    <2>1. ~Caller("run", 2, e) /\ ~Caller("terminate", 3, e)
      BY <1>2, CallerUnique
    <2>2. k # 1 => k \in 2 .. 6
      BY SMT
    <2> QED
      BY <1>2, <2>1, <2>2, SettledUnlessCalled DEF Life, Trusts
  <1>4. pc' = pc /\ todo' = todo
    BY DEF ElementStop
  <1>5. \A j : Goto(j) => /\ \A d : ~Caller("terminate", 3, d)' /\ ~Caller("terminate", 2, d)'
                          /\ Caller("stop", 6, e)' <=> j = 6
    BY <1>2, GotoCaller
  \* The steps that leave the flag and the queue alone.
  <1>6. ASSUME el'[e].taskRun = el[e].taskRun, el'[e].stopping = el[e].stopping, cmdq' = cmdq,
               (\E j : Goto(j)) => el[e].taskRun,
               (\E j : Goto(j)) \/ Return,
               k # 6
        PROVE  Life(e)'
    <2>1. Settled(e)'
      BY <1>3, <1>4, <1>6, SettledStep DEF Settled
    <2>2. Stops(e)'
      <3>1. ~Caller("stop", 6, e)
        BY <1>2, <1>6, CallerUnique
      <3> QED
        BY <1>4, <1>6, <3>1 DEF Life, Stops
    <2>3. Trusts(e)' /\ ~Caller("terminate", 3, e)'
      <3>1. CASE Return
        BY <3>1, LeaveCaller
      <3>2. CASE \E j : Goto(j)
        BY <1>5, <1>6, <3>2 DEF Trusts
      <3> QED
        BY <1>6, <3>1, <3>2
    <2> QED
      BY <2>1, <2>2, <2>3, LifeFromSettledNext
  <1>7. "STOPPED" \in Bits
    BY DEF Bits
  <1>8. At("stop", k) /\ \A j : At("stop", j) => j = k
    BY <1>2 DEF Caller, At
  <1>9. CASE k = 1
    <2>1. /\ cmdq' = cmdq
          /\ \/ Return /\ UNCHANGED el
             \/ /\ el[e].taskRun /\ Goto(2)
                /\ Update(IF el[e].state = "PAUSED" THEN [el[e] EXCEPT !.wait = "zero"] ELSE el[e])
      BY <1>8, <1>9 DEF ElementStop
    <2>3. CASE Return /\ UNCHANGED el
      <3>1. Settled(e)'
        BY <1>3, <1>4, <2>1, <2>3, SettledStep DEF Settled
      <3>2. Stops(e)'
        <4>1. ~Caller("stop", 6, e)
          BY <1>2, <1>9, CallerUnique
        <4> QED
          BY <1>4, <2>1, <2>3, <4>1 DEF Life, Stops
      <3> QED
        BY <2>3, <3>1, <3>2, LeaveCaller, LifeFromSettledNext
    <2>4. CASE /\ el[e].taskRun /\ Goto(2)
               /\ Update(IF el[e].state = "PAUSED" THEN [el[e] EXCEPT !.wait = "zero"] ELSE el[e])
      <3>1. el'[e].taskRun = el[e].taskRun /\ el'[e].stopping = el[e].stopping
        <4>1. CASE el[e].state = "PAUSED"
          <5>1. "INIT" \in States /\ TRUE \in BOOLEAN
            BY StateNames
          <5>2. Update([el[e] EXCEPT !.wait = "zero"])
            BY <2>4, <4>1
          <5> QED
            BY <1>1, <5>1, <5>2, StateKept
        <4>2. CASE el[e].state # "PAUSED"
          BY <1>1, <2>4, <4>2, UpdatedRecord
        <4> QED
          BY <4>1, <4>2
      <3> QED
        BY <1>6, <1>9, <2>1, <2>4, <3>1
    <2> QED
      BY <2>1, <2>3, <2>4
  <1>10. CASE k = 2
    <2>1. /\ cmdq' = cmdq
          /\ (With("STOPPED") /\ Return) \/ (Goto(3) /\ UNCHANGED el)
      BY <1>8, <1>10 DEF ElementStop
    <2>2. el'[e].taskRun = el[e].taskRun /\ el'[e].stopping = el[e].stopping
      BY <1>1, <1>7, <2>1, BitsKept
    <2> QED
      BY <1>3, <1>6, <1>10, <2>1, <2>2
  <1>11. CASE k = 3
    <2>1. cmdq' = cmdq /\ UNCHANGED el /\ Goto(IF el[e].state = "RUNNING" THEN 4 ELSE 5)
      BY <1>8, <1>11 DEF ElementStop
    <2> QED
      BY <1>3, <1>6, <1>11, <2>1
  <1>12. CASE k = 4
    <2>1. cmdq' = cmdq /\ Without("STOPPED") /\ Goto(5)
      BY <1>8, <1>12 DEF ElementStop
    <2>2. el'[e].taskRun = el[e].taskRun /\ el'[e].stopping = el[e].stopping
      BY <1>1, <1>7, <2>1, BitsKept
    <2> QED
      BY <1>3, <1>6, <1>12, <2>1, <2>2
  <1>13. CASE k = 5
    <2>1. /\ cmdq' = cmdq
          /\ \/ Return /\ UNCHANGED el
             \/ Update([el[e] EXCEPT !.stopping = TRUE]) /\ Goto(6)
      BY <1>8, <1>13 DEF ElementStop
    <2>2. CASE Return /\ UNCHANGED el
      BY <1>3, <1>6, <1>13, <2>1, <2>2
    <2>3. CASE Update([el[e] EXCEPT !.stopping = TRUE]) /\ Goto(6)
      <3>1. el'[e].taskRun = el[e].taskRun
        <4>1. "INIT" \in States /\ "zero" \in {"zero", "max"} /\ TRUE \in BOOLEAN
          BY StateNames
        <4> QED
          BY <1>1, <2>3, <4>1, StateKept
      <3>2. Settled(e)'
        BY <1>3, <1>4, <1>13, <2>1, <3>1, SettledStep DEF Settled
      <3>3. Stops(e)'
        BY <1>5, <2>3 DEF Stops
      <3>4. Trusts(e)' /\ ~Caller("terminate", 3, e)'
        BY <1>3, <1>5, <1>13, <2>3, <3>1 DEF Trusts
      <3> QED
        BY <3>2, <3>3, <3>4, LifeFromSettledNext
    <2> QED
      BY <2>1, <2>2, <2>3
  <1>14. CASE k = 6
    <2>1. SendCmd("STOP") /\ Return /\ UNCHANGED el
      BY <1>8, <1>14, LeaveCaller DEF ElementStop
    <2>2. cmdq'[e] = Append(cmdq[e], "STOP")
      BY <1>1, <2>1 DEF SendCmd, Shapes, TaskTypes
    <2>3. "STOP" \in Commands
      BY DEF Commands
    <2>4. Has(cmdq'[e], "STOP") /\ ~Has(cmdq'[e], "DESTROY")
      BY <1>1, <1>3, <2>2, <2>3, AppendNew DEF Settled
    <2>5. Settled(e)'
      BY <1>3, <1>4, <2>1, <2>4, SettledStep
    <2>6. Stops(e)'
      BY <2>4 DEF Stops
    <2> QED
      BY <2>1, <2>5, <2>6, LeaveCaller, LifeFromSettledNext
  <1>15. k = 1 \/ k = 2 \/ k = 3 \/ k = 4 \/ k = 5 \/ k = 6
    BY <1>2, SMT
  <1> QED
    BY <1>9, <1>10, <1>11, <1>12, <1>13, <1>14, <1>15

\* audio_element_terminate: when it returns, the task is gone.
LEMMA TerminateLife ==
  ASSUME Shapes, ElementTerminate, NEW e \in HasTask, Callee = e, Life(e), ~fault'
  PROVE  Life(e)' /\ (at' = 1 => ~Uses(e))
  <1>1. e \in Elements /\ agenda # <<>> /\ el[e] \in Record /\ cmdq[e] \in Seq(Commands)
    BY ChainAssumption DEF ElementTerminate, At, Shapes, TaskTypes
  <1>2. pc' = pc /\ todo' = todo
    BY DEF ElementTerminate
  <1>3. CASE At("terminate", 1)
    <2>1. Caller("terminate", 1, e)
      BY <1>3 DEF Caller
    <2>2. /\ UNCHANGED <<el, cmdq>>
          /\ (~el[e].taskRun /\ Return) \/ (el[e].taskRun /\ Goto(2))
      BY <1>3 DEF ElementTerminate, At
    <2>3. ~Caller("run", 2, e) /\ ~Caller("terminate", 3, e) /\ ~Caller("stop", 6, e)
      BY <2>1, CallerUnique
    <2>4. Settled(e) /\ Settled(e)'
      BY <1>2, <2>2, <2>3, SettledUnlessCalled, SettledStep DEF Settled
    <2>5. Stops(e)'
      BY <1>2, <2>2, <2>3 DEF Life, Stops
    <2>6. Trusts(e)' /\ ~Caller("terminate", 3, e)'
      BY <2>1, <2>2, LeaveCaller, GotoCaller DEF Trusts
    <2>7. at' = 1 => ~Uses(e)
      <3>1. at' = 1 => ~el[e].taskRun
        BY <2>2 DEF Goto
      <3>2. ~el[e].taskRun => pc[e] \in {"none", "exit"}
        BY <1>1, <2>4 DEF Settled, Works, Shapes, TaskTypes, Places
      <3> QED
        BY <2>4, <3>1, <3>2 DEF Settled, Uses
    <2> QED
      BY <2>4, <2>5, <2>6, <2>7, LifeFromSettledNext
  <1>4. CASE At("terminate", 2)
    <2>1. Caller("terminate", 2, e)
      BY <1>4 DEF Caller
    <2>2. Without("DESTROYED") /\ SendCmd("DESTROY") /\ Goto(3)
      BY <1>4, LeaveCaller DEF ElementTerminate, At
    <2>3. ~Caller("run", 2, e) /\ ~Caller("terminate", 3, e) /\ ~Caller("stop", 6, e)
      BY <2>1, CallerUnique
    <2>4. Settled(e) /\ el[e].taskRun
      BY <2>1, <2>3, SettledUnlessCalled DEF Life, Trusts
    <2>5. pc[e] \notin {"none", "begin", "exit"}
      BY <2>4 DEF Settled
    <2>6. /\ el'[e].taskRun /\ el'[e].stopping = el[e].stopping /\ "DESTROYED" \notin el'[e].bits
      <3>1. "DESTROYED" \in Bits
        BY DEF Bits
      <3> QED
        BY <1>1, <2>2, <2>4, <3>1, BitsKept
    <2>7. cmdq'[e] = Append(cmdq[e], "DESTROY")
      BY <1>1, <2>2 DEF SendCmd, Shapes, TaskTypes
    <2>8. "DESTROY" \in Commands
      BY DEF Commands
    <2>9. \A g, i, d : Caller(g, i, d)' <=> g = "terminate" /\ i = 3 /\ d = e
      BY <2>1, <2>2, GotoCaller
    <2>10. Still(e)' /\ Starts(e)' /\ Leaves(e)'
      BY <1>2, <2>4, <2>5, <2>6 DEF Settled, Still, Starts, Leaves
    <2>11. Works(e)'
      BY <1>2, <2>4, <2>6 DEF Settled, Works
    <2>12. Destroys(e)'
      <3>1. ASSUME NEW k \in DOMAIN cmdq'[e], cmdq'[e][k] = "DESTROY"
            PROVE  k = Len(cmdq'[e])
        <4>1. k \in DOMAIN cmdq[e] \/ k = Len(cmdq[e]) + 1
          <5>1. Len(cmdq[e]) \in Nat
            BY <1>1, LenProperties
          <5> QED
            BY <1>1, <2>7, <2>8, <3>1, <5>1, AppendHas, SMT
        <4>2. k \notin DOMAIN cmdq[e]
          BY <1>1, <2>4, <2>7, <2>8, <3>1, AppendHas DEF Settled, Has
        <4> QED
          BY <1>1, <2>7, <2>8, <4>1, <4>2, AppendHas
      <3>2. Has(cmdq'[e], "DESTROY")
        BY <1>1, <2>7, <2>8, AppendNew
      <3> QED
        BY <1>2, <2>5, <2>6, <2>9, <3>1, <3>2 DEF Destroys
    <2>13. Trusts(e)'
      BY <2>9 DEF Trusts
    <2>14. Stops(e)'
      BY <1>1, <1>2, <2>3, <2>6, <2>7, <2>8, AppendNew DEF Life, Stops
    <2>15. at' # 1
      BY <2>2 DEF Goto
    <2> QED
      BY <2>10, <2>11, <2>12, <2>13, <2>14, <2>15 DEF Life
  <1>5. CASE At("terminate", 3)
    <2>1. Caller("terminate", 3, e)
      BY <1>5 DEF Caller
    <2>2. "DESTROYED" \in el[e].bits /\ Return /\ UNCHANGED <<el, cmdq>>
      BY <1>5, LeaveCaller DEF ElementTerminate, At, Waited, Seen
    <2>3. ~Caller("run", 2, e) /\ ~Caller("stop", 6, e)
      BY <2>1, CallerUnique
    <2>4. ~Has(cmdq[e], "DESTROY") /\ (pc[e] = "exit" => todo[e] = <<>>)
      BY <2>2 DEF Life, Destroys, Leaves, Has
    <2>5. ~Uses(e)
      BY <2>1, <2>4 DEF Life, Destroys, Uses
    <2>6. Settled(e)
      BY <2>3, <2>4, SettledFromLife DEF Life, Starts
    <2>7. Settled(e)'
      BY <1>2, <2>2, <2>6, SettledStep DEF Settled
    <2>8. Stops(e)'
      BY <1>2, <2>2, <2>3 DEF Life, Stops
    <2> QED
      BY <2>2, <2>5, <2>7, <2>8, LeaveCaller, LifeFromSettledNext
  <1> QED
    BY <1>3, <1>4, <1>5 DEF ElementTerminate

\* The other element functions write no field of the life of the task.
LEMMA OtherLife ==
  ASSUME Shapes, NEW e \in HasTask, Callee = e, Life(e),
         ElementResume \/ ElementPause \/ ElementWait \/ ElementReset \/ ElementFree
  PROVE  Life(e)'
  <1>1. e \in Elements /\ agenda # <<>>
    BY ChainAssumption DEF ElementResume, ElementPause, ElementWait, ElementReset, ElementFree, At
  <1>2. Head(agenda)[1] \in {"resume", "pause", "wait", "wait_ms", "reset_rings", "reset_state", "free"}
    BY DEF ElementResume, ElementPause, ElementWait, ElementReset, ElementFree, At
  <1>3. ~Involved(e)
    BY <1>2 DEF Involved, Caller, At
  <1>4. ~Involved(e)'
    <2>1. (\E k \in 1 .. 6 : Goto(k)) \/ Return \/ ReturnFail \/ GiveUp \/ GiveUpFail
      BY CallMoves DEF ElementCall
    <2>2. ASSUME NEW k, Goto(k) PROVE ~Involved(e)'
      BY <1>2, <2>2 DEF Goto, Involved, Caller, At
    <2> QED
      BY <2>1, <2>2, LeaveCaller
  <1>5. pc' = pc /\ todo' = todo
    BY DEF ElementResume, ElementPause, ElementWait, ElementReset, ElementFree, taskVars
  <1>6. \/ cmdq' = cmdq
        \/ \E c \in {"RESUME", "PAUSE"} : SendCmd(c)
    BY Zenon DEF ElementResume, ElementPause, ElementWait, ElementReset, ElementFree, taskVars
  <1>7. cmdq'[e] = cmdq[e] \/ \E c \in Commands \ {"DESTROY"} : cmdq'[e] = Append(cmdq[e], c)
    <2>1. {"RESUME", "PAUSE"} \subseteq Commands \ {"DESTROY"}
      BY DEF Commands
    <2>2. \A c : SendCmd(c) => cmdq'[e] = Append(cmdq[e], c)
      BY <1>1 DEF SendCmd, Shapes, TaskTypes
    <2> QED
      BY <1>6, <2>1, <2>2
  <1>8. \/ UNCHANGED el
        \/ \E b \in {"RESUMED", "PAUSED"} : Without(b)
        \/ \E s \in {"PAUSED", "INIT"} : Update([el[e] EXCEPT !.state = s])
    BY Zenon DEF ElementResume, ElementPause, ElementWait, ElementReset, ElementFree
  <1>9. el'[e].taskRun = el[e].taskRun /\ el'[e].stopping = el[e].stopping
    <2>1. \A b \in {"RESUMED", "PAUSED"} : b \in Bits
      BY DEF Bits
    <2>2. \A s \in {"PAUSED", "INIT"} : s \in States
      BY StateNames
    <2>3. ASSUME NEW b \in {"RESUMED", "PAUSED"}, Without(b)
          PROVE  el'[e].taskRun = el[e].taskRun /\ el'[e].stopping = el[e].stopping
      BY <1>1, <2>1, <2>3, BitsKept
    <2>4. ASSUME NEW s \in {"PAUSED", "INIT"}, Update([el[e] EXCEPT !.state = s])
          PROVE  el'[e].taskRun = el[e].taskRun /\ el'[e].stopping = el[e].stopping
      <3>1. "zero" \in {"zero", "max"} /\ TRUE \in BOOLEAN
        OBVIOUS
      <3> QED
        BY <1>1, <2>2, <2>4, <3>1, StateKept
    <2> QED
      BY <1>8, <2>3, <2>4
  <1> QED
    BY <1>1, <1>3, <1>4, <1>5, <1>7, <1>9, UninvolvedStep

\* A call concerns one element.
LEMMA CallElsewhere ==
  ASSUME Shapes, ElementCall, NEW e \in HasTask, Callee # e, Life(e)
  PROVE  Life(e)'
  <1>1. e \in Elements /\ Callee \in Elements /\ agenda # <<>>
    BY ChainAssumption, CallStays, CalleeTypes
  <1>2. ~Involved(e)
    BY InvolvedAt
  <1>3. ~Involved(e)'
    <2>1. (\E k \in 1 .. 6 : Goto(k)) \/ Return \/ ReturnFail \/ GiveUp \/ GiveUpFail
      BY CallMoves
    <2>2. ASSUME NEW k, Goto(k) PROVE ~Involved(e)'
      BY <2>2 DEF Goto, Involved, Caller, Callee
    <2> QED
      BY <2>1, <2>2, LeaveCaller
  <1>4. el'[e] = el[e]
    <2>1. el' = el \/ \E r : Update(r)
      BY Zenon DEF ElementCall, ElementRun, ElementResume, ElementPause, ElementStop, ElementWait,
         ElementReset, ElementTerminate, ElementFree, With, Without
    <2> QED
      BY <1>1, <2>1 DEF Update, Shapes, TaskTypes
  <1>5. cmdq'[e] = cmdq[e] /\ pc'[e] = pc[e] /\ todo'[e] = todo[e]
    BY <1>1, CallTasks DEF Then, SendCmd, Shapes, TaskTypes
  <1> QED
    BY <1>1, <1>2, <1>3, <1>4, <1>5, UninvolvedStep

LEMMA CallLife ==
  ASSUME Shapes, LifeInv, ElementCall
  PROVE  LifeInv'
  <1> SUFFICES ASSUME ~fault', NEW e \in HasTask PROVE Life(e)'
    BY DEF LifeInv
  <1>1. ~fault
    <2>1. fault \in BOOLEAN
      BY DEF Shapes, CallTypes
    <2> QED
      BY <2>1, FaultStays DEF Next
  <1>2. Life(e)
    BY <1>1 DEF LifeInv
  <1> QED
    BY <1>2, CallElsewhere, RunLife, StopLife, TerminateLife, OtherLife DEF ElementCall

\* Between the calls the caller touches no task.
LEMMA OutsideLife ==
  ASSUME Shapes, LifeInv, Operation \/ Between
  PROVE  LifeInv'
  <1> SUFFICES ASSUME ~fault', NEW e \in HasTask PROVE Life(e)'
    BY DEF LifeInv
  <1>1. /\ UNCHANGED <<el, cmdq, pc, todo, fault>> /\ at = 1 /\ at' = 1
    <2>1. CASE Between
      BY <2>1 DEF Between, At, taskVars
    <2>2. CASE Operation
      <3>1. PICK op, calls : Start(op, calls)
        BY <2>2, OperationCalls
      <3> QED
        BY <3>1 DEF Start, taskVars, Shapes, CallTypes
    <2> QED
      BY <2>1, <2>2
  <1>2. Life(e) /\ ~Involved(e) /\ ~Involved(e)' /\ e \in Elements
    BY <1>1, InvolvedAt, InvolvedAtNext, ChainAssumption DEF LifeInv
  <1> QED
    BY <1>1, <1>2, UninvolvedStep

LEMMA LifeInit == Init => LifeInv
  <1> SUFFICES ASSUME Init, NEW e \in HasTask PROVE Life(e)
    BY DEF LifeInv
  <1>1. e \in Elements
    BY ChainAssumption
  <1>2. pc[e] = "none" /\ todo[e] = <<>> /\ cmdq[e] = <<>> /\ agenda = <<>>
        /\ el[e] = [state |-> "INIT", isOpen |-> FALSE, isRunning |-> FALSE, taskRun |-> FALSE,
                    stopping |-> FALSE, wait |-> "zero", bits |-> {}]
    BY <1>1 DEF Init
  <1>3. ~el[e].taskRun /\ ~el[e].stopping
    <2>1. \A v \in BOOLEAN : \A r :
            r = [state |-> "INIT", isOpen |-> v, isRunning |-> v, taskRun |-> v,
                 stopping |-> v, wait |-> "zero", bits |-> {}]
            => r.taskRun = v /\ r.stopping = v
      BY SMT
    <2> QED
      BY <1>2, <2>1
  <1>4. Settled(e)
    BY <1>2, <1>3, PlaceNames DEF Settled, Works, Has
  <1>5. Stops(e) /\ Trusts(e) /\ ~Caller("terminate", 3, e)
    BY <1>2, <1>3 DEF Stops, Trusts, Caller, At
  <1> QED
    BY <1>4, <1>5, LifeFromSettled

LEMMA LifeStep == Shapes /\ LifeInv /\ [Next]_vars => LifeInv'
  <1> SUFFICES ASSUME Shapes, LifeInv, [Next]_vars PROVE LifeInv'
    OBVIOUS
  <1>1. CASE Operation \/ Between
    BY <1>1, OutsideLife
  <1>2. CASE ElementCall
    BY <1>2, CallLife
  <1>3. CASE Drain \/ Gone \/ UNCHANGED vars
    <2>1. UNCHANGED <<el, cmdq, pc, todo, agenda, at, fault>>
      BY <1>3 DEF Drain, Gone, vars, taskVars, callVars
    <2>2. \A e \in HasTask : Life(e) => Life(e)'
      BY <2>1, SameLife
    <2> QED
      BY <2>1, <2>2 DEF LifeInv
  <1>4. CASE \E e \in HasTask : Task(e) \/ Fail(e)
    BY <1>4, TaskStepLife
  <1> QED
    BY <1>1, <1>2, <1>3, <1>4 DEF Next

LEMMA LifeAlways == Spec => []LifeInv
  BY ShapesAlways, LifeInit, LifeStep, PTL DEF Spec

\* audio_element_run makes a task only for an element that has none, or whose task has made
\* its last access: task_run is read without a lock, and the caller may have terminated the
\* element, or never started it.
THEOREM OneTaskCorrect == Spec => []OneTask
  <1>1. Shapes /\ LifeInv => OneTask
    <2> SUFFICES ASSUME Shapes, LifeInv, ~fault, At("run", 1), Callee \in HasTask, ~el[Callee].taskRun
                 PROVE  ~Uses(Callee)
      BY DEF OneTask
    <2>1. Life(Callee) /\ Caller("run", 1, Callee) /\ Callee \in Elements
      BY ChainAssumption DEF LifeInv, Caller
    <2>2. Settled(Callee)
      BY <2>1, CallerUnique, SettledUnlessCalled
    <2>3. pc[Callee] \in {"none", "exit"}
      BY <2>1, <2>2 DEF Settled, Works, Shapes, TaskTypes, Places
    <2> QED
      BY <2>2, <2>3 DEF Settled, Uses
  <1> QED
    BY <1>1, ShapesAlways, LifeAlways, PTL

\* While is_stopping is set, the STOP that clears it is in the queue, about to be sent, or being
\* handled: audio_element_stop never leaves an element that ignores every later stop.
THEOREM StopUnderWayCorrect == Spec => []StopUnderWay
  <1>1. LifeInv => StopUnderWay
    BY DEF LifeInv, Life, Stops, StopUnderWay, Has, Caller, StopDone
  <1> QED
    BY <1>1, LifeAlways, PTL

-----------------------------------------------------------------------------
\* The end of the pipeline.  A task that is gone stays away unless audio_element_run is called.
LEMMA UsesStays ==
  ASSUME Shapes, LifeInv, ~fault, [Next]_vars, NEW e \in HasTask, ~Uses(e), ~(At("run", 1) /\ ElementRun)
  PROVE  ~Uses(e)'
  <1>1. e \in Elements
    BY ChainAssumption
  <1>2. pc[e] = "none" \/ (pc[e] = "exit" /\ todo[e] = <<>>)
    BY DEF Uses
  <1>3. todo[e] = <<>>
    BY <1>2 DEF LifeInv, Life, Still
  <1>4. CASE pc'[e] = pc[e] /\ todo'[e] = todo[e]
    BY <1>2, <1>4 DEF Uses
  <1>5. CASE Operation \/ Between \/ Drain \/ Gone \/ UNCHANGED vars
    <2>1. pc' = pc /\ todo' = todo
      <3>1. CASE Operation
        BY <3>1, OperationCalls DEF Start, taskVars
      <3>2. CASE Between \/ Drain \/ Gone \/ UNCHANGED vars
        BY <3>2 DEF Between, Drain, Gone, vars, taskVars
      <3> QED
        BY <1>5, <3>1, <3>2
    <2> QED
      BY <1>4, <2>1
  <1>6. CASE ElementCall
    <2>1. pc' = pc /\ todo' = todo
      BY <1>6, CallTasks
    <2> QED
      BY <1>4, <2>1
  <1>7. ASSUME NEW d \in HasTask, Task(d) \/ Fail(d)
        PROVE  ~Uses(e)'
    <2>1. CASE d # e
      BY <1>4, <1>7, <2>1, TaskElsewhere
    <2>2. CASE d = e
      <3>1. Exit(e)
        BY <1>2, <1>3, <1>7, <2>2 DEF Task, Write, Begin, Allocate, Wait, Command, Open, Process, Busy, Fail
      <3>2. pc'[e] = "none"
        BY <1>1, <3>1, PlaceNames, EmptySeq, ThenTypes DEF Exit
      <3> QED
        BY <3>2 DEF Uses
    <2> QED
      BY <2>1, <2>2
  <1> QED
    BY <1>5, <1>6, <1>7 DEF Next

LEMMA TaskRings ==
  ASSUME Shapes, NEW e \in HasTask, Task(e) \/ Fail(e)
  PROVE  \A i \in 1 .. Last - 1 : ring'[i].there = ring[i].there
  <1>1. ring \in [1 .. Last - 1 -> Ring]
    BY DEF Shapes
  <1>2. \/ ring' = ring
        \/ \E how \in {"abort", "done", "reset"} : \E is : ring' = RingsAfter(how, is)
        \/ ring' = [i \in DOMAIN ring |->
                      IF i \in InRing(e) THEN [ring[i] EXCEPT !.n = @ - 1]
                      ELSE IF i \in OutRing(e) THEN [ring[i] EXCEPT !.n = @ + 1]
                      ELSE ring[i]]
    <2>1. CASE Write(e)
      <3> DEFINE w == Head(todo[e])
      <3>1. \/ ring' = ring
            \/ \E is : ring' = RingsAfter("abort", is)
            \/ w \in {<<"rings", "reset">>, <<"rings", "done">>} /\ ring' = RingsAfter(w[2], OutRing(e))
        BY <2>1, Zenon DEF Write
      <3>2. w \in {<<"rings", "reset">>, <<"rings", "done">>} => w[2] \in {"abort", "done", "reset"}
        OBVIOUS
      <3> QED
        BY <3>1, <3>2, Zenon
    <2>2. CASE ~Write(e)
      BY <2>2, Zenon DEF Task, Begin, Allocate, Wait, Command, Open, Process, Busy, Fail, Exit
    <2> QED
      BY <2>1, <2>2
  <1>3. \A i \in 1 .. Last - 1 :
          /\ [ring[i] EXCEPT !.n = @ - 1].there = ring[i].there
          /\ [ring[i] EXCEPT !.n = @ + 1].there = ring[i].there
    BY <1>1, SMT DEF Ring
  <1>4. DOMAIN ring = 1 .. Last - 1
    BY <1>1
  <1>5. CASE ring' = [i \in DOMAIN ring |->
                      IF i \in InRing(e) THEN [ring[i] EXCEPT !.n = @ - 1]
                      ELSE IF i \in OutRing(e) THEN [ring[i] EXCEPT !.n = @ + 1]
                      ELSE ring[i]]
    BY <1>3, <1>4, <1>5
  <1>6. ASSUME NEW how \in {"abort", "done", "reset"}, NEW is, ring' = RingsAfter(how, is)
        PROVE  \A i \in 1 .. Last - 1 : ring'[i].there = ring[i].there
    BY <1>1, <1>6, RingsTyped
  <1> QED
    BY <1>2, <1>5, <1>6

\* Steps that make no call, and calls that return.
LEMMA EndFrame ==
  ASSUME Shapes, Shapes', EndParts, UNCHANGED <<agenda, live>>,
         \A i \in 1 .. Last - 1 : ring'[i].there = ring[i].there,
         \A e \in HasTask : ~Uses(e) => ~Uses(e)'
  PROVE  EndParts'
  <1>1. DOMAIN ring = 1 .. Last - 1 /\ DOMAIN ring' = 1 .. Last - 1
    BY DEF Shapes
  <1>2. \A e \in HasTask : \A k : DoneBefore(e, k) => DoneBefore(e, k)'
    BY DEF DoneBefore
  <1>3. Ending' <=> Ending
    BY DEF Ending
  <1> QED
    BY <1>1, <1>2, <1>3 DEF EndParts

LEMMA EndTail ==
  ASSUME Shapes, Shapes', EndParts, agenda # <<>>, agenda' = Tail(agenda),
         Head(agenda)[1] = "free" => live' = live \ {Callee},
         Head(agenda)[1] # "free" => live' = live,
         \/ \A i \in 1 .. Last - 1 : ring'[i].there = ring[i].there
         \/ Head(agenda)[1] = "unlink",
         \A e \in HasTask : ~Uses(e) => ~Uses(e)',
         \A e \in HasTask : Head(agenda) = <<"terminate", e>> => ~Uses(e)'
  PROVE  EndParts'
  <1>1. DOMAIN ring = 1 .. Last - 1 /\ DOMAIN ring' = 1 .. Last - 1 /\ HasTask \subseteq Elements
        /\ live \subseteq Elements
    BY ChainAssumption DEF Shapes
  <1>2. agenda \in Seq(Calls) /\ Callee \in Elements
    BY CalleeTypes DEF Shapes, CallTypes
  <1>3. /\ Head(agenda) = agenda[1] /\ 1 \in DOMAIN agenda
        /\ \A k \in DOMAIN agenda' : k + 1 \in DOMAIN agenda /\ agenda'[k] = agenda[k + 1]
        /\ \A k \in DOMAIN agenda : k # 1 => k - 1 \in DOMAIN agenda' /\ agenda'[k - 1] = agenda[k]
        /\ DOMAIN agenda \subseteq Nat /\ DOMAIN agenda' \subseteq Nat
    <2>1. DOMAIN agenda = 1 .. Len(agenda) /\ Len(agenda) \in Nat \ {0}
      BY <1>2, LenProperties, TailHas
    <2>2. DOMAIN agenda' = 1 .. Len(agenda') /\ Len(agenda') \in Nat
      BY <1>2, LenProperties, TailHas
    <2> QED
      BY <1>2, <2>1, <2>2, TailHas, SMT
  <1>4. ASSUME NEW e \in HasTask, DoneBefore(e, 1) PROVE ~Uses(e)
    <2>1. 1 .. 1 - 1 = {}
      BY SMT
    <2> QED
      BY <1>4, <2>1 DEF DoneBefore
  <1>5. ASSUME NEW e \in HasTask, NEW k \in DOMAIN agenda', DoneBefore(e, k + 1)
        PROVE  DoneBefore(e, k)'
    <2>1. CASE ~Uses(e)
      BY <2>1 DEF DoneBefore
    <2>2. ASSUME NEW j \in 1 .. k + 1 - 1, agenda[j] = <<"terminate", e>>
          PROVE  DoneBefore(e, k)'
      <3>1. CASE j = 1
        BY <1>3, <2>2, <3>1 DEF DoneBefore
      <3>2. CASE j # 1
        <4>1. k \in Nat /\ k + 1 \in DOMAIN agenda /\ DOMAIN agenda = 1 .. Len(agenda) /\ Len(agenda) \in Nat
          BY <1>2, <1>3, LenProperties
        <4>2. j \in DOMAIN agenda /\ j - 1 \in 1 .. k - 1
          BY <2>2, <3>2, <4>1, SMT
        <4>3. agenda'[j - 1] = <<"terminate", e>>
          BY <1>3, <2>2, <3>2, <4>2
        <4> QED
          BY <4>2, <4>3 DEF DoneBefore
      <3> QED
        BY <3>1, <3>2
    <2>3. ~Uses(e) \/ \E j \in 1 .. k + 1 - 1 : agenda[j] = <<"terminate", e>>
      BY <1>5 DEF DoneBefore
    <2> QED
      BY <2>1, <2>2, <2>3
  <1>6. Ending' => Ending
    BY <1>1, <1>3 DEF Ending
  <1>7. Ending => Ending'
    <2>1. CASE live # Elements
      BY <1>1, <2>1 DEF Ending
    <2>2. ASSUME NEW k \in DOMAIN agenda, agenda[k][1] = "free" PROVE Ending'
      <3>1. CASE k = 1
        <4>1. live' # Elements
          BY <1>2, <1>3, <2>2, <3>1
        <4> QED
          BY <4>1 DEF Ending
      <3>2. CASE k # 1
        BY <1>3, <2>2, <3>2 DEF Ending
      <3> QED
        BY <3>1, <3>2
    <2> QED
      BY <2>1, <2>2 DEF Ending
  <1>8. Ending' => \A k \in DOMAIN agenda' : agenda'[k][1] \notin {"run", "ran"}
    BY <1>3, <1>6 DEF EndParts
  <1>9. ASSUME NEW e \in HasTask, NEW k \in DOMAIN agenda', agenda'[k] = <<"free", e>>
        PROVE  DoneBefore(e, k)'
    BY <1>3, <1>5, <1>9 DEF EndParts
  <1>10. ASSUME NEW k \in DOMAIN agenda', agenda'[k][1] = "unlink"
         PROVE  /\ \A e \in HasTask : DoneBefore(e, k)'
                /\ \E j \in DOMAIN agenda' : j > k /\ agenda'[j][1] = "free"
    <2>1. k + 1 \in DOMAIN agenda /\ agenda[k + 1][1] = "unlink" /\ k \in Nat
      BY <1>3, <1>10
    <2>2. \A e \in HasTask : DoneBefore(e, k + 1)
      BY <2>1 DEF EndParts
    <2>3. PICK j \in DOMAIN agenda : j > k + 1 /\ agenda[j][1] = "free"
      BY <2>1 DEF EndParts
    <2>4. j # 1 /\ j - 1 > k
      <3>1. j \in Nat
        BY <1>3
      <3> QED
        BY <2>1, <2>3, <3>1, SMT
    <2> QED
      BY <1>3, <1>5, <2>2, <2>3, <2>4
  <1>11. ASSUME NEW i \in DOMAIN ring', ~ring'[i].there
         PROVE  Ending' /\ \A e \in HasTask : ~Uses(e)'
    <2>1. CASE Head(agenda)[1] = "unlink"
      <3>1. agenda[1][1] = "unlink"
        BY <1>3, <2>1
      <3>2. \A e \in HasTask : DoneBefore(e, 1)
        BY <1>3, <3>1 DEF EndParts
      <3>3. Ending
        BY <1>3, <3>1 DEF EndParts, Ending
      <3> QED
        BY <1>4, <1>7, <3>2, <3>3
    <2>2. CASE Head(agenda)[1] # "unlink"
      <3>1. ~ring[i].there /\ i \in DOMAIN ring
        BY <1>1, <1>11, <2>2
      <3>2. Ending /\ \A e \in HasTask : ~Uses(e)
        BY <3>1 DEF EndParts
      <3> QED
        BY <1>7, <3>2
    <2> QED
      BY <2>1, <2>2
  <1>12. ASSUME NEW e \in HasTask, e \notin live' PROVE ~Uses(e)'
    <2>1. CASE e \notin live
      BY <2>1 DEF EndParts
    <2>2. CASE e \in live
      <3>1. Head(agenda)[1] = "free" /\ Callee = e
        BY <1>12, <2>2
      <3>2. agenda[1] = <<"free", e>>
        <4>1. agenda[1] \in Functions \X Elements
          BY <1>2, <1>3, TailHas DEF Calls
        <4> QED
          BY <1>3, <3>1, <4>1 DEF Callee
      <3>3. DoneBefore(e, 1)
        BY <1>3, <3>2 DEF EndParts
      <3> QED
        BY <1>4, <3>3
    <2> QED
      BY <2>1, <2>2
  <1> QED
    BY <1>8, <1>9, <1>10, <1>11, <1>12 DEF EndParts

\* Steps before the end: nothing is freed, and no call will free it.
LEMMA NoEnd ==
  ASSUME Shapes, Shapes', EndParts, ~Ending, live' = live,
         \A i \in 1 .. Last - 1 : ring'[i].there = ring[i].there,
         \A k \in DOMAIN agenda' : agenda'[k][1] \notin {"free", "unlink"}
  PROVE  EndParts'
  <1>1. DOMAIN ring = 1 .. Last - 1 /\ DOMAIN ring' = 1 .. Last - 1 /\ HasTask \subseteq Elements
    BY ChainAssumption DEF Shapes
  <1>2. ~Ending' /\ live' = Elements
    BY DEF Ending
  <1>3. \A e : \A k \in DOMAIN agenda' : agenda'[k] # <<"free", e>>
    OBVIOUS
  <1>4. \A i \in DOMAIN ring' : ring'[i].there
    BY <1>1 DEF EndParts
  <1> QED
    BY <1>1, <1>2, <1>3, <1>4 DEF EndParts

LEMMA CallEnd ==
  ASSUME Shapes, Shapes', LifeInv, EndParts, ElementCall, ~fault, ~fault'
  PROVE  EndParts'
  <1>1. agenda # <<>> /\ Callee \in Elements /\ agenda \in Seq(Calls) /\ agenda[1] = Head(agenda)
        /\ 1 \in DOMAIN agenda
    <2>1. agenda # <<>> /\ Callee \in Elements /\ agenda \in Seq(Calls)
      BY CallStays, CalleeTypes DEF Shapes, CallTypes
    <2>2. DOMAIN agenda = 1 .. Len(agenda) /\ Len(agenda) \in Nat \ {0} /\ agenda[1] = Head(agenda)
      BY <2>1, LenProperties, TailHas
    <2> QED
      BY <2>1, <2>2, SMT
  <1>2. \A i \in 1 .. Last - 1 : ring'[i].there = ring[i].there
    <2>1. DOMAIN ring = 1 .. Last - 1
      BY DEF Shapes
    <2> QED
      BY <2>1, CallRings
  <1>3. CASE \E k \in 1 .. 6 : Goto(k)
    <2>1. agenda' = agenda
      BY <1>3 DEF Goto
    <2>2. live' = live
      <3>1. CASE ElementFree
        <4>1. \A k \in 1 .. 6 : ~Goto(k)
          BY <1>1, <3>1 DEF ElementFree, Return, Leave, Goto, At, Shapes, CallTypes
        <4> QED
          BY <1>3, <4>1
      <3>2. CASE ~ElementFree
        BY <3>2 DEF ElementCall, ElementRun, ElementResume, ElementPause, ElementStop, ElementWait,
                    ElementReset, ElementTerminate
      <3> QED
        BY <3>1, <3>2
    <2>3. CASE Ending
      <3>1. ~At("run", 1)
        BY <1>1, <2>3 DEF EndParts, At
      <3>2. \A e \in HasTask : ~Uses(e) => ~Uses(e)'
        BY <3>1, UsesStays DEF Next
      <3> QED
        BY <1>2, <2>1, <2>2, <3>2, EndFrame
    <2>4. CASE ~Ending
      <3>1. \A k \in DOMAIN agenda : agenda[k][1] \notin {"free", "unlink"}
        BY <2>4 DEF Ending, EndParts
      <3> QED
        BY <1>2, <2>1, <2>2, <2>4, <3>1, NoEnd
    <2> QED
      BY <2>3, <2>4
  <1>4. CASE Return \/ ReturnFail \/ GiveUp \/ GiveUpFail
    <2>1. at' = 1 /\ agenda' = Tail(agenda)
      BY <1>4, LeaveCaller
    <2>2. Head(agenda)[1] = "free" => live' = live \ {Callee}
      BY DEF ElementCall, ElementRun, ElementResume, ElementPause, ElementStop, ElementWait,
             ElementReset, ElementTerminate, ElementFree, At
    <2>3. Head(agenda)[1] # "free" => live' = live
      BY DEF ElementCall, ElementRun, ElementResume, ElementPause, ElementStop, ElementWait,
             ElementReset, ElementTerminate, ElementFree, At
    <2>4. pc' = pc /\ todo' = todo
      <3>1. CASE ElementRun
        BY <2>1, <3>1 DEF ElementRun, Goto, taskVars
      <3>2. CASE ~ElementRun
        BY <3>2, CallTasks
      <3> QED
        BY <3>1, <3>2
    <2>5. \A e \in HasTask : ~Uses(e) => ~Uses(e)'
      BY <2>4 DEF Uses
    <2>6. ASSUME NEW e \in HasTask, Head(agenda) = <<"terminate", e>> PROVE ~Uses(e)'
      <3>1. ElementTerminate /\ Callee = e
        <4>1. Head(agenda)[1] = "terminate" /\ Callee = e
          BY <2>6 DEF Callee
        <4> QED
          BY <4>1 DEF ElementCall, ElementRun, ElementResume, ElementPause, ElementStop, ElementWait,
               ElementReset, ElementFree, At
      <3>2. Life(e)
        BY DEF LifeInv
      <3>3. ~Uses(e)
        BY <2>1, <3>1, <3>2, TerminateLife
      <3> QED
        BY <2>5, <3>3
    <2> QED
      BY <1>1, <1>2, <2>1, <2>2, <2>3, <2>5, <2>6, EndTail
  <1> QED
    BY <1>3, <1>4, CallMoves

LEMMA BetweenEnd ==
  ASSUME Shapes, Shapes', LifeInv, EndParts, Between, ~fault
  PROVE  EndParts'
  <1>1. agenda # <<>> /\ agenda \in Seq(Calls) /\ agenda[1] = Head(agenda) /\ 1 \in DOMAIN agenda
    <2>1. agenda # <<>> /\ agenda \in Seq(Calls)
      BY DEF Between, At, Shapes, CallTypes
    <2>2. DOMAIN agenda = 1 .. Len(agenda) /\ Len(agenda) \in Nat \ {0} /\ agenda[1] = Head(agenda)
      BY <2>1, LenProperties, TailHas
    <2> QED
      BY <2>1, <2>2, SMT
  <1>2. live' = live
    BY DEF Between
  <1>3. \A e \in HasTask : ~Uses(e) => ~Uses(e)'
    BY DEF Between, taskVars, Uses
  <1>4. CASE At("ran", 1)
    <2>1. ~Ending
      BY <1>1, <1>4 DEF EndParts, At
    <2>2. ring' = ring /\ agenda' \in {<<>>, Over("terminate")}
      BY <1>4 DEF Between, At
    <2>3. "terminate" \in Functions
      BY DEF Functions
    <2>4. \A k \in DOMAIN agenda' : agenda'[k][1] \notin {"free", "unlink"}
      <3>1. CASE agenda' = <<>>
        BY <3>1
      <3>2. CASE agenda' = Over("terminate")
        BY <2>3, <3>2, OverCalls
      <3> QED
        BY <2>2, <3>1, <3>2
    <2> QED
      BY <1>2, <2>1, <2>2, <2>4, NoEnd
  <1>5. CASE At("resumed", 1) \/ At("waited", 1) \/ At("unlink", 1)
    <2>1. agenda' = Tail(agenda) /\ (Head(agenda)[1] = "unlink" \/ ring' = ring)
      BY <1>5 DEF Between, At
    <2>2. Head(agenda)[1] # "free" /\ \A e : Head(agenda) # <<"terminate", e>>
      BY <1>5 DEF At
    <2> QED
      BY <1>1, <1>2, <1>3, <2>1, <2>2, EndTail
  <1> QED
    BY <1>4, <1>5 DEF Between

\* The operations other than deinit free nothing.
QuietCalls == (Functions \ {"free", "unlink"}) \X Elements

LEMMA QuietOver ==
  ASSUME NEW f \in Functions \ {"free", "unlink"}
  PROVE  Over(f) \in Seq(QuietCalls) /\ Self(f) \in Seq(QuietCalls)
  <1>1. \A i \in 1 .. Last : <<f, Chain[i]>> \in QuietCalls
    BY LastIsPos DEF QuietCalls
  <1>2. Over(f) = [i \in 1 .. Last |-> <<f, Chain[i]>>]
    BY LastIsPos DEF Over
  <1>3. [i \in 1 .. Last |-> <<f, Chain[i]>>] \in [1 .. Last -> QuietCalls]
    BY <1>1
  <1>4. Over(f) \in Seq(QuietCalls)
    BY <1>2, <1>3, LastIsPos, SMT
  <1>5. <<f, Chain[1]>> \in QuietCalls
    <2>1. 1 \in 1 .. Last
      BY LastIsPos, SMT
    <2> QED
      BY <1>1, <2>1
  <1>6. Self(f) \in Seq(QuietCalls)
    BY <1>5, SMT DEF Self
  <1> QED
    BY <1>4, <1>6

LEMMA QuietOperations ==
  ASSUME Shapes, Operation, ~PipelineDeinit
  PROVE  agenda' \in Seq(QuietCalls)
  <1>1. \A f \in {"run", "resume", "pause", "stop", "wait", "terminate", "reset_rings", "reset_state",
                  "ran", "resumed", "waited"} : f \in Functions \ {"free", "unlink"}
    BY DEF Functions
  <1>2. \A f \in {"run", "resume", "pause", "stop", "wait", "terminate", "reset_rings", "reset_state",
                  "ran", "resumed", "waited"} :
          Over(f) \in Seq(QuietCalls) /\ Self(f) \in Seq(QuietCalls)
    BY <1>1, QuietOver
  <1>3. <<>> \in Seq(QuietCalls)
    BY EmptySeq
  <1>4. \A a, b \in Seq(QuietCalls) : a \o b \in Seq(QuietCalls)
    BY JoinedSeq
  <1>5. CASE PipelineRun
    <2>1. (IF pstate = "INIT" THEN Over("run") \o Over("resume") \o Self("ran") ELSE <<>>) \in Seq(QuietCalls)
      BY <1>2, <1>3, <1>4
    <2> QED
      BY <1>5, <2>1 DEF PipelineRun, Start
  <1>6. CASE PipelineResume
    BY <1>2, <1>4, <1>6 DEF PipelineResume, Start
  <1>7. CASE PipelinePause
    BY <1>2, <1>7 DEF PipelinePause, Start
  <1>8. CASE PipelineStop
    BY <1>2, <1>3, <1>8 DEF PipelineStop, Start
  <1>9. CASE PipelineWaitForStop
    BY <1>2, <1>3, <1>4, <1>9 DEF PipelineWaitForStop, Start
  <1>10. CASE PipelineTerminate
    BY <1>2, <1>10 DEF PipelineTerminate, Start
  <1>11. CASE PipelineReset
    BY <1>2, <1>4, <1>11 DEF PipelineReset, Start
  <1> QED
    BY <1>5, <1>6, <1>7, <1>8, <1>9, <1>10, <1>11 DEF Operation

\* The elements of a concatenation.
LEMMA JoinedParts ==
  ASSUME NEW S, NEW s \in Seq(S), NEW t \in Seq(S), NEW m, NEW n, Len(s) = m, Len(t) = n
  PROVE  /\ s \o t \in Seq(S) /\ Len(s \o t) = m + n /\ DOMAIN (s \o t) = 1 .. m + n
         /\ \A k \in 1 .. m : (s \o t)[k] = s[k]
         /\ \A k \in 1 .. n : (s \o t)[m + k] = t[k]
  <1>1. /\ s \o t \in Seq(S) /\ Len(s \o t) = Len(s) + Len(t)
        /\ DOMAIN (s \o t) = 1 .. Len(s) + Len(t)
    BY SMT
  <1>2. \A k \in 1 .. Len(s) : (s \o t)[k] = s[k]
    BY JoinedSeq
  <1>3. \A k \in 1 .. Len(t) : (s \o t)[Len(s) + k] = t[k]
    BY JoinedSeq
  <1> QED
    BY <1>1, <1>2, <1>3

\* audio_pipeline_deinit: every element is terminated, then the ring buffers go, then the elements.
LEMMA DeinitAgenda ==
  ASSUME NEW c, c = Over("terminate") \o Self("unlink") \o DeinitEach
  PROVE  /\ DOMAIN c = 1 .. 5 * Last + 1
         /\ \A k \in 1 .. Last : c[k] = <<"terminate", Chain[k]>>
         /\ c[Last + 1] = <<"unlink", Chain[1]>>
         /\ \A k \in DOMAIN c : k > Last + 1 => c[k][1] \in {"stop", "wait_ms", "terminate", "free"}
         /\ Last + 5 \in DOMAIN c /\ c[Last + 5][1] = "free"
  <1> DEFINE a == Over("terminate")
             b == Self("unlink")
             d == DeinitEach
  <1>1. "terminate" \in Functions /\ "unlink" \in Functions
    BY DEF Functions
  <1>2. /\ a \in Seq(Calls) /\ Len(a) = Last /\ \A k \in 1 .. Last : a[k] = <<"terminate", Chain[k]>>
        /\ b \in Seq(Calls) /\ Len(b) = 1 /\ b[1] = <<"unlink", Chain[1]>>
    BY <1>1, OverCalls
  <1>3. /\ d \in Seq(Calls) /\ Len(d) = 4 * Last
        /\ \A k \in 1 .. 4 * Last : d[k][1] \in {"stop", "wait_ms", "terminate", "free"}
        /\ d[4][1] = "free"
    BY DeinitCalls
  <1> HIDE DEF a, b, d
  <1>4. /\ a \o b \in Seq(Calls) /\ Len(a \o b) = Last + 1
        /\ \A k \in 1 .. Last : (a \o b)[k] = a[k]
        /\ (a \o b)[Last + 1] = b[1]
    <2>1. 1 \in 1 .. 1
      BY SMT
    <2>2. /\ a \o b \in Seq(Calls) /\ Len(a \o b) = Last + 1
          /\ \A k \in 1 .. Last : (a \o b)[k] = a[k]
          /\ \A k \in 1 .. 1 : (a \o b)[Last + k] = b[k]
      <3> DEFINE n == 1
      <3>1. Len(b) = n
        BY <1>2
      <3> HIDE DEF n
      <3>2. /\ a \o b \in Seq(Calls) /\ Len(a \o b) = Last + n
            /\ \A k \in 1 .. Last : (a \o b)[k] = a[k]
            /\ \A k \in 1 .. n : (a \o b)[Last + k] = b[k]
        BY <1>2, <3>1, JoinedParts
      <3> QED
        BY <3>2 DEF n
    <2> QED
      BY <2>1, <2>2
  <1> DEFINE ab == a \o b
  <1> HIDE DEF ab
  <1>5. /\ DOMAIN (ab \o d) = 1 .. (Last + 1) + 4 * Last
        /\ \A k \in 1 .. Last + 1 : (ab \o d)[k] = ab[k]
        /\ \A k \in 1 .. 4 * Last : (ab \o d)[(Last + 1) + k] = d[k]
    <2>1. ab \in Seq(Calls) /\ Len(ab) = Last + 1
      BY <1>4 DEF ab
    <2> QED
      BY <1>3, <2>1, JoinedParts
  <1>6. c = ab \o d
    BY DEF a, b, d, ab
  <1>7. Last \in Nat \ {0}
    BY LastIsPos
  <1>8. (Last + 1) + 4 * Last = 5 * Last + 1 /\ 4 \in 1 .. 4 * Last /\ (Last + 1) + 4 = Last + 5
        /\ Last + 5 \in 1 .. 5 * Last + 1 /\ Last + 1 \in 1 .. Last + 1
        /\ \A k \in 1 .. Last : k \in 1 .. Last + 1
    BY <1>7, SMT
  <1>9. \A k \in 1 .. 5 * Last + 1 : k > Last + 1 =>
          k - (Last + 1) \in 1 .. 4 * Last /\ k = (Last + 1) + (k - (Last + 1))
    BY <1>7, SMT
  <1>10. ASSUME NEW k \in DOMAIN c, k > Last + 1
         PROVE  c[k][1] \in {"stop", "wait_ms", "terminate", "free"}
    <2>1. PICK j \in 1 .. 4 * Last : k = (Last + 1) + j
      <3>1. k \in 1 .. 5 * Last + 1
        BY <1>5, <1>6, <1>8, <1>10
      <3> QED
        BY <1>9, <1>10, <3>1
    <2>2. c[k] = d[j]
      BY <1>5, <1>6, <2>1
    <2> QED
      BY <1>3, <2>2
  <1>11. c[Last + 5][1] = "free"
    <2>1. c[(Last + 1) + 4] = d[4]
      BY <1>5, <1>6, <1>8
    <2> QED
      BY <1>3, <1>8, <2>1
  <1>12. \A k \in 1 .. Last + 1 : c[k] = ab[k]
    BY <1>5, <1>6
  <1>13. c[Last + 1] = <<"unlink", Chain[1]>>
    BY <1>2, <1>4, <1>8, <1>12 DEF ab
  <1>14. \A k \in 1 .. Last : c[k] = <<"terminate", Chain[k]>>
    BY <1>2, <1>4, <1>8, <1>12 DEF ab
  <1> QED
    BY <1>5, <1>6, <1>8, <1>10, <1>11, <1>13, <1>14

LEMMA DeinitEnd ==
  ASSUME Shapes, Shapes', EndParts, PipelineDeinit
  PROVE  EndParts'
  <1> DEFINE c == agenda'
  <1>1. /\ c = Over("terminate") \o Self("unlink") \o DeinitEach
        /\ live' = Elements /\ live = Elements /\ ring' = ring /\ agenda = <<>>
    BY DEF PipelineDeinit, Start
  <1>2. /\ DOMAIN c = 1 .. 5 * Last + 1
        /\ \A k \in 1 .. Last : c[k] = <<"terminate", Chain[k]>>
        /\ c[Last + 1] = <<"unlink", Chain[1]>>
        /\ \A k \in DOMAIN c : k > Last + 1 => c[k][1] \in {"stop", "wait_ms", "terminate", "free"}
        /\ Last + 5 \in DOMAIN c /\ c[Last + 5][1] = "free"
    BY <1>1, DeinitAgenda
  <1>3. Last \in Nat \ {0} /\ Elements = {Chain[i] : i \in 1 .. Last} /\ HasTask \subseteq Elements
    BY LastIsPos, ChainAssumption
  <1> HIDE DEF c
  <1>4. \A k \in DOMAIN c : k \in 1 .. Last \/ k = Last + 1 \/ k > Last + 1
    BY <1>2, <1>3, SMT
  <1>5. /\ \A k \in 1 .. Last : c[k][1] = "terminate"
        /\ c[Last + 1][1] = "unlink"
    BY <1>2
  <1>6. ASSUME NEW e \in HasTask, NEW k \in DOMAIN c, k \notin 1 .. Last
        PROVE  \E j \in 1 .. k - 1 : c[j] = <<"terminate", e>>
    <2>1. PICK j \in 1 .. Last : e = Chain[j]
      BY <1>3
    <2>2. j \in 1 .. k - 1
      BY <1>2, <1>3, <1>6, <2>1, SMT
    <2> QED
      BY <1>2, <2>1, <2>2
  <1>7. \A e \in HasTask : \A k \in DOMAIN c : k \notin 1 .. Last => DoneBefore(e, k)'
    BY <1>6 DEF DoneBefore, c
  <1>8. \A k \in DOMAIN c : c[k][1] \notin {"run", "ran"}
    BY <1>2, <1>4, <1>5
  <1>9. \A e \in HasTask : \A k \in DOMAIN c : c[k] = <<"free", e>> => DoneBefore(e, k)'
    <2>1. \A e : \A k \in 1 .. Last : c[k] # <<"free", e>>
      BY <1>5
    <2> QED
      BY <1>7, <2>1
  <1>10. ASSUME NEW k \in DOMAIN c, c[k][1] = "unlink"
         PROVE  /\ \A e \in HasTask : DoneBefore(e, k)'
                /\ \E j \in DOMAIN c : j > k /\ c[j][1] = "free"
    <2>1. k = Last + 1
      BY <1>2, <1>4, <1>5, <1>10
    <2>2. k \notin 1 .. Last /\ Last + 5 > k
      BY <1>3, <2>1, SMT
    <2> QED
      BY <1>2, <1>7, <2>2
  <1>11. \A i \in DOMAIN ring' : ring'[i].there
    <2>1. ~Ending
      BY <1>1 DEF Ending
    <2> QED
      BY <1>1, <2>1 DEF EndParts
  <1>12. \A e \in HasTask : e \in live'
    BY <1>1, <1>3
  <1> QED
    BY <1>8, <1>9, <1>10, <1>11, <1>12 DEF EndParts, c

LEMMA OperationEnd ==
  ASSUME Shapes, Shapes', EndParts, Operation
  PROVE  EndParts'
  <1>1. CASE PipelineDeinit
    BY <1>1, DeinitEnd
  <1>2. CASE ~PipelineDeinit
    <2>1. UNCHANGED <<live, ring>> /\ live = Elements /\ agenda = <<>>
      BY OperationCalls DEF Start
    <2>2. ~Ending
      BY <2>1 DEF Ending
    <2>3. \A k \in DOMAIN agenda' : agenda'[k][1] \notin {"free", "unlink"}
      <3>1. agenda' \in Seq(QuietCalls)
        BY <1>2, QuietOperations
      <3>2. \A k \in DOMAIN agenda' : agenda'[k] \in QuietCalls
        BY <3>1, LenProperties, ElementOfSeq
      <3> QED
        BY <3>2 DEF QuietCalls
    <2> QED
      BY <2>1, <2>2, <2>3, NoEnd
  <1> QED
    BY <1>1, <1>2

LEMMA EndInit == Init => EndInv
  <1> SUFFICES ASSUME Init PROVE EndParts
    BY DEF EndInv
  <1>1. live = Elements /\ DOMAIN agenda = {} /\ HasTask \subseteq Elements
    BY ChainAssumption DEF Init
  <1>2. \A i \in DOMAIN ring : ring[i].there
    <2>1. EmptyRing.there = TRUE
      BY Zenon DEF EmptyRing
    <2> QED
      BY <2>1 DEF Init
  <1> QED
    BY <1>1, <1>2 DEF EndParts

LEMMA EndStep == Shapes /\ Shapes' /\ LifeInv /\ EndInv /\ [Next]_vars => EndInv'
  <1> SUFFICES ASSUME Shapes, Shapes', LifeInv, EndInv, [Next]_vars, ~fault' PROVE EndParts'
    BY DEF EndInv
  <1>1. ~fault /\ EndParts
    <2>1. fault \in BOOLEAN
      BY DEF Shapes, CallTypes
    <2> QED
      BY <2>1, FaultStays DEF EndInv
  <1>2. CASE Operation
    BY <1>1, <1>2, OperationEnd
  <1>3. CASE ElementCall
    BY <1>1, <1>3, CallEnd
  <1>4. CASE Between
    BY <1>1, <1>4, BetweenEnd
  <1>5. CASE ~Operation /\ ~ElementCall /\ ~Between
    <2>1. UNCHANGED <<agenda, live>>
      BY <1>5 DEF Next, Drain, Gone, vars, callVars, Task, Write, Begin, Allocate, Wait, Command, Open,
                  Process, Busy, Fail, Exit
    <2>2. \A e \in HasTask : ~Uses(e) => ~Uses(e)'
      BY <1>1, <1>5, UsesStays DEF ElementCall
    <2>3. \A i \in 1 .. Last - 1 : ring'[i].there = ring[i].there
      <3>1. CASE Drain
        <4>1. ring \in [1 .. Last - 1 -> Ring]
          BY DEF Shapes
        <4>2. ring' = [ring EXCEPT ![Last - 1].n = @ - 1]
          BY <3>1 DEF Drain
        <4> QED
          BY <4>1, <4>2, SMT DEF Ring
      <3>2. CASE Gone \/ UNCHANGED vars
        BY <3>2 DEF Gone, vars
      <3>3. CASE \E e \in HasTask : Task(e) \/ Fail(e)
        BY <3>3, TaskRings
      <3> QED
        BY <1>5, <3>1, <3>2, <3>3 DEF Next
    <2> QED
      BY <1>1, <2>1, <2>2, <2>3, EndFrame
  <1> QED
    BY <1>2, <1>3, <1>4, <1>5

LEMMA EndAlways == Spec => []EndInv
  BY ShapesAlways, LifeAlways, EndInit, EndStep, PTL DEF Spec

\* audio_element_deinit frees an element only when its task has made its last access, the
\* DESTROYED bit that ends audio_element_task: nothing but the order of the calls and that
\* bit keeps the two apart.
THEOREM NoUseAfterFreeCorrect == Spec => []NoUseAfterFree
  <1>1. EndInv => NoUseAfterFree
    BY DEF EndInv, EndParts, NoUseAfterFree
  <1> QED
    BY <1>1, EndAlways, PTL

\* audio_pipeline_deinit destroys the ring buffers between the elements while no task can
\* be inside rb_read or rb_write.
THEOREM NoDestroyedRingCorrect == Spec => []NoDestroyedRing
  <1>1. Shapes /\ EndInv => NoDestroyedRing
    <2> SUFFICES ASSUME Shapes, EndInv, ~fault, NEW e \in HasTask, pc[e] = "busy",
                        NEW i \in InRing(e) \cup OutRing(e)
                 PROVE  ring[i].there
      BY DEF NoDestroyedRing
    <2>1. Pos(e) \in 1 .. Last
      <3>1. \E j \in 1 .. Last : Chain[j] = e
        BY LastIsPos, ChainAssumption
      <3> QED
        BY <3>1, LastIsPos DEF Pos
    <2>2. i \in 1 .. Last - 1
      <3>1. (i = Pos(e) - 1 /\ i # 0) \/ (i = Pos(e) /\ i # Last)
        BY DEF InRing, OutRing
      <3> QED
        BY <2>1, <3>1, LastIsPos, SMT
    <2>3. i \in DOMAIN ring
      BY <2>2 DEF Shapes
    <2>4. Uses(e)
      BY DEF Uses
    <2> QED
      BY <2>3, <2>4 DEF EndInv, EndParts
  <1> QED
    BY <1>1, ShapesAlways, EndAlways, PTL
=============================================================================
