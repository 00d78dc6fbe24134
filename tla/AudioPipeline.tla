--------------------------- MODULE AudioPipeline ---------------------------
(***************************************************************************)
(* The audio pipeline (lib/audio_pipeline/audio_pipeline.c) over the       *)
(* elements of AudioElement, and the task that calls it: av_stream's, which *)
(* runs, stops, waits for and destroys the chain algorithm -> raw, or the   *)
(* player's, which also pauses, resumes and runs it again.                 *)
(*                                                                         *)
(* A pipeline operation walks el_list and calls one element function per   *)
(* linked element: it fills the agenda with those calls, and the caller    *)
(* then takes them one by one, several steps each, while the elements'     *)
(* tasks go on.                                                            *)
(***************************************************************************)
EXTENDS AudioElement

\* The calls of one element function over the whole list.
Over(f) == [i \in Indices |-> <<f, Chain[i]>>]

\* A step of the pipeline operation itself, after or between the element calls.
Self(f) == << <<f, Chain[1]>> >>

\* audio_element_deinit on every element, one element after the other.
DeinitEach ==
  LET f == <<"stop", "wait_ms", "terminate", "free">> IN
  [k \in 1 .. 4 * Last |-> <<f[((k - 1) % 4) + 1], Chain[((k - 1) \div 4) + 1]>>]

Init ==
  /\ el = [e \in Elements |->
            [state |-> "INIT", isOpen |-> FALSE, isRunning |-> FALSE, taskRun |-> FALSE,
             stopping |-> FALSE, wait |-> "zero", bits |-> {}]]
  /\ cmdq = [e \in Elements |-> <<>>]
  /\ pc = [e \in Elements |-> "none"]
  /\ todo = [e \in Elements |-> <<>>]
  /\ ring = [i \in 1 .. Last - 1 |-> EmptyRing]
  /\ live = Elements
  /\ pstate = "INIT" /\ last = "init"
  /\ agenda = <<>> /\ at = 1 /\ failed = FALSE /\ fault = FALSE

(***************************************************************************)
(* The pipeline operations, from an idle caller.                           *)
(***************************************************************************)
Start(op, calls) ==
  /\ <<last, op>> \in Follows
  /\ agenda = <<>> /\ live = Elements
  /\ last' = op
  /\ agenda' = calls
  /\ failed' = FALSE
  /\ UNCHANGED <<el, taskVars, ring, live, pstate, at, fault>>

\* audio_pipeline_run: every element's task, then audio_pipeline_resume.
PipelineRun ==
  Start("run", IF pstate = "INIT"
               THEN Over("run") \o Over("resume") \o Self("ran") ELSE <<>>)

PipelineResume == Start("resume", Over("resume") \o Self("resumed"))
PipelinePause == Start("pause", Over("pause"))
PipelineStop == Start("stop", IF pstate = "RUNNING" THEN Over("stop") ELSE <<>>)
PipelineWaitForStop ==
  Start("wait_for_stop", IF pstate = "RUNNING" THEN Over("wait") \o Self("waited") ELSE <<>>)
PipelineTerminate == Start("terminate", Over("terminate"))

\* audio_pipeline_reset_ringbuffer and audio_pipeline_reset_elements.
PipelineReset == Start("reset", Over("reset_rings") \o Over("reset_state"))

\* Mutant: the ring buffers go first.
MutPipelineDeinit ==
  Start("deinit", Self("unlink") \o Over("terminate") \o DeinitEach)

PipelineDeinit ==
  Start("deinit", Over("terminate") \o Self("unlink") \o DeinitEach)

Operation ==
  \/ PipelineRun \/ PipelineResume \/ PipelinePause \/ PipelineStop
  \/ PipelineWaitForStop \/ PipelineTerminate \/ PipelineReset \/ PipelineDeinit

(***************************************************************************)
(* The element functions, called by the caller's task.                     *)
(***************************************************************************)
Callee == Head(agenda)[2]

At(f, k) == agenda # <<>> /\ Head(agenda)[1] = f /\ at = k

Goto(k) == at' = k /\ UNCHANGED <<agenda, failed, fault, pstate, last>>
Leave(ret, bad) ==
  /\ at' = 1 /\ agenda' = Tail(agenda)
  /\ failed' = ret /\ fault' = bad
  /\ UNCHANGED <<pstate, last>>
Return == Leave(failed, fault)
ReturnFail == Leave(TRUE, fault)
\* It returns because a queue was full, a wait expired or there was no memory.
GiveUp == Leave(failed, TRUE)
GiveUpFail == Leave(TRUE, TRUE)

\* The fields of the callee's structure the call writes in this step.
Update(r) == el' = [el EXCEPT ![Callee] = r]
With(b) == Update([el[Callee] EXCEPT !.bits = @ \cup {b}])
Without(b) == Update([el[Callee] EXCEPT !.bits = @ \ {b}])

\* audio_element_cmd_send: xQueueSend without waiting.
QueueFull == Len(cmdq[Callee]) = QueueLen
SendCmd(c) == cmdq' = [cmdq EXCEPT ![Callee] = Append(@, c)]

\* xEventGroupWaitBits for DEFAULT_MAX_WAIT_TIME (2 s): until the bit is set or the
\* wait expires.
Seen(b) == b \in el[Callee].bits
Waited(b) == \/ Seen(b) /\ Return
             \/ ~Seen(b) /\ GiveUp

\* audio_element_run, under the condition of audio_pipeline_run's loop.  A second task
\* beside one that still uses the element is not followed: OneTask forbids it.
ElementRun ==
  LET e == Callee IN
  \/ /\ At("run", 1)
     /\ \/ /\ \/ el[e].taskRun
              \/ el[e].state \notin {"INIT", "STOPPED", "FINISHED", "ERROR"}
           /\ Return
           /\ UNCHANGED <<el, taskVars, ring, live>>
        \/ /\ ~el[e].taskRun /\ el[e].state \in {"INIT", "STOPPED", "FINISHED", "ERROR"}
           /\ ~Uses(e)
           /\ cmdq' = [cmdq EXCEPT ![e] = <<>>]
           /\ \/ /\ e \in HasTask
                 /\ Without("CREATED")
                 /\ Then(e, "begin", <<>>)
                 /\ Goto(2)
              \/ /\ e \in HasTask
                 /\ Update([el[e] EXCEPT !.bits = @ \ {"CREATED"}, !.state = "ERROR"])
                 /\ GiveUp
                 /\ UNCHANGED <<pc, todo>>
              \/ /\ e \notin HasTask
                 /\ Update([el[e] EXCEPT !.bits = @ \ {"CREATED"}, !.taskRun = TRUE,
                                         !.isRunning = TRUE, !.state = "RUNNING"])
                 /\ Return
                 /\ UNCHANGED <<pc, todo>>
           /\ UNCHANGED <<ring, live>>
  \/ /\ At("run", 2)
     /\ Waited("CREATED")
     /\ UNCHANGED <<el, taskVars, ring, live>>

\* audio_element_resume(el, 0, 2000 ms)
ElementResume ==
  LET r == el[Callee] IN
  /\ \/ /\ At("resume", 1)
        /\ \/ /\ ~r.taskRun \/ (r.state = "ERROR" /\ Callee \in HasTask)
              /\ ReturnFail
              /\ UNCHANGED el
           \/ /\ r.taskRun
              /\ r.state = "RUNNING" \/ (r.state = "FINISHED" /\ Callee \in HasTask)
              /\ Return
              /\ UNCHANGED el
           \/ /\ r.taskRun /\ r.state # "RUNNING" /\ Callee \notin HasTask
              /\ Update([r EXCEPT !.isRunning = TRUE, !.state = "RUNNING"])
              /\ Return
           \/ /\ r.taskRun /\ r.state \notin {"RUNNING", "FINISHED", "ERROR"}
              /\ Callee \in HasTask
              /\ Goto(2)
              /\ UNCHANGED el
        /\ UNCHANGED cmdq
     \/ /\ At("resume", 2)
        /\ Without("RESUMED")
        /\ \/ QueueFull /\ GiveUpFail /\ UNCHANGED cmdq
           \/ ~QueueFull /\ SendCmd("RESUME") /\ Goto(3)
     \/ /\ At("resume", 3)
        /\ \/ Seen("RESUMED") /\ Return
           \/ ~Seen("RESUMED") /\ GiveUpFail
        /\ UNCHANGED <<el, cmdq>>
  /\ UNCHANGED <<pc, todo, ring, live>>

\* audio_element_pause
ElementPause ==
  LET r == el[Callee] IN
  /\ \/ /\ At("pause", 1)
        /\ \/ ~r.taskRun /\ Return /\ UNCHANGED el
           \/ /\ r.taskRun /\ r.state \in {"PAUSED", "STOPPED", "FINISHED", "ERROR"}
              /\ Update([r EXCEPT !.state = "PAUSED"])
              /\ Return
           \/ /\ r.taskRun /\ r.state \in {"INIT", "INITIALIZING", "RUNNING"}
              /\ IF Callee \in HasTask
                 THEN Without("PAUSED") /\ Goto(2)
                 ELSE /\ Update([r EXCEPT !.bits = @ \ {"PAUSED"}, !.isRunning = FALSE,
                                          !.state = "PAUSED"])
                      /\ Return
        /\ UNCHANGED cmdq
     \/ /\ At("pause", 2)
        /\ \/ QueueFull /\ GiveUp /\ UNCHANGED cmdq
           \/ ~QueueFull /\ SendCmd("PAUSE") /\ Goto(3)
        /\ UNCHANGED el
     \/ /\ At("pause", 3)
        /\ Waited("PAUSED")
        /\ UNCHANGED <<el, cmdq>>
  /\ UNCHANGED <<pc, todo, ring, live>>

\* audio_element_stop
ElementStop ==
  LET r == el[Callee] IN
  /\ \/ /\ At("stop", 1)
        /\ \/ ~r.taskRun /\ Return /\ UNCHANGED el
           \/ /\ r.taskRun
              /\ Update(IF r.state = "PAUSED" THEN [r EXCEPT !.wait = "zero"] ELSE r)
              /\ Goto(2)
        /\ UNCHANGED <<cmdq, ring>>
     \/ /\ At("stop", 2)
        /\ \/ ~r.isRunning /\ With("STOPPED") /\ Return /\ UNCHANGED ring
           \/ /\ r.isRunning
              /\ ring' = RingsAfter("abort", InRing(Callee) \cup OutRing(Callee))
              /\ Goto(3)
              /\ UNCHANGED el
        /\ UNCHANGED cmdq
     \/ /\ At("stop", 3)
        /\ Goto(IF r.state = "RUNNING" THEN 4 ELSE 5)
        /\ UNCHANGED <<el, cmdq, ring>>
     \/ /\ At("stop", 4)
        /\ Without("STOPPED")
        /\ Goto(5)
        /\ UNCHANGED <<cmdq, ring>>
     \/ /\ At("stop", 5)
        /\ \/ /\ Callee \notin HasTask
              /\ Update([r EXCEPT !.isRunning = FALSE, !.state = "STOPPED",
                                  !.bits = @ \cup {"STOPPED"}])
              /\ Return
           \/ Callee \in HasTask /\ r.stopping /\ Return /\ UNCHANGED el
           \/ /\ Callee \in HasTask /\ ~r.stopping
              /\ Update([r EXCEPT !.stopping = TRUE])
              /\ Goto(6)
        /\ UNCHANGED <<cmdq, ring>>
     \/ /\ At("stop", 6)
        /\ \/ QueueFull /\ Update([r EXCEPT !.stopping = FALSE]) /\ GiveUp /\ UNCHANGED cmdq
           \/ ~QueueFull /\ SendCmd("STOP") /\ Return /\ UNCHANGED el
        /\ UNCHANGED ring
  /\ UNCHANGED <<pc, todo, live>>

\* audio_element_wait_for_stop_ms with portMAX_DELAY, then audio_element_reset_state,
\* as __audio_pipeline_wait_stop calls them; audio_element_wait_for_stop ("wait_ms").
ElementWait ==
  LET r == el[Callee] IN
  /\ \/ /\ At("wait", 1)
        /\ Goto(IF r.isRunning THEN 2 ELSE 3)
        /\ UNCHANGED el
     \/ /\ At("wait", 2) /\ Seen("STOPPED")
        /\ Goto(3)
        /\ UNCHANGED el
     \/ /\ At("wait", 3)
        /\ Update([r EXCEPT !.state = "INIT"])
        /\ Return
     \/ /\ At("wait_ms", 1)
        /\ IF r.isRunning THEN Goto(2) ELSE Return
        /\ UNCHANGED el
     \/ /\ At("wait_ms", 2)
        /\ Waited("STOPPED")
        /\ UNCHANGED el
  /\ UNCHANGED <<taskVars, ring, live>>

\* audio_element_reset_input_ringbuf, _reset_output_ringbuf; audio_element_reset_state
ElementReset ==
  /\ \/ /\ At("reset_rings", 1)
        /\ ring' = RingsAfter("reset", InRing(Callee) \cup OutRing(Callee))
        /\ UNCHANGED el
     \/ /\ At("reset_state", 1)
        /\ Update([el[Callee] EXCEPT !.state = "INIT"])
        /\ UNCHANGED ring
  /\ Return
  /\ UNCHANGED <<taskVars, live>>

\* audio_element_terminate
ElementTerminate ==
  LET r == el[Callee] IN
  /\ \/ /\ At("terminate", 1)
        /\ \/ ~r.taskRun /\ Return /\ UNCHANGED el
           \/ /\ r.taskRun /\ Callee \notin HasTask
              /\ Update([r EXCEPT !.taskRun = FALSE, !.isRunning = FALSE])
              /\ Return
           \/ r.taskRun /\ Callee \in HasTask /\ Goto(2) /\ UNCHANGED el
        /\ UNCHANGED cmdq
     \/ /\ At("terminate", 2)
        /\ Without("DESTROYED")
        /\ \/ QueueFull /\ GiveUp /\ UNCHANGED cmdq
           \/ ~QueueFull /\ SendCmd("DESTROY") /\ Goto(3)
     \/ /\ At("terminate", 3)
        /\ Waited("DESTROYED")
        /\ UNCHANGED <<el, cmdq>>
  /\ UNCHANGED <<pc, todo, ring, live>>

\* The end of audio_element_deinit: the element and its event group are freed.
ElementFree ==
  /\ At("free", 1)
  /\ live' = live \ {Callee}
  /\ Return
  /\ UNCHANGED <<el, taskVars, ring>>

\* What the pipeline operations do between and after the element calls.
Between ==
  /\ \/ /\ At("ran", 1)
        /\ pstate' = IF failed THEN "ERROR" ELSE "RUNNING"
        /\ agenda' = IF failed THEN Over("terminate") ELSE <<>>
        /\ UNCHANGED ring
     \/ /\ At("resumed", 1)
        /\ pstate' = "RUNNING" /\ agenda' = Tail(agenda)
        /\ UNCHANGED ring
     \/ /\ At("waited", 1)
        /\ pstate' = "INIT" /\ agenda' = Tail(agenda)
        /\ UNCHANGED ring
     \/ /\ At("unlink", 1)
        /\ ring' = [i \in DOMAIN ring |-> [ring[i] EXCEPT !.there = FALSE]]
        /\ agenda' = Tail(agenda)
        /\ UNCHANGED pstate
  /\ at' = 1
  /\ UNCHANGED <<el, taskVars, live, last, failed, fault>>

ElementCall ==
  \/ ElementRun \/ ElementResume \/ ElementPause \/ ElementStop \/ ElementWait
  \/ ElementReset \/ ElementTerminate \/ ElementFree

\* raw_stream_read by the task that takes the chain's output from a raw element.
Drain ==
  /\ Chain[Last] \notin HasTask /\ Last > 1
  /\ LET i == Last - 1 IN
       /\ ring[i].there /\ ring[i].n > 0 /\ ~ring[i].abort
       /\ ring' = [ring EXCEPT ![i].n = @ - 1]
  /\ UNCHANGED <<el, taskVars, live, callVars>>

\* The pipeline is gone: the caller is done with it.
Gone == live = {} /\ agenda = <<>> /\ UNCHANGED vars

Next ==
  \/ Operation
  \/ ElementCall
  \/ Between
  \/ Drain
  \/ Gone
  \/ \E e \in HasTask : Task(e) \/ Fail(e)

Spec == Init /\ [][Next]_vars

\* The scheduler runs the caller inside an operation, and every ready task.
Fairness ==
  /\ WF_vars(ElementCall) /\ WF_vars(Between)
  /\ \A e \in HasTask : WF_vars(Task(e))
FairSpec == Spec /\ Fairness

(***************************************************************************)
(* Properties.                                                             *)
(***************************************************************************)
\* As long as no wait expired, no command was refused and no allocation failed, a
\* freed element has no task left: the task of audio_element_task touches the
\* structure until its last event bit, and audio_element_deinit frees it.
NoUseAfterFree == ~fault => \A e \in HasTask : e \notin live => ~Uses(e)

\* Likewise, no task is inside process, and so inside rb_read or rb_write, of a ring
\* buffer that audio_pipeline_unlink has destroyed.
NoDestroyedRing ==
  ~fault => \A e \in HasTask :
              pc[e] = "busy" => \A i \in InRing(e) \cup OutRing(e) : ring[i].there

\* Likewise, an element never gets a second task while the first still runs.
OneTask ==
  ~fault /\ At("run", 1) /\ Callee \in HasTask /\ ~el[Callee].taskRun
    /\ el[Callee].state \in {"INIT", "STOPPED", "FINISHED", "ERROR"}
  => ~Uses(Callee)

\* Likewise, "stopping" is only set while a STOP is under way: otherwise every later stop of
\* the element returns early and nothing ever stops it.
StopUnderWay ==
  ~fault => \A e \in HasTask : el[e].stopping =>
     \/ \E k \in DOMAIN cmdq[e] : cmdq[e][k] = "STOP"
     \/ At("stop", 6) /\ Callee = e
     \/ <<"stopping", FALSE>> \in {todo[e][k] : k \in DOMAIN todo[e]}

\* The caller is in the wait of function f for a bit that is not set yet.
WaitsIn(f, k, e, b) == At(f, k) /\ Callee = e /\ b \notin el[e].bits
Queued(e, c) == \E k \in DOMAIN cmdq[e] : cmdq[e][k] = c
Pending(e, w) == \E k \in DOMAIN todo[e] : todo[e][k] = w

\* Likewise, a caller that waits for an event bit of an element waits for something under way:
\* the task is alive, and still has the command to take or the bit to set.  For the two waits
\* for a stop it is enough that the element runs, as every way out of process sets the bit.
\* Otherwise xEventGroupWaitBits only ends with its 2 s, and that of
\* audio_pipeline_wait_for_stop, which has no limit, never.
AnswerComes ==
  ~fault => \A e \in HasTask :
    LET inLoop == pc[e] \notin {"none", "begin", "init", "exit"} IN
    /\ WaitsIn("run", 2, e, "CREATED") =>
         pc[e] = "begin" \/ (pc[e] = "init" /\ Pending(e, Set("CREATED")))
    /\ WaitsIn("resume", 3, e, "RESUMED") =>
         (inLoop \/ pc[e] = "init") /\ (Queued(e, "RESUME") \/ Pending(e, Set("RESUMED")))
    /\ WaitsIn("pause", 3, e, "PAUSED") =>
         (inLoop \/ pc[e] = "init") /\ (Queued(e, "PAUSE") \/ Pending(e, Set("PAUSED")))
    /\ WaitsIn("wait", 2, e, "STOPPED") \/ WaitsIn("wait_ms", 2, e, "STOPPED") =>
         inLoop /\ (el[e].isRunning \/ Pending(e, Set("STOPPED")))
    /\ WaitsIn("terminate", 3, e, "DESTROYED") =>
         \/ (inLoop \/ pc[e] = "init") /\ Queued(e, "DESTROY")
         \/ pc[e] = "exit" /\ Pending(e, Set("DESTROYED"))

\* A task that is not running its element sleeps on the command queue.
IdleSleeps ==
  \A e \in HasTask : pc[e] = "wait" /\ todo[e] = <<>> /\ ~el[e].isRunning => el[e].wait = "max"

\* When audio_pipeline_wait_for_stop returns, every element has stopped: no task is
\* inside open or process.
StoppedWhenWaited ==
  At("waited", 1) => \A e \in HasTask : pc[e] \notin {"open", "reopen", "busy"}

\* Every pipeline operation returns: no call waits for ever for a task that does
\* not set its bit.
OperationsReturn == agenda # <<>> ~> agenda = <<>>
=============================================================================
