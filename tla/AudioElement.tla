---------------------------- MODULE AudioElement ----------------------------
(***************************************************************************)
(* The audio elements of the ADF pipeline (lib/audio_pipeline/             *)
(* audio_element.c, with the command queue of audio_event_iface.c), run by *)
(* one pipeline (audio_pipeline.c) and the task that calls it.             *)
(*                                                                         *)
(* An element of HasTask owns a FreeRTOS task that takes commands from the *)
(* element's internal queue and calls open, process and close.  The caller *)
(* and the tasks share struct audio_element without a lock: the tasks      *)
(* write its fields one after another (a handler is the sequence of its    *)
(* writes, kept in "todo"), the caller reads and writes them in between.   *)
(* The other elements (raw_stream) are driven by whoever reads them.       *)
(***************************************************************************)
EXTENDS Naturals, Sequences, FiniteSets

CONSTANTS Chain,      \* the linked elements, in order: a sequence
          HasTask,    \* those with task_stack > 0
          QueueLen,   \* internal_queue_size (5)
          RingCap,    \* frames that fit in a ring buffer of the chain
          Follows     \* the caller: <<op, next>> when it may call next after op

Elements == {Chain[i] : i \in DOMAIN Chain}
Last == Len(Chain)

Operations == {"run", "pause", "resume", "stop", "wait_for_stop", "reset",
               "terminate", "deinit"}

ASSUME ChainAssumption ==
  /\ Chain \in Seq(Elements) \ {<<>>}
  /\ \A i, j \in DOMAIN Chain : Chain[i] = Chain[j] => i = j
  /\ HasTask \subseteq Elements
  /\ QueueLen \in Nat \ {0} /\ RingCap \in Nat \ {0}
  /\ Follows \subseteq ({"init"} \cup Operations) \X Operations

VARIABLES
  el,      \* struct audio_element, by element
  cmdq,    \* iface_event->internal_queue, by element
  pc,      \* where the element's task is; "none" when there is no task
  todo,    \* the writes of the handler in progress, by element
  ring,    \* ring[i] is the buffer between Chain[i] and Chain[i + 1]
  live,    \* the elements that are not freed yet
  pstate,  \* pipeline->state
  last,    \* the pipeline operation called last; "init" at first
  agenda,  \* the element calls the pipeline operation in progress still makes
  at,      \* the step reached in the first of them
  failed,  \* ret of audio_pipeline_resume is ESP_FAIL
  fault    \* history: an allocation failed, a command was refused or a wait expired

taskVars == <<cmdq, pc, todo>>
callVars == <<pstate, last, agenda, at, failed, fault>>
vars == <<el, taskVars, ring, live, callVars>>

States == {"INIT", "INITIALIZING", "RUNNING", "PAUSED", "STOPPED", "FINISHED", "ERROR"}
Bits == {"STOPPED", "CREATED", "DESTROYED", "PAUSED", "RESUMED"}
Commands == {"STOP", "PAUSE", "RESUME", "DESTROY"}

Indices == DOMAIN Chain
Pos(e) == CHOOSE i \in Indices : Chain[i] = e
\* The positions of the rings next to element e: input_rb and output_rb.
InRing(e) == {Pos(e) - 1} \ {0}
OutRing(e) == {Pos(e)} \ {Last}

(***************************************************************************)
(* Handlers, as the sequence of their writes to the element.               *)
(***************************************************************************)
Set(b) == <<"set", b>>
Clear(b) == <<"clear", b>>

\* One write of a handler, applied to the element's structure.
Written(r, w) ==
  IF w[1] = "set" THEN [r EXCEPT !.bits = @ \cup {w[2]}]
  ELSE IF w[1] = "clear" THEN [r EXCEPT !.bits = @ \ {w[2]}]
  ELSE IF w[1] = "rings" THEN r
  ELSE [r EXCEPT ![w[1]] = w[2]]

\* audio_element_on_cmd_error
OnError(r) ==
  IF r.state = "STOPPED" THEN <<>>
  ELSE << <<"isOpen", FALSE>>, <<"state", "ERROR">>, <<"wait", "max">>,
          <<"isRunning", FALSE>>, Set("STOPPED") >>

\* Mutants: the handler leaves the wait at zero; it forgets the STOPPED bit too; it returns
\* early with "stopping" set.
MutOnStop(r) ==
  << <<"isOpen", FALSE>>, <<"state", "STOPPED">>, <<"isRunning", FALSE>>,
     <<"stopping", FALSE>>, Set("STOPPED") >>
MutOnStopSilent(r) ==
  << <<"isOpen", FALSE>>, <<"state", "STOPPED">>, <<"isRunning", FALSE>>,
     <<"stopping", FALSE>> >>
MutOnStopEarly(r) ==
  IF r.state = "STOPPED" /\ ~r.isRunning THEN <<>>
  ELSE << <<"isOpen", FALSE>>, <<"state", "STOPPED">>, <<"wait", "max">>,
          <<"isRunning", FALSE>>, <<"stopping", FALSE>>, Set("STOPPED") >>

\* audio_element_on_cmd_stop
OnStop(r) ==
  IF r.state \notin {"FINISHED", "STOPPED"}
  THEN << <<"isOpen", FALSE>>, <<"state", "STOPPED">>, <<"wait", "max">>,
          <<"isRunning", FALSE>>, <<"stopping", FALSE>>, Set("STOPPED") >>
  ELSE IF r.state = "STOPPED" /\ ~r.isRunning
  THEN << <<"stopping", FALSE>> >>
  ELSE << <<"state", "STOPPED">>, <<"isRunning", FALSE>>, <<"stopping", FALSE>>,
          Set("STOPPED") >>

\* audio_element_on_cmd_finish
OnFinish(r) ==
  IF r.state \in {"ERROR", "STOPPED"} THEN <<>>
  ELSE << <<"isOpen", FALSE>>, <<"state", "FINISHED">>, <<"wait", "max">>,
          <<"isRunning", FALSE>>, Set("STOPPED") >>

\* AEL_MSG_CMD_PAUSE in audio_element_on_cmd
OnPause ==
  << <<"state", "PAUSED">>, <<"isOpen", FALSE>>, <<"wait", "max">>,
     <<"isRunning", FALSE>>, Set("PAUSED") >>

\* Mutant: RESUMED is set before is_running.
MutOnResume(r) ==
  << Set("RESUMED"), <<"isRunning", TRUE>>, <<"isOpen", TRUE>>,
     <<"state", "INITIALIZING">> >>

\* audio_element_on_cmd_resume up to the call of open.
OnResume(r) ==
  IF r.state = "RUNNING" THEN << <<"isRunning", TRUE>>, Set("RESUMED") >>
  ELSE (IF r.state \in {"INIT", "PAUSED"} THEN <<>> ELSE << <<"rings", "reset">> >>)
       \o << <<"isRunning", TRUE>>, Set("RESUMED"),
             <<"isOpen", TRUE>>, <<"state", "INITIALIZING">> >>

\* The rest of it: audio_element_process_init after open has returned.
Opened == << <<"state", "RUNNING">>, <<"wait", "zero">>, Clear("STOPPED") >>
OpenFailed(r, res) ==
  (IF res = "ABORT" THEN OnStop(r)
   ELSE << <<"state", "ERROR">> >> \o OnError([r EXCEPT !.state = "ERROR"]))
  \o << <<"rings", "abort">>, <<"isRunning", FALSE>> >>

\* Mutant: the task says it is destroyed before it is.
MutOnExit(r) ==
  << <<"isOpen", FALSE>>, <<"stopping", FALSE>>, Set("DESTROYED"), <<"taskRun", FALSE>>,
     Set("STOPPED"), Set("RESUMED") >>

\* The end of audio_element_task, after its loop.
OnExit(r) ==
  (IF r.isOpen THEN << <<"state", "STOPPED">> >> ELSE <<>>)
  \o << <<"isOpen", FALSE>>, <<"stopping", FALSE>>, <<"taskRun", FALSE>>,
        Set("STOPPED"), Set("RESUMED"), Set("DESTROYED") >>

(***************************************************************************)
(* The ring buffers of the chain, as far as elements can tell them apart.  *)
(***************************************************************************)
EmptyRing == [n |-> 0, done |-> FALSE, abort |-> FALSE, there |-> TRUE]

\* rb_abort / rb_reset / rb_done_write on a set of rings.
RingsAfter(how, is) ==
  [i \in DOMAIN ring |->
     IF i \notin is \/ ~ring[i].there THEN ring[i]
     ELSE IF how = "reset" THEN EmptyRing
     ELSE [ring[i] EXCEPT ![how] = TRUE]]

(***************************************************************************)
(* The element's task: audio_element_task.                                 *)
(***************************************************************************)
TypeOK ==
  /\ el \in [Elements -> [state : States, isOpen : BOOLEAN, isRunning : BOOLEAN,
                          taskRun : BOOLEAN, stopping : BOOLEAN,
                          wait : {"zero", "max"}, bits : SUBSET Bits]]
  /\ \A e \in Elements : /\ cmdq[e] \in Seq(Commands)
                         /\ Len(cmdq[e]) <= QueueLen
  /\ pc \in [Elements -> {"none", "begin", "init", "wait", "blocked", "open",
                          "reopen", "process", "busy", "exit"}]
  /\ ring \in [1 .. Last - 1 -> [n : 0 .. RingCap, done : BOOLEAN,
                                 abort : BOOLEAN, there : BOOLEAN]]
  /\ live \subseteq Elements
  /\ pstate \in {"INIT", "RUNNING", "ERROR"}
  /\ last \in {"init"} \cup Operations
  /\ failed \in BOOLEAN /\ fault \in BOOLEAN

\* The task goes on at p after the writes ws.
Then(e, p, ws) ==
  /\ pc' = [pc EXCEPT ![e] = p]
  /\ todo' = [todo EXCEPT ![e] = ws]

\* The task's next write.  "rings" writes touch the neighbouring ring buffers.
Write(e) ==
  /\ todo[e] # <<>>
  /\ LET w == Head(todo[e]) IN
       /\ el' = [el EXCEPT ![e] = Written(@, w)]
       /\ \/ w[1] # "rings" /\ UNCHANGED ring
          \/ w = <<"rings", "abort">> /\ ring' = RingsAfter("abort", InRing(e) \cup OutRing(e))
          \/ /\ w \in {<<"rings", "reset">>, <<"rings", "done">>}
             /\ ring' = RingsAfter(w[2], OutRing(e))
  /\ todo' = [todo EXCEPT ![e] = Tail(@)]
  /\ UNCHANGED <<cmdq, pc, live, callVars>>

Begin(e) ==
  /\ pc[e] = "begin" /\ todo[e] = <<>>
  /\ Then(e, "init", << <<"taskRun", TRUE>>, Set("CREATED"), <<"state", "INIT">>,
                        <<"wait", "max">> >>)
  /\ UNCHANGED <<el, cmdq, ring, live, callVars>>

\* The element buffer is allocated, or the task gives up.
Allocate(e) ==
  /\ pc[e] = "init" /\ todo[e] = <<>>
  /\ \/ Then(e, "wait", << Clear("STOPPED") >>) /\ UNCHANGED fault
     \/ /\ Then(e, "exit", << <<"taskRun", FALSE>>, Clear("STOPPED") >> \o OnExit(el[e]))
        /\ fault' = TRUE
  /\ UNCHANGED <<el, cmdq, ring, live, pstate, last, agenda, at, failed>>

\* audio_event_iface_waiting_cmd_msg with an empty queue: it waits for ever or not
\* at all, as wait_time says at the moment of the call.
Wait(e) ==
  /\ pc[e] = "wait" /\ todo[e] = <<>>
  /\ cmdq[e] = <<>>
  /\ Then(e, IF el[e].wait = "max" THEN "blocked" ELSE "process", <<>>)
  /\ UNCHANGED <<el, cmdq, ring, live, callVars>>

\* audio_element_on_cmd
Command(e) ==
  /\ pc[e] \in {"wait", "blocked"} /\ todo[e] = <<>>
  /\ cmdq[e] # <<>>
  /\ cmdq' = [cmdq EXCEPT ![e] = Tail(@)]
  /\ \/ Head(cmdq[e]) = "STOP" /\ Then(e, "process", OnStop(el[e]))
     \/ Head(cmdq[e]) = "PAUSE" /\ Then(e, "process", OnPause)
     \/ /\ Head(cmdq[e]) = "RESUME"
        /\ Then(e, IF el[e].state = "RUNNING" THEN "process" ELSE "open", OnResume(el[e]))
     \/ /\ Head(cmdq[e]) = "DESTROY"
        /\ Then(e, "exit", << <<"isRunning", FALSE>>, Set("STOPPED") >> \o OnExit(el[e]))
  /\ UNCHANGED <<el, ring, live, callVars>>

\* open returns, to the command loop ("open") or to process_running ("reopen").
\* AEL_IO_DONE is taken as success.
Open(e) ==
  /\ pc[e] \in {"open", "reopen"} /\ todo[e] = <<>>
  /\ LET next == IF pc[e] = "open" THEN "process" ELSE "wait" IN
       \/ Then(e, next, Opened)
       \/ \E res \in {"ABORT", "FAIL"} :
            Then(e, next, OpenFailed(el[e], res)
                          \o (IF pc[e] = "open" THEN << Set("STOPPED") >> ELSE <<>>))
  /\ UNCHANGED <<el, cmdq, ring, live, callVars>>

\* audio_element_process_running
Process(e) ==
  /\ pc[e] = "process" /\ todo[e] = <<>>
  /\ Then(e, IF el[e].state \in {"INIT", "INITIALIZING"} \/ ~el[e].isRunning
             THEN "wait" ELSE "busy", <<>>)
  /\ UNCHANGED <<el, cmdq, ring, live, callVars>>

\* Mutant: process writes to a full ring buffer.
MutCanMove(e) == \A i \in InRing(e) : ring[i].n > 0

\* What process can return now: a frame moved, the input's end, an abort.
CanMove(e) ==
  /\ \A i \in InRing(e) : ring[i].n > 0
  /\ \A i \in OutRing(e) : ring[i].n < RingCap
Aborted(e) == \E i \in InRing(e) \cup OutRing(e) : ring[i].abort
AtEnd(e) == \A i \in InRing(e) : ring[i].n = 0 /\ ring[i].done

Busy(e) ==
  /\ pc[e] = "busy" /\ todo[e] = <<>>
  /\ \/ /\ CanMove(e) /\ ~Aborted(e)
        /\ ring' = [i \in DOMAIN ring |->
                      IF i \in InRing(e) THEN [ring[i] EXCEPT !.n = @ - 1]
                      ELSE IF i \in OutRing(e) THEN [ring[i] EXCEPT !.n = @ + 1]
                      ELSE ring[i]]
        /\ Then(e, "wait", <<>>)
     \/ /\ Aborted(e)
        /\ Then(e, "wait", OnStop(el[e]))
        /\ UNCHANGED ring
     \/ /\ AtEnd(e) /\ ~Aborted(e)
        /\ IF el[e].state = "INIT"
           THEN Then(e, "reopen", OnResume(el[e]))
           ELSE Then(e, "wait", << <<"rings", "done">> >> \o OnFinish(el[e]))
        /\ UNCHANGED ring
  /\ UNCHANGED <<el, cmdq, live, callVars>>

\* AEL_IO_FAIL and AEL_PROCESS_FAIL: nothing makes process fail, so it is no part of
\* what a fair task must do.
Fail(e) ==
  /\ pc[e] = "busy" /\ todo[e] = <<>>
  /\ Then(e, "wait", OnError(el[e]))
  /\ UNCHANGED <<el, cmdq, ring, live, callVars>>

\* vTaskDelete: the task is gone.
Exit(e) ==
  /\ pc[e] = "exit" /\ todo[e] = <<>>
  /\ Then(e, "none", <<>>)
  /\ UNCHANGED <<el, cmdq, ring, live, callVars>>

\* The task of e still has something to read or write in e: all of it but vTaskDelete.
Uses(e) == pc[e] # "none" /\ ~(pc[e] = "exit" /\ todo[e] = <<>>)

Task(e) ==
  \/ Write(e) \/ Begin(e) \/ Allocate(e) \/ Wait(e) \/ Command(e)
  \/ Open(e) \/ Process(e) \/ Busy(e) \/ Exit(e)
=============================================================================
