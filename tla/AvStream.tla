------------------------------- MODULE AvStream -------------------------------
(***************************************************************************)
(* The audio of a call (lib/av_stream/av_stream.c): what the SIP event     *)
(* handler's SESSION_BEGIN starts and its SESSION_END stops, with the two  *)
(* tasks in between and the two callbacks through which the RTC library    *)
(* takes the microphone's frames and delivers the remote's.                *)
(*                                                                         *)
(* The five actors share struct _av_stream_handle without a lock.  Its     *)
(* buffers, queue, event groups and pipeline are handles that the event    *)
(* task creates and frees one by one; every step of an actor that needs    *)
(* one is named after it in "Needs".  AudioPipeline models what happens    *)
(* inside the encoder's pipeline.                                          *)
(***************************************************************************)
EXTENDS Naturals, FiniteSets

CONSTANTS MaxSessions, \* bound: the sessions of a run
          RtpQuiet     \* assumed of the library, whose source is not here: no callback
                       \* runs while it signals SESSION_END

ASSUME AvAssumption ==
  /\ MaxSessions \in Nat
  /\ RtpQuiet \in BOOLEAN

VARIABLES
  pc,       \* where the event task (sip), the tasks and the callbacks are
  run,      \* aenc_run and adec_run, as the set of those that are true
  handle,   \* the pointers of the structure: null, live or freed
  stopped,  \* the event groups whose ENCODER_STOPPED_BIT is set
  ring,     \* the pipeline's last ring buffer: running, aborted, or idle
  queue,    \* the frames in aenc_queue: one at most
  held,     \* the frame an actor holds, or None
  frames,   \* the frames that are allocated
  starved,  \* history: an allocation or the creation of a task failed
  wild,     \* history: the actors that used a handle that was not live
  down,     \* a failed assertion or null pointer rebooted the device
  sessions  \* how many sessions have begun

vars == <<pc, run, handle, stopped, ring, queue, held, frames, starved, wild, down, sessions>>

Actors == {"sip", "enc", "dec", "tx", "rx"}
Handles == {"audio_enc", "aenc_queue", "aenc_state", "adec_buf", "ringbuf_dec", "adec_state"}
Frames == 1 .. 3
None == 0

Starting == {"pipeline", "enc_run", "queue", "enc_group", "enc_task",
             "dec_buf", "dec_ring", "dec_run", "dec_group", "dec_task"}
Stopping == {"stop_enc", "stop_pipeline", "free_pipeline", "wait_enc", "drain", "free_queue",
             "stop_dec", "wait_dec", "free_buf", "free_ring"}
Steps == {"idle", "talk"} \cup Starting \cup Stopping \cup
         {"none", "clear_enc", "alloc_enc", "test_enc", "read", "frame", "send", "set_enc",
          "clear_dec", "alloc_dec", "test_dec", "play", "set_dec",
          "receive", "copy", "decode", "write"}

\* The handle a step dereferences.
Needs ==
  [stop_pipeline |-> "audio_enc", free_pipeline |-> "audio_enc", wait_enc |-> "aenc_state",
   drain |-> "aenc_queue", free_queue |-> "aenc_queue", wait_dec |-> "adec_state",
   clear_enc |-> "aenc_state", read |-> "audio_enc", send |-> "aenc_queue",
   set_enc |-> "aenc_state", clear_dec |-> "adec_state", play |-> "ringbuf_dec",
   set_dec |-> "adec_state",
   receive |-> "aenc_queue", decode |-> "adec_buf", write |-> "ringbuf_dec"]

TypeOK ==
  /\ pc \in [Actors -> Steps]
  /\ pc["sip"] \in {"idle", "talk"} \cup Starting \cup Stopping
  /\ run \subseteq {"enc", "dec"} /\ stopped \subseteq {"enc", "dec"}
  /\ handle \in [Handles -> {"null", "live", "freed"}]
  /\ ring \in {"idle", "running", "aborted"}
  /\ queue \subseteq Frames /\ \A f, g \in queue : f = g
  /\ held \in [Actors -> Frames \cup {None}]
  /\ frames \subseteq Frames
  /\ starved \in BOOLEAN /\ down \in BOOLEAN /\ wild \subseteq Actors
  /\ sessions \in 0 .. MaxSessions

Init ==
  /\ pc = [a \in Actors |-> IF a \in {"enc", "dec"} THEN "none" ELSE "idle"]
  /\ run = {} /\ stopped = {}
  /\ handle = [h \in Handles |-> "null"]
  /\ ring = "idle"
  /\ queue = {} /\ held = [a \in Actors |-> None] /\ frames = {}
  /\ starved = FALSE /\ wild = {} /\ down = FALSE
  /\ sessions = 0

(***************************************************************************)
(* Steps.                                                                  *)
(***************************************************************************)
\* Actor a is at step p, needs a live handle there if any, and goes on at q.
Step(a, p, q) ==
  /\ pc[a] = p
  /\ p \in DOMAIN Needs => handle[Needs[p]] = "live"
  /\ pc' = [pc EXCEPT ![a] = q]

Point(h, v) == handle' = [handle EXCEPT ![h] = v]

flow == <<run, stopped, ring>>
data == <<queue, held, frames>>
ghosts == <<starved, wild, down, sessions>>

\* A step that finds its handle null reboots the device, and one that finds it freed
\* goes on with memory of somebody else.  The callbacks' null pointers count as wild.
Stray(a) ==
  /\ pc[a] \in DOMAIN Needs
  /\ LET v == handle[Needs[pc[a]]] IN
       /\ v # "live"
       /\ IF v = "null" /\ a \notin {"tx", "rx"}
          THEN down' = TRUE /\ UNCHANGED wild
          ELSE wild' = wild \cup {a} /\ UNCHANGED down
  /\ UNCHANGED <<pc, handle, flow, data, starved, sessions>>

(***************************************************************************)
(* SESSION_BEGIN: av_audio_enc_start, then av_audio_dec_start, whatever    *)
(* the first returned.                                                     *)
(***************************************************************************)
SessionBegin ==
  /\ sessions < MaxSessions
  /\ Step("sip", "idle", "pipeline")
  /\ sessions' = sessions + 1
  /\ UNCHANGED <<handle, flow, data, starved, wild, down>>

\* An object is created, or the function returns at once.
Create(p, h, q, giveUp) ==
  /\ \/ Step("sip", p, q) /\ Point(h, "live") /\ UNCHANGED starved
     \/ Step("sip", p, giveUp) /\ Point(h, "null") /\ starved' = TRUE
  /\ UNCHANGED <<flow, data, wild, down, sessions>>

\* The pipeline algorithm -> raw: not there, running, or there and not running, since the
\* result of audio_pipeline_run is ignored.
EncPipeline ==
  /\ \/ /\ Step("sip", "pipeline", "dec_buf") /\ Point("audio_enc", "null")
        /\ starved' = TRUE /\ UNCHANGED ring
     \/ /\ Step("sip", "pipeline", "enc_run") /\ Point("audio_enc", "live")
        /\ \/ ring' = "running" /\ UNCHANGED starved
           \/ ring' = "idle" /\ starved' = TRUE
  /\ UNCHANGED <<run, stopped, data, wild, down, sessions>>

EncRun ==
  /\ Step("sip", "enc_run", "queue")
  /\ run' = run \cup {"enc"}
  /\ UNCHANGED <<handle, stopped, ring, data, ghosts>>

\* xQueueCreate and xEventGroupCreate are not checked.
EncQueue == Create("queue", "aenc_queue", "enc_group", "enc_group")
EncGroup ==
  /\ Step("sip", "enc_group", "enc_task")
  /\ \/ Point("aenc_state", "live") /\ UNCHANGED starved
     \/ Point("aenc_state", "null") /\ starved' = TRUE
  /\ stopped' = stopped \ {"enc"}
  /\ UNCHANGED <<run, ring, data, wild, down, sessions>>

\* audio_thread_create
CreateTask(a, p, q, first) ==
  /\ pc["sip"] = p
  /\ \/ pc' = [pc EXCEPT !["sip"] = q, ![a] = first] /\ UNCHANGED starved
     \/ pc' = [pc EXCEPT !["sip"] = q] /\ starved' = TRUE
  /\ UNCHANGED <<handle, flow, data, wild, down, sessions>>

EncTask == CreateTask("enc", "enc_task", "dec_buf", "clear_enc")

\* Mutant: adec_run is set before the buffers are there.
MutDecBuf ==
  /\ \/ Step("sip", "dec_buf", "dec_ring") /\ Point("adec_buf", "live") /\ UNCHANGED starved
     \/ Step("sip", "dec_buf", "talk") /\ Point("adec_buf", "null") /\ starved' = TRUE
  /\ run' = run \cup {"dec"}
  /\ UNCHANGED <<stopped, ring, data, wild, down, sessions>>

DecBuf == Create("dec_buf", "adec_buf", "dec_ring", "talk")
DecRing == Create("dec_ring", "ringbuf_dec", "dec_run", "talk")

DecRun ==
  /\ Step("sip", "dec_run", "dec_group")
  /\ run' = run \cup {"dec"}
  /\ UNCHANGED <<handle, stopped, ring, data, ghosts>>
DecGroup ==
  /\ Step("sip", "dec_group", "dec_task")
  /\ \/ Point("adec_state", "live") /\ UNCHANGED starved
     \/ Point("adec_state", "null") /\ starved' = TRUE
  /\ stopped' = stopped \ {"dec"}
  /\ UNCHANGED <<run, ring, data, wild, down, sessions>>
DecTask == CreateTask("dec", "dec_task", "talk", "clear_dec")

(***************************************************************************)
(* SESSION_END: av_audio_enc_stop, then av_audio_dec_stop.                 *)
(***************************************************************************)
\* The handler itself waits for no callback: RtpQuiet is the library's to keep.
SessionEnd ==
  /\ Step("sip", "talk", "stop_enc")
  /\ RtpQuiet => pc["tx"] = "idle" /\ pc["rx"] = "idle"
  /\ UNCHANGED <<handle, flow, data, ghosts>>

StopEnc ==
  /\ Step("sip", "stop_enc", "stop_pipeline")
  /\ run' = run \ {"enc"}
  /\ UNCHANGED <<handle, stopped, ring, data, ghosts>>

\* Mutant: the ring buffer of the blocked reader is not aborted.
MutStopPipeline ==
  /\ Step("sip", "stop_pipeline", "free_pipeline")
  /\ UNCHANGED <<handle, flow, data, ghosts>>

\* audio_pipeline_stop does nothing to a pipeline that is not RUNNING.
StopPipeline ==
  /\ Step("sip", "stop_pipeline", "free_pipeline")
  /\ ring' = IF ring = "running" THEN "aborted" ELSE ring
  /\ UNCHANGED <<handle, run, stopped, data, ghosts>>

\* audio_pipeline_wait_for_stop and audio_pipeline_deinit: they wait for the tasks of the
\* pipeline, of which _audio_enc is none.
FreePipeline ==
  /\ Step("sip", "free_pipeline", "wait_enc")
  /\ Point("audio_enc", "freed")
  /\ UNCHANGED <<flow, data, ghosts>>

\* Mutant: the event task does not wait for the encoder task.
MutWaitEnc ==
  /\ Step("sip", "wait_enc", "drain")
  /\ Point("aenc_state", "freed")
  /\ UNCHANGED <<flow, data, ghosts>>

WaitEnc ==
  /\ Step("sip", "wait_enc", "drain")
  /\ "enc" \in stopped
  /\ Point("aenc_state", "freed")
  /\ UNCHANGED <<flow, data, ghosts>>

\* Mutant: the frame left in the queue is not freed.
MutDrain ==
  /\ Step("sip", "drain", "free_queue")
  /\ queue' = {}
  /\ UNCHANGED <<handle, flow, held, frames, ghosts>>

Drain ==
  /\ Step("sip", "drain", "free_queue")
  /\ queue' = {} /\ frames' = frames \ queue
  /\ UNCHANGED <<handle, flow, held, ghosts>>

FreeQueue ==
  /\ Step("sip", "free_queue", "stop_dec")
  /\ Point("aenc_queue", "null")
  /\ UNCHANGED <<flow, data, ghosts>>

\* Mutant: adec_run stays set.
MutStopDec ==
  /\ Step("sip", "stop_dec", "wait_dec")
  /\ UNCHANGED <<handle, flow, data, ghosts>>

StopDec ==
  /\ Step("sip", "stop_dec", "wait_dec")
  /\ run' = run \ {"dec"}
  /\ UNCHANGED <<handle, stopped, ring, data, ghosts>>
WaitDec ==
  /\ Step("sip", "wait_dec", "free_buf")
  /\ "dec" \in stopped
  /\ Point("adec_state", "freed")
  /\ UNCHANGED <<flow, data, ghosts>>
FreeBuf ==
  /\ Step("sip", "free_buf", "free_ring")
  /\ Point("adec_buf", "null")
  /\ UNCHANGED <<flow, data, ghosts>>
FreeRing ==
  /\ Step("sip", "free_ring", "idle")
  /\ Point("ringbuf_dec", "null")
  /\ UNCHANGED <<flow, data, ghosts>>

Start ==
  \/ EncPipeline \/ EncRun \/ EncQueue \/ EncGroup \/ EncTask
  \/ DecBuf \/ DecRing \/ DecRun \/ DecGroup \/ DecTask
Stop ==
  \/ StopEnc \/ StopPipeline \/ FreePipeline \/ WaitEnc \/ Drain \/ FreeQueue
  \/ StopDec \/ WaitDec \/ FreeBuf \/ FreeRing

(***************************************************************************)
(* _audio_enc                                                              *)
(***************************************************************************)
\* The beginning of a task: its STOPPED bit, and a buffer without which it returns and
\* the wrapper of task functions aborts.
TaskClear(a, p, q) ==
  /\ Step(a, p, q)
  /\ stopped' = stopped \ {a}
  /\ UNCHANGED <<handle, run, ring, data, ghosts>>
TaskAlloc(a, p, q) ==
  /\ \/ Step(a, p, q) /\ UNCHANGED <<starved, down>>
     \/ pc[a] = p /\ starved' = TRUE /\ down' = TRUE /\ UNCHANGED pc
  /\ UNCHANGED <<handle, flow, data, wild, sessions>>
\* The test of the loop, and the end of the task.
TaskTest(a, p, q, end) ==
  /\ Step(a, p, IF a \in run THEN q ELSE end)
  /\ UNCHANGED <<handle, flow, data, ghosts>>
TaskSet(a, p) ==
  /\ Step(a, p, "none")
  /\ stopped' = stopped \cup {a}
  /\ UNCHANGED <<handle, run, ring, data, ghosts>>

\* raw_stream_read: a frame of the microphone, or the end of the pipeline.
EncData ==
  /\ ring = "running"
  /\ \E q \in {"frame", "set_enc"} : Step("enc", "read", q)
  /\ UNCHANGED <<handle, flow, data, ghosts>>
EncAborted ==
  /\ ring = "aborted"
  /\ Step("enc", "read", "set_enc")
  /\ UNCHANGED <<handle, flow, data, ghosts>>

\* The frame is allocated; a failure ends the task.
EncFrame ==
  /\ \/ \E f \in Frames \ frames :
          /\ Step("enc", "frame", "send")
          /\ held' = [held EXCEPT !["enc"] = f]
          /\ frames' = frames \cup {f}
          /\ UNCHANGED starved
     \/ /\ Step("enc", "frame", "set_enc")
        /\ starved' = TRUE
        /\ UNCHANGED <<held, frames>>
  /\ UNCHANGED <<handle, flow, queue, wild, down, sessions>>

\* Mutant: the queue takes any number of frames.
MutEncSend ==
  /\ Step("enc", "send", "test_enc")
  /\ held' = [held EXCEPT !["enc"] = None]
  /\ queue' = queue \cup {held["enc"]}
  /\ UNCHANGED <<handle, flow, frames, ghosts>>

\* xQueueSend into a queue of one; after 25 ms the frame is dropped.
EncSend ==
  /\ Step("enc", "send", "test_enc")
  /\ held' = [held EXCEPT !["enc"] = None]
  /\ IF queue = {}
     THEN queue' = {held["enc"]} /\ UNCHANGED frames
     ELSE frames' = frames \ {held["enc"]} /\ UNCHANGED queue
  /\ UNCHANGED <<handle, flow, ghosts>>

AudioEnc ==
  \/ TaskClear("enc", "clear_enc", "alloc_enc") \/ TaskAlloc("enc", "alloc_enc", "test_enc")
  \/ TaskTest("enc", "test_enc", "read", "set_enc") \/ EncAborted \/ EncFrame \/ EncSend
  \/ TaskSet("enc", "set_enc")

(***************************************************************************)
(* _audio_dec: it plays what ringbuf_dec holds, or sleeps for a tick.      *)
(***************************************************************************)
DecPlay ==
  /\ Step("dec", "play", "test_dec")
  /\ UNCHANGED <<handle, flow, data, ghosts>>

AudioDec ==
  \/ TaskClear("dec", "clear_dec", "alloc_dec") \/ TaskAlloc("dec", "alloc_dec", "test_dec")
  \/ TaskTest("dec", "test_dec", "play", "set_dec") \/ DecPlay
  \/ TaskSet("dec", "set_dec")

(***************************************************************************)
(* The callbacks: av_audio_enc_read and av_audio_dec_write.                *)
(***************************************************************************)
Called(a) ==
  /\ pc[a] = "idle"
  /\ RtpQuiet => pc["sip"] \notin Stopping

EncRead ==
  /\ Called("tx")
  /\ handle["aenc_queue"] # "null"
  /\ Step("tx", "idle", "receive")
  /\ UNCHANGED <<handle, flow, data, ghosts>>
EncReceive ==
  /\ \/ queue = {} /\ Step("tx", "receive", "idle") /\ UNCHANGED held
     \/ /\ Step("tx", "receive", "copy")
        /\ \E f \in queue : held' = [held EXCEPT !["tx"] = f]
  /\ queue' = {}
  /\ UNCHANGED <<handle, flow, frames, ghosts>>
EncCopy ==
  /\ Step("tx", "copy", "idle")
  /\ frames' = frames \ {held["tx"]}
  /\ held' = [held EXCEPT !["tx"] = None]
  /\ UNCHANGED <<handle, flow, queue, ghosts>>

DecWrite ==
  /\ Called("rx")
  /\ "dec" \in run
  /\ Step("rx", "idle", "decode")
  /\ UNCHANGED <<handle, flow, data, ghosts>>
DecDecode ==
  /\ Step("rx", "decode", "write")
  /\ UNCHANGED <<handle, flow, data, ghosts>>
DecQueue ==
  /\ Step("rx", "write", "idle")
  /\ UNCHANGED <<handle, flow, data, ghosts>>

Rtp == EncRead \/ EncReceive \/ EncCopy \/ DecWrite \/ DecDecode \/ DecQueue

Running == ~down /\ wild = {}

Next ==
  /\ Running
  /\ \/ SessionBegin \/ Start \/ SessionEnd \/ Stop
     \/ AudioEnc \/ EncData \/ AudioDec
     \/ Rtp
     \/ \E a \in Actors : Stray(a)

Spec == Init /\ [][Next]_vars

\* The scheduler runs the event task inside an event and the two tasks; data and
\* callbacks come when they come.
Fairness ==
  /\ WF_vars(Running /\ (Start \/ Stop))
  /\ WF_vars(Running /\ AudioEnc) /\ WF_vars(Running /\ AudioDec)
FairSpec == Spec /\ Fairness

(***************************************************************************)
(* Properties.                                                             *)
(***************************************************************************)
\* Assuming RtpQuiet: whatever the starts of this and earlier sessions failed to
\* allocate, a callback never uses a buffer or queue that is not there, though
\* av_audio_enc_read trusts aenc_queue and av_audio_dec_write trusts adec_run alone.
CallbacksUseLive == wild \cap {"tx", "rx"} = {}

\* The pipeline has been destroyed under _audio_enc, which is still in raw_stream_read.
EncCaught == pc["enc"] = "read" /\ handle["audio_enc"] = "freed"

\* If every allocation succeeds (and RtpQuiet), nothing reboots the device, and of all
\* that av_audio_enc_stop and av_audio_dec_stop free only the pipeline is ever used
\* after it was freed: by _audio_enc, which nobody waits for before destroying it.
TasksUseLive ==
  ~starved => /\ ~down
              /\ wild # {} => wild = {"enc"} /\ EncCaught

\* A frame allocated by _audio_enc is held by exactly one of the encoder task, the queue
\* and av_audio_enc_read until it is freed, and none outlives its session.
FramesOwned ==
  wild = {} =>
    /\ frames = queue \cup ({held[a] : a \in Actors} \ {None})
    /\ \A a, b \in Actors : held[a] = held[b] /\ held[a] # None => a = b
    /\ \A a \in Actors : held[a] \notin queue
    /\ pc["sip"] = "idle" => frames = {}

\* No wait of SESSION_END is for nobody, if every allocation succeeded (and RtpQuiet): a
\* reader of the pipeline has been woken before it is freed, and each task whose STOPPED
\* bit is waited for has set it or is there with its run flag reset, whichever session
\* set the bit last.
StopAnswered ==
  ~starved =>
    /\ pc["sip"] \in {"free_pipeline", "wait_enc"} /\ pc["enc"] = "read" => ring = "aborted"
    /\ pc["sip"] = "wait_enc" =>
         "enc" \in stopped \/ ("enc" \notin run /\ pc["enc"] # "none")
    /\ pc["sip"] = "wait_dec" =>
         "dec" \in stopped \/ ("dec" \notin run /\ pc["dec"] # "none")

\* SESSION_END is done with at last, if every allocation succeeded and the pipeline was
\* not destroyed under its reader (and RtpQuiet): the tasks it waits for without a limit
\* leave their loops and their blocking reads.
SessionEnds ==
  pc["sip"] \in Stopping /\ ~starved ~> pc["sip"] = "idle" \/ starved \/ EncCaught
=============================================================================
