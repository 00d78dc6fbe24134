--------------------------- MODULE AvStream_proofs ---------------------------
(***************************************************************************)
(* Proofs about AvStream.  IInv says over which stretch of SESSION_BEGIN   *)
(* and SESSION_END each handle is live and each of the other actors may be *)
(* at work, given RtpQuiet; WInv and HInv say more as long as no           *)
(* allocation has failed.                                                  *)
(***************************************************************************)
EXTENDS AvStream, TLAPS

\* Stretches of the event task's round.
DecEnds == {"stop_dec", "wait_dec", "free_buf", "free_ring"}
NoQueue == DecEnds \cup {"idle", "pipeline", "enc_run", "queue"}
DecStarts == {"dec_buf", "dec_ring", "dec_run", "dec_group", "dec_task"}
EncStops == {"stop_enc", "stop_pipeline", "free_pipeline", "wait_enc"}
EncLife == DecStarts \cup {"talk"} \cup EncStops
EncEnds == EncStops \cup {"drain", "free_queue"}
DecLife == {"talk"} \cup EncEnds \cup {"stop_dec", "wait_dec"}

EncSteps == {"none", "clear_enc", "alloc_enc", "test_enc", "read", "frame", "send", "set_enc"}
DecSteps == {"none", "clear_dec", "alloc_dec", "test_dec", "play", "set_dec"}

\* TypeOK but for its two flags.
Shapes ==
  /\ pc \in [Actors -> Steps]
  /\ pc["sip"] \in {"idle", "talk"} \cup Starting \cup Stopping
  /\ run \subseteq {"enc", "dec"} /\ stopped \subseteq {"enc", "dec"}
  /\ handle \in [Handles -> {"null", "live", "freed"}]
  /\ ring \in {"idle", "running", "aborted"}
  /\ queue \subseteq Frames /\ \A f, g \in queue : f = g
  /\ held \in [Actors -> Frames \cup {None}]
  /\ frames \subseteq Frames
  /\ wild \subseteq Actors
  /\ sessions \in 0 .. MaxSessions

Places ==
  /\ pc["enc"] \in EncSteps
  /\ pc["dec"] \in DecSteps
  /\ pc["tx"] \in {"idle", "receive", "copy"}
  /\ pc["rx"] \in {"idle", "decode", "write"}

\* What the encoder task and av_audio_enc_read hold, and that nobody else holds anything.
Hands ==
  /\ held["sip"] = None /\ held["dec"] = None /\ held["rx"] = None
  /\ held["enc"] # None <=> pc["enc"] = "send"
  /\ held["tx"] # None <=> pc["tx"] = "copy"
  /\ held["enc"] # None => held["enc"] # held["tx"]
  /\ held["enc"] \notin queue /\ held["tx"] \notin queue
  /\ frames = queue \cup ({held["enc"], held["tx"]} \ {None})

\* The encoder task and its bit.
EncTaskLife ==
  /\ pc["enc"] # "none" => pc["sip"] \in EncLife
  /\ "enc" \in stopped => pc["enc"] = "none"
  /\ pc["sip"] = "enc_task" => "enc" \notin stopped

\* The queue, and the callbacks.
CallbackLife ==
  /\ handle["aenc_queue"] # "freed"
  /\ pc["sip"] \in NoQueue => handle["aenc_queue"] = "null"
  /\ pc["sip"] \in NoQueue \cup {"free_queue"} => queue = {}
  /\ pc["tx"] # "idle" => pc["sip"] \in {"enc_group", "enc_task", "talk"} \cup DecStarts
  /\ pc["tx"] = "receive" => handle["aenc_queue"] = "live"
  /\ pc["rx"] # "idle" => "dec" \in run /\ pc["sip"] \in {"dec_group", "dec_task", "talk"}
  /\ "dec" \in run => /\ handle["adec_buf"] = "live" /\ handle["ringbuf_dec"] = "live"
                      /\ pc["sip"] \in {"dec_group", "dec_task", "talk", "stop_dec"} \cup EncEnds
  /\ pc["sip"] \in {"dec_ring", "dec_run"} => handle["adec_buf"] = "live"
  /\ pc["sip"] = "dec_run" => handle["ringbuf_dec"] = "live"
  /\ wild \cap {"tx", "rx"} = {}

IInv == TypeOK /\ Places /\ Hands /\ EncTaskLife /\ CallbackLife

\* Without failed allocations: the stretches over which the handles the three tasks use
\* are live, and over which the tasks run.
Whole ==
  /\ ~down
  /\ wild # {} => wild = {"enc"} /\ EncCaught
  /\ pc["sip"] \in {"enc_run", "queue", "enc_group", "enc_task", "talk", "stop_enc",
                  "stop_pipeline", "free_pipeline"} \cup DecStarts
       => handle["audio_enc"] = "live" /\ ring # "idle"
  /\ pc["sip"] \in {"enc_group", "enc_task", "talk"} \cup DecStarts \cup EncEnds
       => handle["aenc_queue"] = "live"
  /\ pc["sip"] \in {"enc_task"} \cup EncLife => handle["aenc_state"] = "live"
  /\ pc["sip"] \in {"dec_task"} \cup DecLife => handle["adec_state"] = "live"
  /\ pc["sip"] \in {"dec_run", "dec_group", "dec_task", "free_buf", "free_ring"} \cup DecLife
       => handle["ringbuf_dec"] = "live"
  /\ pc["enc"] = "read" => \/ handle["audio_enc"] = "live"
                           \/ handle["audio_enc"] = "freed" /\ pc["sip"] = "wait_enc"
  /\ "enc" \in run => pc["sip"] \in {"queue", "enc_group", "enc_task", "talk", "stop_enc"}
                                    \cup DecStarts
  /\ pc["dec"] # "none" => pc["sip"] \in DecLife
  /\ "dec" \in stopped => pc["dec"] = "none"
  /\ pc["sip"] = "dec_task" => "dec" \notin stopped

WInv == ~starved => Whole

\* Everything the steps keep.
LEMMA StepIInv ==
  ASSUME RtpQuiet, IInv, [Next]_vars
  PROVE  IInv'
<1> USE DEF IInv, TypeOK, Shapes, Places, Hands, EncTaskLife, CallbackLife, Actors,
            Handles, Frames, None, Starting, Stopping, Steps, EncSteps, DecSteps,
            DecEnds, NoQueue, DecStarts, EncStops, EncLife, EncEnds, DecLife
<1>1. ASSUME Running, SessionBegin PROVE IInv'
  BY <1>1, AvAssumption DEF Running, SessionBegin, Step, Point, Needs, flow, data, ghosts
<1>2. ASSUME Running, EncPipeline PROVE IInv'
  <2> USE <1>2, AvAssumption DEF Running, EncPipeline, Step, Point, Needs, flow, data, ghosts
  <2>1. TypeOK'
    <3>1. starved' \in BOOLEAN /\ down' \in BOOLEAN
      BY <1>2, Zenon
    <3>2. Shapes'
      OBVIOUS
    <3> QED
      BY <3>1, <3>2 DEF Shapes
  <2>2. Places'
    OBVIOUS
  <2>3. Hands'
    OBVIOUS
  <2>4. EncTaskLife'
    OBVIOUS
  <2>5. CallbackLife'
    OBVIOUS
  <2> QED
    BY <2>1, <2>2, <2>3, <2>4, <2>5
<1>3. ASSUME Running, EncRun PROVE IInv'
  BY <1>3, AvAssumption DEF Running, EncRun, Step, Point, Needs, flow, data, ghosts
<1>4. ASSUME Running, EncQueue PROVE IInv'
  <2> USE <1>4, AvAssumption DEF Running, EncQueue, Create, Step, Point, Needs, flow, data, ghosts
  <2>1. TypeOK'
    <3>1. starved' \in BOOLEAN /\ down' \in BOOLEAN
      BY <1>4, Zenon
    <3>2. Shapes'
      OBVIOUS
    <3> QED
      BY <3>1, <3>2 DEF Shapes
  <2>2. Places'
    OBVIOUS
  <2>3. Hands'
    OBVIOUS
  <2>4. EncTaskLife'
    OBVIOUS
  <2>5. CallbackLife'
    OBVIOUS
  <2> QED
    BY <2>1, <2>2, <2>3, <2>4, <2>5
<1>5. ASSUME Running, EncGroup PROVE IInv'
  <2> USE <1>5, AvAssumption DEF Running, EncGroup, Step, Point, Needs, flow, data, ghosts
  <2>1. TypeOK'
    <3>1. starved' \in BOOLEAN /\ down' \in BOOLEAN
      BY <1>5, Zenon
    <3>2. Shapes'
      OBVIOUS
    <3> QED
      BY <3>1, <3>2 DEF Shapes
  <2>2. Places'
    OBVIOUS
  <2>3. Hands'
    OBVIOUS
  <2>4. EncTaskLife'
    OBVIOUS
  <2>5. CallbackLife'
    OBVIOUS
  <2> QED
    BY <2>1, <2>2, <2>3, <2>4, <2>5
<1>6. ASSUME Running, EncTask PROVE IInv'
  <2> USE <1>6, AvAssumption DEF Running, EncTask, CreateTask, Step, Point, Needs, flow, data, ghosts
  <2>1. TypeOK'
    <3>1. starved' \in BOOLEAN /\ down' \in BOOLEAN
      BY <1>6, Zenon
    <3>2. Shapes'
      OBVIOUS
    <3> QED
      BY <3>1, <3>2 DEF Shapes
  <2>2. Places'
    OBVIOUS
  <2>3. Hands'
    OBVIOUS
  <2>4. EncTaskLife'
    OBVIOUS
  <2>5. CallbackLife'
    OBVIOUS
  <2> QED
    BY <2>1, <2>2, <2>3, <2>4, <2>5
<1>7. ASSUME Running, DecBuf PROVE IInv'
  <2> USE <1>7, AvAssumption DEF Running, DecBuf, Create, Step, Point, Needs, flow, data, ghosts
  <2>1. TypeOK'
    <3>1. starved' \in BOOLEAN /\ down' \in BOOLEAN
      BY <1>7, Zenon
    <3>2. Shapes'
      OBVIOUS
    <3> QED
      BY <3>1, <3>2 DEF Shapes
  <2>2. Places'
    OBVIOUS
  <2>3. Hands'
    OBVIOUS
  <2>4. EncTaskLife'
    OBVIOUS
  <2>5. CallbackLife'
    OBVIOUS
  <2> QED
    BY <2>1, <2>2, <2>3, <2>4, <2>5
<1>8. ASSUME Running, DecRing PROVE IInv'
  <2> USE <1>8, AvAssumption DEF Running, DecRing, Create, Step, Point, Needs, flow, data, ghosts
  <2>1. TypeOK'
    <3>1. starved' \in BOOLEAN /\ down' \in BOOLEAN
      BY <1>8, Zenon
    <3>2. Shapes'
      OBVIOUS
    <3> QED
      BY <3>1, <3>2 DEF Shapes
  <2>2. Places'
    OBVIOUS
  <2>3. Hands'
    OBVIOUS
  <2>4. EncTaskLife'
    OBVIOUS
  <2>5. CallbackLife'
    OBVIOUS
  <2> QED
    BY <2>1, <2>2, <2>3, <2>4, <2>5
<1>9. ASSUME Running, DecRun PROVE IInv'
  <2> USE <1>9, AvAssumption DEF Running, DecRun, Step, Point, Needs, flow, data, ghosts
  <2>1. TypeOK'
    <3>1. starved' \in BOOLEAN /\ down' \in BOOLEAN
      BY <1>9, Zenon
    <3>2. Shapes'
      OBVIOUS
    <3> QED
      BY <3>1, <3>2 DEF Shapes
  <2>2. Places'
    OBVIOUS
  <2>3. Hands'
    OBVIOUS
  <2>4. EncTaskLife'
    OBVIOUS
  <2>5. CallbackLife'
    OBVIOUS
  <2> QED
    BY <2>1, <2>2, <2>3, <2>4, <2>5
<1>10. ASSUME Running, DecGroup PROVE IInv'
  <2> USE <1>10, AvAssumption DEF Running, DecGroup, Step, Point, Needs, flow, data, ghosts
  <2>1. TypeOK'
    <3>1. starved' \in BOOLEAN /\ down' \in BOOLEAN
      BY <1>10, Zenon
    <3>2. Shapes'
      OBVIOUS
    <3> QED
      BY <3>1, <3>2 DEF Shapes
  <2>2. Places'
    OBVIOUS
  <2>3. Hands'
    OBVIOUS
  <2>4. EncTaskLife'
    OBVIOUS
  <2>5. CallbackLife'
    OBVIOUS
  <2> QED
    BY <2>1, <2>2, <2>3, <2>4, <2>5
<1>11. ASSUME Running, DecTask PROVE IInv'
  <2> USE <1>11, AvAssumption DEF Running, DecTask, CreateTask, Step, Point, Needs, flow, data, ghosts
  <2>1. TypeOK'
    <3>1. starved' \in BOOLEAN /\ down' \in BOOLEAN
      BY <1>11, Zenon
    <3>2. Shapes'
      OBVIOUS
    <3> QED
      BY <3>1, <3>2 DEF Shapes
  <2>2. Places'
    OBVIOUS
  <2>3. Hands'
    OBVIOUS
  <2>4. EncTaskLife'
    OBVIOUS
  <2>5. CallbackLife'
    OBVIOUS
  <2> QED
    BY <2>1, <2>2, <2>3, <2>4, <2>5
<1>12. ASSUME Running, SessionEnd PROVE IInv'
  BY <1>12, AvAssumption DEF Running, SessionEnd, Step, Point, Needs, flow, data, ghosts
<1>13. ASSUME Running, StopEnc PROVE IInv'
  BY <1>13, AvAssumption DEF Running, StopEnc, Step, Point, Needs, flow, data, ghosts
<1>14. ASSUME Running, StopPipeline PROVE IInv'
  BY <1>14, AvAssumption DEF Running, StopPipeline, Step, Point, Needs, flow, data, ghosts
<1>15. ASSUME Running, FreePipeline PROVE IInv'
  BY <1>15, AvAssumption DEF Running, FreePipeline, Step, Point, Needs, flow, data, ghosts
<1>16. ASSUME Running, WaitEnc PROVE IInv'
  BY <1>16, AvAssumption DEF Running, WaitEnc, Step, Point, Needs, flow, data, ghosts
<1>17. ASSUME Running, Drain PROVE IInv'
  BY <1>17, AvAssumption DEF Running, Drain, Step, Point, Needs, flow, data, ghosts
<1>18. ASSUME Running, FreeQueue PROVE IInv'
  BY <1>18, AvAssumption DEF Running, FreeQueue, Step, Point, Needs, flow, data, ghosts
<1>19. ASSUME Running, StopDec PROVE IInv'
  BY <1>19, AvAssumption DEF Running, StopDec, Step, Point, Needs, flow, data, ghosts
<1>20. ASSUME Running, WaitDec PROVE IInv'
  BY <1>20, AvAssumption DEF Running, WaitDec, Step, Point, Needs, flow, data, ghosts
<1>21. ASSUME Running, FreeBuf PROVE IInv'
  BY <1>21, AvAssumption DEF Running, FreeBuf, Step, Point, Needs, flow, data, ghosts
<1>22. ASSUME Running, FreeRing PROVE IInv'
  BY <1>22, AvAssumption DEF Running, FreeRing, Step, Point, Needs, flow, data, ghosts
<1>23. ASSUME Running, TaskClear("enc", "clear_enc", "alloc_enc") PROVE IInv'
  BY <1>23, AvAssumption DEF Running, TaskClear, Step, Point, Needs, flow, data, ghosts
<1>24. ASSUME Running, TaskAlloc("enc", "alloc_enc", "test_enc") PROVE IInv'
  <2> USE <1>24, AvAssumption DEF Running, TaskAlloc, Step, Point, Needs, flow, data, ghosts
  <2>1. TypeOK'
    <3>1. starved' \in BOOLEAN /\ down' \in BOOLEAN
      BY <1>24, Zenon
    <3>2. Shapes'
      OBVIOUS
    <3> QED
      BY <3>1, <3>2 DEF Shapes
  <2>2. Places'
    OBVIOUS
  <2>3. Hands'
    OBVIOUS
  <2>4. EncTaskLife'
    OBVIOUS
  <2>5. CallbackLife'
    OBVIOUS
  <2> QED
    BY <2>1, <2>2, <2>3, <2>4, <2>5
<1>25. ASSUME Running, TaskTest("enc", "test_enc", "read", "set_enc") PROVE IInv'
  BY <1>25, AvAssumption DEF Running, TaskTest, Step, Point, Needs, flow, data, ghosts
<1>26. ASSUME Running, EncAborted PROVE IInv'
  BY <1>26, AvAssumption DEF Running, EncAborted, Step, Point, Needs, flow, data, ghosts
<1>27. ASSUME Running, EncFrame PROVE IInv'
  <2> USE <1>27, AvAssumption DEF Running, EncFrame, Step, Point, Needs, flow, data, ghosts
  <2>1. TypeOK'
    <3>1. starved' \in BOOLEAN /\ down' \in BOOLEAN
      BY <1>27, Zenon
    <3>2. Shapes'
      OBVIOUS
    <3> QED
      BY <3>1, <3>2 DEF Shapes
  <2>2. Places'
    OBVIOUS
  <2>3. Hands'
    OBVIOUS
  <2>4. EncTaskLife'
    OBVIOUS
  <2>5. CallbackLife'
    OBVIOUS
  <2> QED
    BY <2>1, <2>2, <2>3, <2>4, <2>5
<1>28. ASSUME Running, EncSend PROVE IInv'
  BY <1>28, AvAssumption DEF Running, EncSend, Step, Point, Needs, flow, data, ghosts
<1>29. ASSUME Running, TaskSet("enc", "set_enc") PROVE IInv'
  BY <1>29, AvAssumption DEF Running, TaskSet, Step, Point, Needs, flow, data, ghosts
<1>30. ASSUME Running, EncData PROVE IInv'
  BY <1>30, AvAssumption DEF Running, EncData, Step, Point, Needs, flow, data, ghosts
<1>31. ASSUME Running, TaskClear("dec", "clear_dec", "alloc_dec") PROVE IInv'
  BY <1>31, AvAssumption DEF Running, TaskClear, Step, Point, Needs, flow, data, ghosts
<1>32. ASSUME Running, TaskAlloc("dec", "alloc_dec", "test_dec") PROVE IInv'
  <2> USE <1>32, AvAssumption DEF Running, TaskAlloc, Step, Point, Needs, flow, data, ghosts
  <2>1. TypeOK'
    <3>1. starved' \in BOOLEAN /\ down' \in BOOLEAN
      BY <1>32, Zenon
    <3>2. Shapes'
      OBVIOUS
    <3> QED
      BY <3>1, <3>2 DEF Shapes
  <2>2. Places'
    OBVIOUS
  <2>3. Hands'
    OBVIOUS
  <2>4. EncTaskLife'
    OBVIOUS
  <2>5. CallbackLife'
    OBVIOUS
  <2> QED
    BY <2>1, <2>2, <2>3, <2>4, <2>5
<1>33. ASSUME Running, TaskTest("dec", "test_dec", "play", "set_dec") PROVE IInv'
  BY <1>33, AvAssumption DEF Running, TaskTest, Step, Point, Needs, flow, data, ghosts
<1>34. ASSUME Running, DecPlay PROVE IInv'
  BY <1>34, AvAssumption DEF Running, DecPlay, Step, Point, Needs, flow, data, ghosts
<1>35. ASSUME Running, TaskSet("dec", "set_dec") PROVE IInv'
  BY <1>35, AvAssumption DEF Running, TaskSet, Step, Point, Needs, flow, data, ghosts
<1>36. ASSUME Running, EncRead PROVE IInv'
  BY <1>36, AvAssumption DEF Running, EncRead, Called, Step, Point, Needs, flow, data, ghosts
<1>37. ASSUME Running, EncReceive PROVE IInv'
  BY <1>37, AvAssumption DEF Running, EncReceive, Step, Point, Needs, flow, data, ghosts
<1>38. ASSUME Running, EncCopy PROVE IInv'
  BY <1>38, AvAssumption DEF Running, EncCopy, Step, Point, Needs, flow, data, ghosts
<1>39. ASSUME Running, DecWrite PROVE IInv'
  BY <1>39, AvAssumption DEF Running, DecWrite, Called, Step, Point, Needs, flow, data, ghosts
<1>40. ASSUME Running, DecDecode PROVE IInv'
  BY <1>40, AvAssumption DEF Running, DecDecode, Step, Point, Needs, flow, data, ghosts
<1>41. ASSUME Running, DecQueue PROVE IInv'
  BY <1>41, AvAssumption DEF Running, DecQueue, Step, Point, Needs, flow, data, ghosts
<1>42. ASSUME Running, NEW a \in Actors, Stray(a) PROVE IInv'
  <2>1. a \notin {"tx", "rx"}
    <3>1. CASE a = "tx"
      <4>1. pc["tx"] = "receive"
        BY <1>42, <3>1 DEF Stray, Needs
      <4> QED
        BY <4>1, <1>42, <3>1 DEF Stray, Needs
    <3>2. CASE a = "rx"
      <4>1. pc["rx"] \in {"decode", "write"}
        BY <1>42, <3>2 DEF Stray, Needs
      <4>2. handle["adec_buf"] = "live" /\ handle["ringbuf_dec"] = "live"
        BY <4>1
      <4> QED
        BY <4>1, <4>2, <1>42, <3>2 DEF Stray, Needs
    <3> QED
      BY <3>1, <3>2
  <2>2. wild' = wild \/ wild' = wild \cup {a}
    BY <1>42 DEF Stray
  <2>3. wild' \subseteq Actors /\ wild' \cap {"tx", "rx"} = {}
    BY <2>1, <2>2
  <2>4. down' \in BOOLEAN /\ starved' \in BOOLEAN
    BY <1>42, Zenon DEF Stray
  <2>5. UNCHANGED <<pc, handle, run, stopped, ring, queue, held, frames, sessions>>
    BY <1>42 DEF Stray, flow, data
  <2> QED
    BY <2>3, <2>4, <2>5
<1>43. CASE UNCHANGED vars
  BY <1>43 DEF vars
<1> QED
  BY <1>1, <1>2, <1>3, <1>4, <1>5, <1>6, <1>7, <1>8, <1>9, <1>10, <1>11, <1>12, <1>13, <1>14, <1>15, <1>16, <1>17, <1>18, <1>19, <1>20, <1>21, <1>22, <1>23, <1>24, <1>25, <1>26, <1>27, <1>28, <1>29, <1>30, <1>31, <1>32, <1>33, <1>34, <1>35, <1>36, <1>37, <1>38, <1>39, <1>40, <1>41, <1>42, <1>43 DEF Next, Start, Stop, AudioEnc, AudioDec, Rtp

\* Likewise without failed allocations.
LEMMA StepWInv ==
  ASSUME RtpQuiet, IInv, WInv, [Next]_vars
  PROVE  WInv'
<1> USE DEF WInv, Whole, EncCaught, IInv, TypeOK, Places, EncTaskLife, CallbackLife, Actors,
            Handles, Frames, None, Starting, Stopping, Steps, EncSteps, DecSteps,
            DecEnds, NoQueue, DecStarts, EncStops, EncLife, EncEnds, DecLife
<1>1. ASSUME Running, SessionBegin PROVE WInv'
  BY <1>1, AvAssumption DEF Running, SessionBegin, Step, Point, Needs, flow, data, ghosts
<1>2. ASSUME Running, EncPipeline PROVE WInv'
  BY <1>2, AvAssumption DEF Running, EncPipeline, Step, Point, Needs, flow, data, ghosts
<1>3. ASSUME Running, EncRun PROVE WInv'
  BY <1>3, AvAssumption DEF Running, EncRun, Step, Point, Needs, flow, data, ghosts
<1>4. ASSUME Running, EncQueue PROVE WInv'
  BY <1>4, AvAssumption DEF Running, EncQueue, Create, Step, Point, Needs, flow, data, ghosts
<1>5. ASSUME Running, EncGroup PROVE WInv'
  BY <1>5, AvAssumption DEF Running, EncGroup, Step, Point, Needs, flow, data, ghosts
<1>6. ASSUME Running, EncTask PROVE WInv'
  BY <1>6, AvAssumption DEF Running, EncTask, CreateTask, Step, Point, Needs, flow, data, ghosts
<1>7. ASSUME Running, DecBuf PROVE WInv'
  BY <1>7, AvAssumption DEF Running, DecBuf, Create, Step, Point, Needs, flow, data, ghosts
<1>8. ASSUME Running, DecRing PROVE WInv'
  BY <1>8, AvAssumption DEF Running, DecRing, Create, Step, Point, Needs, flow, data, ghosts
<1>9. ASSUME Running, DecRun PROVE WInv'
  BY <1>9, AvAssumption DEF Running, DecRun, Step, Point, Needs, flow, data, ghosts
<1>10. ASSUME Running, DecGroup PROVE WInv'
  BY <1>10, AvAssumption DEF Running, DecGroup, Step, Point, Needs, flow, data, ghosts
<1>11. ASSUME Running, DecTask PROVE WInv'
  BY <1>11, AvAssumption DEF Running, DecTask, CreateTask, Step, Point, Needs, flow, data, ghosts
<1>12. ASSUME Running, SessionEnd PROVE WInv'
  BY <1>12, AvAssumption DEF Running, SessionEnd, Step, Point, Needs, flow, data, ghosts
<1>13. ASSUME Running, StopEnc PROVE WInv'
  BY <1>13, AvAssumption DEF Running, StopEnc, Step, Point, Needs, flow, data, ghosts
<1>14. ASSUME Running, StopPipeline PROVE WInv'
  BY <1>14, AvAssumption DEF Running, StopPipeline, Step, Point, Needs, flow, data, ghosts
<1>15. ASSUME Running, FreePipeline PROVE WInv'
  BY <1>15, AvAssumption DEF Running, FreePipeline, Step, Point, Needs, flow, data, ghosts
<1>16. ASSUME Running, WaitEnc PROVE WInv'
  BY <1>16, AvAssumption DEF Running, WaitEnc, Step, Point, Needs, flow, data, ghosts
<1>17. ASSUME Running, Drain PROVE WInv'
  BY <1>17, AvAssumption DEF Running, Drain, Step, Point, Needs, flow, data, ghosts
<1>18. ASSUME Running, FreeQueue PROVE WInv'
  BY <1>18, AvAssumption DEF Running, FreeQueue, Step, Point, Needs, flow, data, ghosts
<1>19. ASSUME Running, StopDec PROVE WInv'
  BY <1>19, AvAssumption DEF Running, StopDec, Step, Point, Needs, flow, data, ghosts
<1>20. ASSUME Running, WaitDec PROVE WInv'
  BY <1>20, AvAssumption DEF Running, WaitDec, Step, Point, Needs, flow, data, ghosts
<1>21. ASSUME Running, FreeBuf PROVE WInv'
  BY <1>21, AvAssumption DEF Running, FreeBuf, Step, Point, Needs, flow, data, ghosts
<1>22. ASSUME Running, FreeRing PROVE WInv'
  BY <1>22, AvAssumption DEF Running, FreeRing, Step, Point, Needs, flow, data, ghosts
<1>23. ASSUME Running, TaskClear("enc", "clear_enc", "alloc_enc") PROVE WInv'
  BY <1>23, AvAssumption DEF Running, TaskClear, Step, Point, Needs, flow, data, ghosts
<1>24. ASSUME Running, TaskAlloc("enc", "alloc_enc", "test_enc") PROVE WInv'
  BY <1>24, AvAssumption DEF Running, TaskAlloc, Step, Point, Needs, flow, data, ghosts
<1>25. ASSUME Running, TaskTest("enc", "test_enc", "read", "set_enc") PROVE WInv'
  BY <1>25, AvAssumption DEF Running, TaskTest, Step, Point, Needs, flow, data, ghosts
<1>26. ASSUME Running, EncAborted PROVE WInv'
  BY <1>26, AvAssumption DEF Running, EncAborted, Step, Point, Needs, flow, data, ghosts
<1>27. ASSUME Running, EncFrame PROVE WInv'
  BY <1>27, AvAssumption DEF Running, EncFrame, Step, Point, Needs, flow, data, ghosts
<1>28. ASSUME Running, EncSend PROVE WInv'
  BY <1>28, AvAssumption DEF Running, EncSend, Step, Point, Needs, flow, data, ghosts
<1>29. ASSUME Running, TaskSet("enc", "set_enc") PROVE WInv'
  BY <1>29, AvAssumption DEF Running, TaskSet, Step, Point, Needs, flow, data, ghosts
<1>30. ASSUME Running, EncData PROVE WInv'
  BY <1>30, AvAssumption DEF Running, EncData, Step, Point, Needs, flow, data, ghosts
<1>31. ASSUME Running, TaskClear("dec", "clear_dec", "alloc_dec") PROVE WInv'
  BY <1>31, AvAssumption DEF Running, TaskClear, Step, Point, Needs, flow, data, ghosts
<1>32. ASSUME Running, TaskAlloc("dec", "alloc_dec", "test_dec") PROVE WInv'
  BY <1>32, AvAssumption DEF Running, TaskAlloc, Step, Point, Needs, flow, data, ghosts
<1>33. ASSUME Running, TaskTest("dec", "test_dec", "play", "set_dec") PROVE WInv'
  BY <1>33, AvAssumption DEF Running, TaskTest, Step, Point, Needs, flow, data, ghosts
<1>34. ASSUME Running, DecPlay PROVE WInv'
  BY <1>34, AvAssumption DEF Running, DecPlay, Step, Point, Needs, flow, data, ghosts
<1>35. ASSUME Running, TaskSet("dec", "set_dec") PROVE WInv'
  BY <1>35, AvAssumption DEF Running, TaskSet, Step, Point, Needs, flow, data, ghosts
<1>36. ASSUME Running, EncRead PROVE WInv'
  BY <1>36, AvAssumption DEF Running, EncRead, Called, Step, Point, Needs, flow, data, ghosts
<1>37. ASSUME Running, EncReceive PROVE WInv'
  BY <1>37, AvAssumption DEF Running, EncReceive, Step, Point, Needs, flow, data, ghosts
<1>38. ASSUME Running, EncCopy PROVE WInv'
  BY <1>38, AvAssumption DEF Running, EncCopy, Step, Point, Needs, flow, data, ghosts
<1>39. ASSUME Running, DecWrite PROVE WInv'
  BY <1>39, AvAssumption DEF Running, DecWrite, Called, Step, Point, Needs, flow, data, ghosts
<1>40. ASSUME Running, DecDecode PROVE WInv'
  BY <1>40, AvAssumption DEF Running, DecDecode, Step, Point, Needs, flow, data, ghosts
<1>41. ASSUME Running, DecQueue PROVE WInv'
  BY <1>41, AvAssumption DEF Running, DecQueue, Step, Point, Needs, flow, data, ghosts
<1>42. ASSUME Running, NEW a \in Actors, Stray(a), ~starved
      PROVE  a = "enc" /\ EncCaught
  <2>1. pc[a] \in DOMAIN Needs /\ handle[Needs[pc[a]]] # "live"
    BY <1>42 DEF Stray
  <2>2. CASE a = "sip"
    <3>1. pc["sip"] \in {"stop_pipeline", "free_pipeline", "wait_enc", "drain", "free_queue", "wait_dec"}
      BY <2>1, <2>2 DEF Needs
    <3> QED
      BY <2>1, <2>2, <3>1, <1>42 DEF Needs
  <2>3. CASE a = "enc"
    <3>1. pc["enc"] \in {"clear_enc", "read", "send", "set_enc"}
      BY <2>1, <2>3 DEF Needs
    <3> QED
      BY <2>1, <2>3, <3>1, <1>42 DEF Needs
  <2>4. CASE a = "dec"
    <3>1. pc["dec"] \in {"clear_dec", "play", "set_dec"}
      BY <2>1, <2>4 DEF Needs
    <3> QED
      BY <2>1, <2>4, <3>1, <1>42 DEF Needs
  <2>5. CASE a = "tx"
    <3>1. pc["tx"] \in {"receive"}
      BY <2>1, <2>5 DEF Needs
    <3> QED
      BY <2>1, <2>5, <3>1, <1>42 DEF Needs
  <2>6. CASE a = "rx"
    <3>1. pc["rx"] \in {"decode", "write"}
      BY <2>1, <2>6 DEF Needs
    <3> QED
      BY <2>1, <2>6, <3>1, <1>42 DEF Needs
  <2> QED
    BY <2>2, <2>3, <2>4, <2>5, <2>6
<1>43. CASE UNCHANGED vars
  BY <1>43 DEF vars
<1>44. ASSUME Running, NEW a \in Actors, Stray(a) PROVE WInv'
  <2>1. UNCHANGED <<pc, handle, run, stopped, ring, starved>>
    BY <1>44 DEF Stray, flow
  <2>2. ~starved => wild' = {"enc"} /\ ~down'
    BY <1>42, <1>44 DEF Stray, Running, Needs
  <2> QED
    BY <2>1, <2>2, <1>42, <1>44
<1> QED
  BY <1>1, <1>2, <1>3, <1>4, <1>5, <1>6, <1>7, <1>8, <1>9, <1>10, <1>11, <1>12, <1>13, <1>14, <1>15, <1>16, <1>17, <1>18, <1>19, <1>20, <1>21, <1>22, <1>23, <1>24, <1>25, <1>26, <1>27, <1>28, <1>29, <1>30, <1>31, <1>32, <1>33, <1>34, <1>35, <1>36, <1>37, <1>38, <1>39, <1>40, <1>41, <1>44, <1>43 DEF Next, Start, Stop, AudioEnc, AudioDec, Rtp

\* Without failed allocations: from its creation to the wait for it a task is there or
\* has set its bit, and what would keep it from the end of its loop is undone in time.
Heard ==
  /\ pc["sip"] \in EncLife => "enc" \in stopped \/ pc["enc"] # "none"
  /\ pc["sip"] \in {"free_pipeline", "wait_enc"} => ring = "aborted"
  /\ pc["sip"] \in DecLife => "dec" \in stopped \/ pc["dec"] # "none"
  /\ pc["sip"] = "wait_dec" => "dec" \notin run

HInv == ~starved => Heard

\* The start of a session creates both tasks, and only creates.
LEMMA HeardStart ==
  ASSUME IInv, WInv, HInv, SessionBegin \/ Start \/ SessionEnd
  PROVE  HInv'
<1> USE DEF HInv, Heard, IInv, TypeOK, Places, EncTaskLife, Actors, EncSteps, DecSteps,
            Starting, Stopping, DecStarts, EncStops, EncLife, EncEnds, DecLife
<1>1. CASE SessionBegin
  BY <1>1 DEF SessionBegin, Step, Point, flow, data, ghosts
<1>2. CASE EncPipeline
  BY <1>2 DEF EncPipeline, Step, Point, flow, data, ghosts
<1>3. CASE EncRun
  BY <1>3 DEF EncRun, Step, Point, flow, data, ghosts
<1>4. CASE EncQueue
  BY <1>4 DEF EncQueue, Create, Step, Point, flow, data, ghosts
<1>5. CASE EncGroup
  BY <1>5 DEF EncGroup, Step, Point, flow, data, ghosts
<1>6. CASE EncTask
  BY <1>6 DEF EncTask, CreateTask, Step, Point, flow, data, ghosts
<1>7. CASE DecBuf \/ DecRing
  BY <1>7 DEF DecBuf, DecRing, Create, Step, Point, flow, data, ghosts
<1>8. CASE DecRun
  BY <1>8 DEF DecRun, Step, Point, flow, data, ghosts
<1>9. CASE DecGroup
  BY <1>9 DEF DecGroup, Step, Point, flow, data, ghosts
<1>10. CASE DecTask
  BY <1>10 DEF DecTask, CreateTask, Step, Point, flow, data, ghosts
<1>11. CASE SessionEnd
  BY <1>11 DEF SessionEnd, Step, Point, flow, data, ghosts
<1> QED
  BY <1>1, <1>2, <1>3, <1>4, <1>5, <1>6, <1>7, <1>8, <1>9, <1>10, <1>11 DEF Start

\* The stop of a session undoes aenc_run, the pipeline and adec_run before it waits.
LEMMA HeardStop ==
  ASSUME IInv, WInv, HInv, Stop
  PROVE  HInv'
<1> USE DEF HInv, Heard, IInv, TypeOK, Places, EncTaskLife, Actors, EncSteps, DecSteps,
            Starting, Stopping, DecStarts, EncStops, EncLife, EncEnds, DecLife
<1>1. CASE StopEnc
  BY <1>1 DEF StopEnc, Step, Point, flow, data, ghosts
<1>2. CASE StopPipeline
  BY <1>2 DEF StopPipeline, WInv, Whole, Step, Point, flow, data, ghosts
<1>3. CASE FreePipeline
  BY <1>3 DEF FreePipeline, Step, Point, flow, data, ghosts
<1>4. CASE WaitEnc \/ Drain \/ FreeQueue
  BY <1>4 DEF WaitEnc, Drain, FreeQueue, Step, Point, flow, data, ghosts
<1>5. CASE StopDec
  BY <1>5 DEF StopDec, Step, Point, flow, data, ghosts
<1>6. CASE WaitDec \/ FreeBuf \/ FreeRing
  BY <1>6 DEF WaitDec, FreeBuf, FreeRing, Step, Point, flow, data, ghosts
<1> QED
  BY <1>1, <1>2, <1>3, <1>4, <1>5, <1>6 DEF Stop

\* A task leaves only through its bit, and reads on only while its flag is set.
LEMMA HeardTasks ==
  ASSUME IInv, WInv, HInv, AudioEnc \/ EncData \/ AudioDec
  PROVE  HInv'
<1> USE DEF HInv, Heard, IInv, TypeOK, Places, EncTaskLife, Actors, EncSteps, DecSteps,
            Starting, Stopping, DecStarts, EncStops, EncLife, EncEnds, DecLife
<1>1. CASE TaskClear("enc", "clear_enc", "alloc_enc") \/ TaskClear("dec", "clear_dec", "alloc_dec")
  BY <1>1 DEF TaskClear, Step, Point, flow, data, ghosts
<1>2. CASE TaskAlloc("enc", "alloc_enc", "test_enc") \/ TaskAlloc("dec", "alloc_dec", "test_dec")
  BY <1>2 DEF TaskAlloc, Step, Point, flow, data, ghosts
<1>3. CASE TaskTest("enc", "test_enc", "read", "set_enc")
  BY <1>3 DEF TaskTest, WInv, Whole, Step, Point, flow, data, ghosts
<1>4. CASE TaskTest("dec", "test_dec", "play", "set_dec")
  BY <1>4 DEF TaskTest, Step, Point, flow, data, ghosts
<1>5. CASE EncAborted \/ EncData
  BY <1>5 DEF EncAborted, EncData, Step, Point, flow, data, ghosts
<1>6. CASE EncFrame
  BY <1>6 DEF EncFrame, Step, Point, flow, data, ghosts
<1>7. CASE EncSend
  BY <1>7 DEF EncSend, Step, Point, flow, data, ghosts
<1>8. CASE DecPlay
  BY <1>8 DEF DecPlay, Step, Point, flow, data, ghosts
<1>9. CASE TaskSet("enc", "set_enc") \/ TaskSet("dec", "set_dec")
  BY <1>9 DEF TaskSet, Step, Point, flow, data, ghosts
<1> QED
  BY <1>1, <1>2, <1>3, <1>4, <1>5, <1>6, <1>7, <1>8, <1>9 DEF AudioEnc, AudioDec

LEMMA StepHInv ==
  ASSUME IInv, WInv, HInv, [Next]_vars
  PROVE  HInv'
<1>1. CASE Rtp
  <2>1. UNCHANGED <<run, stopped, ring, starved>>
    BY <1>1 DEF Rtp, EncRead, EncReceive, EncCopy, DecWrite, DecDecode, DecQueue, flow,
                ghosts
  <2>2. pc'["sip"] = pc["sip"] /\ pc'["enc"] = pc["enc"] /\ pc'["dec"] = pc["dec"]
    BY <1>1 DEF Rtp, EncRead, EncReceive, EncCopy, DecWrite, DecDecode, DecQueue, Step,
                IInv, TypeOK, Actors
  <2> QED
    BY <2>1, <2>2 DEF HInv, Heard
<1>2. ASSUME UNCHANGED vars \/ \E a \in Actors : Stray(a) PROVE HInv'
  <2>1. UNCHANGED <<pc, run, stopped, ring, starved>>
    BY <1>2 DEF Stray, vars, flow
  <2> QED
    BY <2>1 DEF HInv, Heard
<1> QED
  BY <1>1, <1>2, HeardStart, HeardStop, HeardTasks DEF Next

LEMMA InitInv == Init => IInv /\ WInv
<1> SUFFICES ASSUME Init PROVE IInv /\ WInv
  OBVIOUS
<1>1. Shapes
  BY AvAssumption DEF Init, Shapes, Actors, Handles, Frames, None, Starting, Stopping, Steps
<1>2. TypeOK
  BY <1>1 DEF Init, Shapes, TypeOK
<1>3. Places /\ Hands /\ EncTaskLife /\ CallbackLife
  BY DEF Init, Places, Hands, EncTaskLife, CallbackLife, Actors, Handles, Frames, None,
         EncSteps, DecSteps, DecStarts, NoQueue, DecEnds, EncEnds, EncStops
<1>4. Whole
  BY DEF Init, Whole, Actors, Handles, DecStarts, EncStops, EncLife, EncEnds, DecLife
<1> QED
  BY <1>2, <1>3, <1>4 DEF IInv, WInv

LEMMA AlwaysIInv == ASSUME RtpQuiet PROVE Spec => []IInv
<1>1. Init => IInv
  BY InitInv
<1>2. IInv /\ [Next]_vars => IInv'
  BY StepIInv
<1> QED
  BY <1>1, <1>2, PTL DEF Spec

LEMMA AlwaysWInv == ASSUME RtpQuiet PROVE Spec => []WInv
<1>1. Init => WInv
  BY InitInv
<1>2. IInv /\ WInv /\ [Next]_vars => WInv'
  BY StepWInv
<1> QED
  BY <1>1, <1>2, AlwaysIInv, PTL DEF Spec

\* The structure of av_stream.c stays well-typed, and aenc_queue never holds two frames.
THEOREM AvTypeCorrect == ASSUME RtpQuiet PROVE Spec => []TypeOK
<1>1. IInv => TypeOK
  BY DEF IInv
<1> QED
  BY <1>1, AlwaysIInv, PTL

\* av_audio_enc_read and av_audio_dec_write only use what is there, in any number of
\* sessions and whatever their starts failed to allocate.
THEOREM CallbacksSafe == ASSUME RtpQuiet PROVE Spec => []CallbacksUseLive
<1>1. IInv => CallbacksUseLive
  BY DEF IInv, CallbackLife, CallbacksUseLive
<1> QED
  BY <1>1, AlwaysIInv, PTL

\* Every frame of _audio_enc has one holder and none outlives its session.
THEOREM FramesAccounted == ASSUME RtpQuiet PROVE Spec => []FramesOwned
<1>1. IInv => FramesOwned
  <2> SUFFICES ASSUME IInv PROVE FramesOwned
    OBVIOUS
  <2> USE DEF IInv, TypeOK, Hands, Actors, None
  <2>1. {held[a] : a \in Actors} \ {None} = {held["enc"], held["tx"]} \ {None}
    OBVIOUS
  <2>2. frames = queue \cup ({held[a] : a \in Actors} \ {None})
    BY <2>1
  <2>3. \A a, b \in Actors : held[a] = held[b] /\ held[a] # None => a = b
    OBVIOUS
  <2>4. \A a \in Actors : held[a] \notin queue
    BY DEF Frames
  <2>5. pc["sip"] = "idle" => frames = {}
    BY DEF EncTaskLife, CallbackLife, Places, NoQueue, EncLife, DecStarts, EncStops
  <2> QED
    BY <2>2, <2>3, <2>4, <2>5 DEF FramesOwned
<1> QED
  BY <1>1, AlwaysIInv, PTL

\* Without failed allocations only _audio_enc ever uses what SESSION_END has freed, and
\* only the pipeline, in whose raw_stream_read it still was.
THEOREM TasksSafe == ASSUME RtpQuiet PROVE Spec => []TasksUseLive
<1>1. WInv => TasksUseLive
  BY DEF WInv, Whole, TasksUseLive
<1> QED
  BY <1>1, AlwaysWInv, PTL

\* The waits of SESSION_END, each without a limit: without failed allocations none of
\* them is for a task that is not there, or that nothing sends to the end of its loop.
THEOREM StopAnsweredCorrect == ASSUME RtpQuiet PROVE Spec => []StopAnswered
<1>1. Init => HInv
  BY DEF Init, HInv, Heard, Actors, EncLife, DecStarts, EncStops, DecLife, EncEnds
<1>2. IInv /\ WInv /\ HInv /\ [Next]_vars => HInv'
  BY StepHInv
<1>3. WInv /\ HInv => StopAnswered
  BY DEF WInv, Whole, HInv, Heard, StopAnswered, EncLife, EncStops, DecLife, DecStarts
<1> QED
  BY <1>1, <1>2, <1>3, AlwaysIInv, AlwaysWInv, PTL DEF Spec
=============================================================================
