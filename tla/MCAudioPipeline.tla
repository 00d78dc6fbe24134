-------------------------- MODULE MCAudioPipeline --------------------------
(* Instances for the model checker: av_stream's encoder pipeline, the algorithm *)
(* element with a task and the raw element without one, and a chain of two     *)
(* tasks; and what their callers do with them.                                 *)
EXTENDS AudioPipeline

CONSTANTS algo, raw

Encoder == <<algo, raw>>
EncoderTasks == {algo}

\* av_stream: one run of the pipeline, stopped, waited for and destroyed.
Once == {<<"init", "run">>, <<"run", "stop">>, <<"stop", "wait_for_stop">>,
         <<"wait_for_stop", "deinit">>}
\* A caller in a hurry: audio_pipeline_deinit terminates what still runs.
Hurried == Once \cup {<<"run", "deinit">>}
\* A caller that runs the stopped pipeline again.
Again == Once \cup {<<"wait_for_stop", "reset">>, <<"reset", "run">>}
\* A caller that pauses and resumes it.
Pauses == Once \cup {<<"run", "pause">>, <<"pause", "resume">>, <<"resume", "stop">>,
                    <<"pause", "stop">>, <<"resume", "pause">>}
\* A player: it pauses, resumes, stops, and runs the pipeline again after a reset or
\* after a terminate.
Plays == Pauses \cup Again \cup
         {<<"wait_for_stop", "terminate">>, <<"terminate", "run">>,
          <<"reset", "terminate">>, <<"terminate", "deinit">>}
\* The player's properties say nothing of what follows a fault: nor does TLC go on.
NoFault == ~fault
=============================================================================
