------------------------------ MODULE MCKeyInput ------------------------------
(* Bounds for TLC: PLAY alone, pressed three times; or every button once.  *)
EXTENDS KeyInput

PlayOnly == [b \in Buttons |-> IF b = Play THEN 3 ELSE 0]
OnceEach == [b \in Buttons |-> 1]
=============================================================================
