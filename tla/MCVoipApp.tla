----------------------------- MODULE MCVoipApp -----------------------------
(* VoipApp for TLC: the esp_rtc instances are interchangeable.             *)
EXTENDS VoipApp, TLC

StackSymmetry == Permutations(Stacks)

=============================================================================
