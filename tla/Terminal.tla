------------------------------ MODULE Terminal ------------------------------
(***************************************************************************)
(* What the call-control core promises, without its tasks and their steps: *)
(* the terminal comes into service, requests for a call are raised only    *)
(* while it serves and each is taken at most once, the Ethernet link is    *)
(* reconfigured by one task at a time -- by Main only before service, by   *)
(* the callers only in service -- and a restart forgets everything.        *)
(* VoipApp implements this specification (VoipApp!Abs).                    *)
(***************************************************************************)
EXTENDS Naturals

CONSTANTS Main, Callers, Users, Nobody

VARIABLES serving, raised, taken, owner

tvars == <<serving, raised, taken, owner>>

TInit ==
    /\ serving = FALSE
    /\ raised = 0
    /\ taken = 0
    /\ owner = Nobody

Serve ==
    /\ ~serving
    /\ owner # Main
    /\ serving' = TRUE
    /\ UNCHANGED <<raised, taken, owner>>

Raise ==
    /\ serving
    /\ raised' = raised + 1
    /\ UNCHANGED <<serving, taken, owner>>

Take ==
    /\ serving
    /\ taken < raised
    /\ taken' = taken + 1
    /\ UNCHANGED <<serving, raised, owner>>

Acquire(u) ==
    /\ owner = Nobody
    /\ u = Main => ~serving
    /\ u \in Callers => serving
    /\ owner' = u
    /\ UNCHANGED <<serving, raised, taken>>

Release ==
    /\ owner # Nobody
    /\ owner' = Nobody
    /\ UNCHANGED <<serving, raised, taken>>

Restart ==
    /\ serving' = FALSE
    /\ raised' = 0
    /\ taken' = 0
    /\ owner' = Nobody

TNext ==
    \/ Serve \/ Raise \/ Take \/ Release \/ Restart
    \/ \E u \in Users : Acquire(u)

TSpec == TInit /\ [][TNext]_tvars

=============================================================================
