--------------------------- MODULE BlinkBenchmark ---------------------------
(***************************************************************************)
(* What the benchmark promises, without its programs: a command is sent    *)
(* when the one before has been answered, every answer belongs to the one  *)
(* command that is outstanding, so that the latency computed from it is    *)
(* the latency of that command, and an answer comes as long as the system  *)
(* works.                                                                  *)
(***************************************************************************)
EXTENDS Naturals

VARIABLES
    sent,       \* blink commands sent
    answered,   \* latencies measured
    working     \* the connection is up and the desktop runs

vars == <<sent, answered, working>>

Init == sent = 0 /\ answered = 0 /\ working = TRUE

Send == /\ sent = answered
        /\ sent' = sent + 1
        /\ UNCHANGED <<answered, working>>

Answer == /\ sent = answered + 1
          /\ answered' = answered + 1
          /\ UNCHANGED <<sent, working>>

Break == /\ working
         /\ working' = FALSE
         /\ UNCHANGED <<sent, answered>>

Next == Send \/ Answer \/ Break

Spec == Init /\ [][Next]_vars /\ WF_vars(working /\ Answer)
=============================================================================
