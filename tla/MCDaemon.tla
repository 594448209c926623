------------------------------ MODULE MCDaemon ------------------------------
(* The main loop and the log, for TLC: they share no state, so each runs    *)
(* in behaviours where the process of the other has ended.                  *)
EXTENDS Daemon, AsyncLog

allVars == <<vars, logVars>>

LoopAlone ==
    /\ Init /\ toFile = FALSE /\ made = [p \in Proc |-> 0] /\ out = <<>> /\ said = <<>>
    /\ log = [p \in Proc |-> [Start EXCEPT !.alive = FALSE]]

LogAlone ==
    /\ LogInit /\ pc = "stopped" /\ ready = {} /\ pipe = <<>> /\ sigchld = FALSE /\ lost = FALSE
    /\ tcpPids = [i \in Slot |-> NoPid] /\ running = {} /\ zombies = {}
    /\ changes = 0 /\ told = 0 /\ buf = <<>> /\ helperPipe = <<>>
    /\ helper = "gone" /\ ran = <<>>

BothInit == LoopAlone \/ LogAlone
BothNext == (Next /\ UNCHANGED logVars) \/ (LogNext /\ UNCHANGED vars)
BothSpec == BothInit /\ [][BothNext]_allVars /\ Fairness
=============================================================================
