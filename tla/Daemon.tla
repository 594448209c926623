------------------------------- MODULE Daemon -------------------------------
(***************************************************************************)
(* The main loop of dnsmasq.c around its handlers: signals and the event   *)
(* pipe, the children that serve TCP, the helper process that runs the     *)
(* lease-change script (helper.c), and the orderly end at SIGTERM.         *)
(*                                                                         *)
(* A lease change is a number, given in the order do_script_run announces  *)
(* them; what they are is in the module Leases.  A message to the helper   *)
(* is shorter than PIPE_BUF, so that it is written whole or not at all.    *)
(* Left out: start-up and its errors (fatal_event), failures of fork and   *)
(* malloc, debug mode, and the handlers of the other modules.              *)
(***************************************************************************)
EXTENDS Naturals, Sequences, FiniteSets, SequencesExt

CONSTANTS
    Pid,            \* process numbers of TCP children
    NoPid,          \* an empty slot, 0 in the code
    MaxProcs,       \* MAX_PROCS
    Listener,       \* sockets that listen for TCP
    PipeSize,       \* events the event pipe holds
    HelperPipeSize, \* messages the pipe to the helper holds
    MaxChanges,     \* bound on the lease changes
    Signals         \* the signals that come from outside

ASSUME DaemonAssumption ==
    /\ IsFiniteSet(Pid) /\ NoPid \notin Pid
    /\ {MaxProcs, PipeSize, HelperPipeSize} \subseteq Nat \ {0} /\ MaxChanges \in Nat
    /\ Signals \subseteq {"reload", "alarm", "term"}
    /\ Listener \cap {"event", "dhcp", "helper"} = {}

Slot == 1..MaxProcs
Event == {"reload", "alarm", "child", "exited", "term"}

VARIABLES
    pc,         \* where the main process is in its loop
    ready,      \* what select found ready and the loop has not looked at yet
    pipe,       \* the event pipe
    sigchld,    \* SIGCHLD is pending
    lost,       \* an EVENT_CHILD did not fit in the pipe
    tcpPids,    \* daemon->tcp_pids
    running,    \* TCP children that serve
    zombies,    \* those that have ended and are not waited for
    changes,    \* the number of lease changes so far
    told,       \* of which do_script_run has announced
    buf,        \* the message helper_write has to write, or none
    helperPipe, \* the pipe to the helper
    helper,     \* "reads", "waits" for the script, "gone"
    ran         \* the changes the script was run for, in order

vars == <<pc, ready, pipe, sigchld, lost, tcpPids, running, zombies,
          changes, told, buf, helperPipe, helper, ran>>

loop == <<pc, ready>>
children == <<sigchld, tcpPids, running, zombies>>
script == <<changes, told, buf, helperPipe, helper, ran>>

-----------------------------------------------------------------------------
(* Events. *)

(* send_event: the pipe does not block, an event that does not fit is lost. *)
SendEvent(ev) ==
    IF Len(pipe) < PipeSize THEN pipe' = Append(pipe, ev) /\ UNCHANGED lost
    ELSE UNCHANGED pipe /\ lost' = (lost \/ ev = "child")

(* sig_handler, between any two steps of the main process.                  *)
Signal(sig) ==
    /\ pc # "stopped"
    /\ SendEvent(sig)
    /\ UNCHANGED <<loop, children, script>>

SignalChild ==
    /\ sigchld /\ sigchld' = FALSE /\ pc # "stopped"
    /\ SendEvent("child")
    /\ UNCHANGED <<loop, tcpPids, running, zombies, script>>

-----------------------------------------------------------------------------
(* One turn of the loop. *)

FreeSlots == {i \in Slot : tcpPids[i] = NoPid}

(* The script is told of a change when the last message has left the buffer. *)
DoScriptRun == told < changes

AnnouncedHasty ==     \* mutant: whether or not it has left
    IF DoScriptRun THEN told' = told + 1 /\ buf' = <<told + 1>> ELSE UNCHANGED <<told, buf>>

Announced ==
    IF buf = <<>> /\ DoScriptRun THEN told' = told + 1 /\ buf' = <<told + 1>>
    ELSE UNCHANGED <<told, buf>>

(* set_dns_listeners listens for TCP, on all sockets, if any slot is free;  *)
(* then select: any connections, any DHCP packet, the event pipe, the pipe  *)
(* to the helper.  It may wake for other things, by its time-out, or by a   *)
(* signal, when nothing was ready: the signal then comes after the step.    *)
Select ==
    /\ pc = "select" /\ pc' = "event"
    /\ Announced
    /\ \E connected \in SUBSET IF FreeSlots # {} THEN Listener ELSE {},
          packet \in SUBSET IF changes < MaxChanges THEN {"dhcp"} ELSE {} :
         ready' = connected \cup packet
                  \cup (IF pipe # <<>> THEN {"event"} ELSE {})
                  \cup (IF buf' # <<>> /\ Len(helperPipe) < HelperPipeSize THEN {"helper"} ELSE {})
    /\ UNCHANGED <<pipe, lost, children, changes, helperPipe, helper, ran>>

(* EVENT_CHILD: all children that have ended are waited for, and their      *)
(* slots freed.                                                             *)
ReapedOne ==    \* mutant: one child for each event
    \E p \in IF zombies = {} THEN {NoPid} ELSE zombies :
        /\ zombies' = zombies \ {p}
        /\ tcpPids' = [i \in Slot |-> IF tcpPids[i] = p THEN NoPid ELSE tcpPids[i]]

Reaped ==
    /\ zombies' = {}
    /\ tcpPids' = [i \in Slot |-> IF tcpPids[i] \in zombies THEN NoPid ELSE tcpPids[i]]

(* async_event: one event a turn.  The handlers of SIGHUP and SIGALRM are   *)
(* in Dhcp and Forward; those of the others only log.  At SIGTERM the       *)
(* children in the table are told to end.                                   *)
AsyncEvent ==
    /\ pc = "event"
    /\ IF "event" \notin ready
       THEN pc' = "dns" /\ UNCHANGED <<ready, pipe, sigchld, tcpPids, running, zombies>>
       ELSE /\ pipe' = Tail(pipe) /\ ready' = ready \ {"event"}
            /\ CASE Head(pipe) = "child" ->
                      pc' = "dns" /\ Reaped /\ UNCHANGED <<sigchld, running>>
                 [] Head(pipe) = "term" ->
                      LET hit == running \cap {tcpPids[i] : i \in Slot}
                      IN /\ pc' = "term" /\ running' = running \ hit
                         /\ zombies' = zombies \cup hit /\ sigchld' = (sigchld \/ hit # {})
                         /\ UNCHANGED tcpPids
                 [] OTHER -> pc' = "dns" /\ UNCHANGED <<sigchld, tcpPids, running, zombies>>
    /\ UNCHANGED <<lost, script>>

(* check_dns_listeners: for a connection on each socket found ready a child *)
(* is forked; it has the first slot that is free, or none.                  *)
CheckDnsListeners ==
    /\ pc = "dns"
    /\ IF ready \cap Listener = {} \/ Pid \ (running \cup zombies) = {}
       THEN pc' = "dhcp" /\ ready' = ready \ Listener /\ UNCHANGED <<tcpPids, running>>
       ELSE \E l \in ready \cap Listener :
              LET p == CHOOSE x \in Pid \ (running \cup zombies) : TRUE
              IN /\ ready' = ready \ {l} /\ UNCHANGED pc
                 /\ running' = running \cup {p}
                 /\ tcpPids' = IF FreeSlots = {} THEN tcpPids
                               ELSE LET i == CHOOSE i \in FreeSlots : \A j \in FreeSlots : i <= j
                                    IN [tcpPids EXCEPT ![i] = p]
    /\ UNCHANGED <<pipe, lost, sigchld, zombies, script>>

(* A DHCP packet changes some lease, or none. *)
DhcpPacket ==
    /\ pc = "dhcp" /\ pc' = "helper" /\ ready' = ready \ {"dhcp"}
    /\ changes' = IF "dhcp" \in ready THEN changes + 1 ELSE changes
    /\ UNCHANGED <<pipe, lost, children, told, buf, helperPipe, helper, ran>>

(* helper_write, of all that is in the buffer. *)
HelperWrite ==
    /\ buf' = <<>> /\ helperPipe' = helperPipe \o buf

Bottom ==
    /\ pc = "helper" /\ pc' = "select" /\ ready' = {}
    /\ IF "helper" \in ready THEN HelperWrite ELSE UNCHANGED <<buf, helperPipe>>
    /\ UNCHANGED <<pipe, lost, children, changes, told, helper, ran>>

TermHasty ==    \* mutant: once the buffer is empty
    /\ pc = "term"
    /\ IF buf # <<>> THEN Len(helperPipe) < HelperPipeSize /\ HelperWrite /\ UNCHANGED pc
       ELSE pc' = "stopped" /\ UNCHANGED <<buf, helperPipe>>
    /\ UNCHANGED <<ready, pipe, lost, children, changes, told, helper, ran>>

(* EVENT_TERM: writes block until the helper has been told all; then the    *)
(* pipe is closed.                                                          *)
Term ==
    /\ pc = "term"
    /\ CASE buf # <<>> -> /\ Len(helperPipe) < HelperPipeSize
                          /\ HelperWrite /\ UNCHANGED <<pc, told>>
         [] buf = <<>> /\ DoScriptRun ->
              told' = told + 1 /\ buf' = <<told + 1>> /\ UNCHANGED <<pc, helperPipe>>
         [] OTHER -> pc' = "stopped" /\ UNCHANGED <<told, buf, helperPipe>>
    /\ UNCHANGED <<ready, pipe, lost, children, changes, helper, ran>>

-----------------------------------------------------------------------------
(* The other processes. *)

(* A child has served, or its SIGALRM came.  SIGCHLD is pending once.       *)
ChildEnds(p) ==
    /\ p \in running /\ running' = running \ {p} /\ zombies' = zombies \cup {p}
    /\ sigchld' = TRUE
    /\ UNCHANGED <<loop, pipe, lost, tcpPids, script>>

(* create_helper: a message is read whole and its script started; the       *)
(* helper ends when it finds its pipe closed.                               *)
HelperRead ==
    /\ helper = "reads"
    /\ IF helperPipe # <<>>
       THEN /\ helper' = "waits" /\ ran' = Append(ran, Head(helperPipe))
            /\ helperPipe' = Tail(helperPipe)
       ELSE pc = "stopped" /\ helper' = "gone" /\ UNCHANGED <<ran, helperPipe>>
    /\ UNCHANGED <<loop, pipe, lost, children, changes, told, buf>>

(* The script ends, well or with an error the main process is told of.      *)
ScriptEnds ==
    /\ helper = "waits" /\ helper' = "reads"
    /\ UNCHANGED <<pipe, lost>> \/ SendEvent("exited")
    /\ UNCHANGED <<loop, children, changes, told, buf, helperPipe, ran>>

-----------------------------------------------------------------------------

Init ==
    /\ pc = "select" /\ ready = {} /\ pipe = <<>> /\ sigchld = FALSE /\ lost = FALSE
    /\ tcpPids = [i \in Slot |-> NoPid] /\ running = {} /\ zombies = {}
    /\ changes = 0 /\ told = 0 /\ buf = <<>> /\ helperPipe = <<>>
    /\ helper = "reads" /\ ran = <<>>

MainLoop ==
    \/ Select \/ AsyncEvent \/ CheckDnsListeners \/ DhcpPacket \/ Bottom \/ Term

Next ==
    \/ MainLoop \/ SignalChild \/ HelperRead \/ ScriptEnds
    \/ \E sig \in Signals : Signal(sig)
    \/ \E p \in Pid : ChildEnds(p)

Spec == Init /\ [][Next]_vars

(* The processes are scheduled, and a script ends some time. *)
Fairness == WF_vars(MainLoop) /\ WF_vars(HelperRead) /\ WF_vars(ScriptEnds)
FairSpec == Spec /\ Fairness

-----------------------------------------------------------------------------
(* Properties. *)

(* A slot is never that of a process already waited for, which SIGTERM      *)
(* would kill whoever has its number by then; no two slots are of one       *)
(* process; and as long as no EVENT_CHILD was lost, each child that ended   *)
(* is going to be waited for, though several have one SIGCHLD in common.    *)
ChildrenTracked ==
    /\ \A i \in Slot : tcpPids[i] \in running \cup zombies \cup {NoPid}
    /\ \A i, j \in Slot : i # j /\ tcpPids[i] # NoPid => tcpPids[i] # tcpPids[j]
    /\ zombies # {} /\ ~lost /\ pc \notin {"term", "stopped"}
         => sigchld \/ \E i \in DOMAIN pipe : pipe[i] = "child"

(* The script is run once for each lease change, in the order of the        *)
(* changes, however slow it is: what was announced is with the script, in   *)
(* the pipe or in the buffer.                                               *)
ScriptsInOrder == ran \o helperPipe \o buf = [i \in 1..told |-> i]

(* SIGTERM that reached the event pipe ends the process, after the script   *)
(* was run for all changes: neither process waits for the other.            *)
TermEnds ==
    (\E i \in DOMAIN pipe : pipe[i] = "term")
        ~> (pc = "stopped" /\ helper = "gone" /\ ran = [i \in 1..changes |-> i])

=============================================================================
