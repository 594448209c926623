------------------------------ MODULE AsyncLog ------------------------------
(***************************************************************************)
(* The queue of log messages (log.c) of the main process, and of a child   *)
(* that serves TCP, which has a copy of it.  Every write to the syslog     *)
(* daemon or the log file is a step of its own, with what it may return;   *)
(* a call of log_write that is under way is a frame of a stack, because a  *)
(* report of lost messages is logged from inside it.                       *)
(*                                                                         *)
(* Left out: text and priorities, the length of delays, debug mode; a      *)
(* socket opened again or connected again, after which the loop goes on,   *)
(* is the step of the write that succeeds then.                            *)
(***************************************************************************)
EXTENDS Naturals, Sequences, FiniteSets, SequencesExt

CONSTANTS
    MaxLogs,    \* daemon->max_logs, --log-async
    MaxMessages, MaxChild \* bounds on the messages of the two processes

ASSUME LogAssumption ==
    {MaxLogs, MaxMessages, MaxChild} \subseteq Nat

Proc == {"main", "child"}

(* A message: whose it is, its number, 0 for a report, and the number of    *)
(* lost messages it reports.                                                *)
Message(p, number, count) == [by |-> p, number |-> number, count |-> count]

VARIABLES
    toFile, \* log_to_file, --log-facility=<file>
    log,    \* the static variables of log.c in each process, see Start
    made,   \* the number of messages each process has logged
    out,    \* what was written, in order
    said    \* what was given to vsyslog instead

logVars == <<toFile, log, made, out, said>>

(* frames: "first" and "again", the two calls in my_syslog; "loop", of the  *)
(* main loop; "flush", at the end.  A message of two parts is left to write.*)
Capacity == IF toFile THEN 0 ELSE MaxLogs    \* max_logs

Start == [entries |-> <<>>, free |-> IF Capacity = 0 THEN 1 ELSE 0,
          alloced |-> IF Capacity = 0 THEN 1 ELSE 0, lost |-> 0,
          fd |-> "open", good |-> TRUE, frames |-> <<>>, alive |-> TRUE]

Blocking(l) == Capacity = 0 \/ \E i \in DOMAIN l.frames : l.frames[i] = "flush"

-----------------------------------------------------------------------------
(* Operations on the state of one process. *)

FreeEntry(l) == [l EXCEPT !.entries = Tail(@), !.free = @ + 1]

QueuedSilent(l, p, m) ==    \* mutant: without counting what does not fit
    LET entry == [m |-> m, left |-> 2, pid |-> p]
    IN IF l.free > 0 THEN [l EXCEPT !.free = @ - 1, !.entries = Append(@, entry)]
       ELSE IF l.alloced < Capacity
       THEN [l EXCEPT !.alloced = @ + 1, !.entries = Append(@, entry)]
       ELSE l

(* An entry for a message, or none. *)
Queued(l, p, m) ==
    LET entry == [m |-> m, left |-> 2, pid |-> p]
    IN IF l.free > 0 THEN [l EXCEPT !.free = @ - 1, !.entries = Append(@, entry)]
       ELSE IF l.alloced < Capacity
       THEN [l EXCEPT !.alloced = @ + 1, !.entries = Append(@, entry)]
       ELSE [l EXCEPT !.lost = @ + 1]

Call(l, frame) == [l EXCEPT !.frames = <<frame>> \o @]

(* The caller sleeps as the queue fills, not when it is full, and has       *)
(* another go.                                                              *)
Delayed(l) ==
    LET d == Len(l.entries)
    IN Capacity # 0 /\ d # Capacity /\ (IF Capacity > 8 THEN d > Capacity - 8 ELSE d > 0)

(* log_write returns. *)
Return(l) ==
    IF Head(l.frames) = "first" /\ Delayed(l) THEN [l EXCEPT !.frames[1] = "again"]
    ELSE [l EXCEPT !.frames = Tail(@), !.alive = @ /\ Head(l.frames) # "flush"]

(* A message was written to its end; what was lost before is reported.      *)
Finished(l, p) ==
    LET next == FreeEntry([l EXCEPT !.good = TRUE])
    IN IF next.lost = 0 THEN next
       ELSE Call(Queued([next EXCEPT !.lost = 0], p, Message(p, 0, next.lost)), "first")

-----------------------------------------------------------------------------
(* The steps. *)

Idle(p) == log[p].alive /\ log[p].frames = <<>>

(* my_syslog *)
MySyslog(p) ==
    /\ Idle(p) /\ made[p] < (IF p = "main" THEN MaxMessages ELSE MaxChild)
    /\ made' = [made EXCEPT ![p] = @ + 1]
    /\ LET m == Message(p, made[p] + 1, 0)
       IN IF log[p].fd = "none" THEN said' = Append(said, m) /\ UNCHANGED log
          ELSE log' = [log EXCEPT ![p] = Call(Queued(@, p, m), "first")] /\ UNCHANGED said
    /\ UNCHANGED <<toFile, out>>

(* set_log_writer and check_log_writer, in the main loop. *)
CheckLogWriter ==
    /\ Idle("main") /\ log["main"].entries # <<>>
    /\ log["main"].fd # "none" /\ log["main"].good
    /\ log' = [log EXCEPT !["main"] = Call(@, "loop")]
    /\ UNCHANGED <<toFile, made, out, said>>

ForeignNone(l, p) == FALSE      \* mutant: it is written again

(* An entry of the process this one was forked from is only freed.          *)
Foreign(l, p) == l.entries # <<>> /\ Head(l.entries).pid # p

(* One turn of the loop of log_write.  A write may take a part; it may find *)
(* syslogd busy, or gone for the time being; or the log is given up, and    *)
(* vsyslog used from then on.                                               *)
Written(l, p) ==
    /\ ~Foreign(l, p) /\ l.entries # <<>> /\ l.fd # "none"
    /\ LET entry == Head(l.entries)
       IN IF entry.left = 2
          THEN /\ log' = [log EXCEPT ![p] = [l EXCEPT !.entries[1].left = 1, !.good = TRUE]]
               /\ UNCHANGED out
          ELSE /\ log' = [log EXCEPT ![p] = Finished(l, p)]
               /\ out' = Append(out, entry.m)

Stopped(l, p) ==
    /\ ~Foreign(l, p) /\ l.entries # <<>> /\ l.fd # "none" /\ UNCHANGED out
    /\ \E good \in BOOLEAN :
         /\ good => ~Blocking(l)
         /\ log' = [log EXCEPT ![p] = Return([l EXCEPT !.good = good])]

GivenUp(l, p) ==
    /\ ~Foreign(l, p) /\ l.entries # <<>> /\ UNCHANGED out
    /\ log' = [log EXCEPT ![p] = Return([l EXCEPT !.fd = "none", !.good = TRUE])]

LogWrite(p) ==
    LET l == log[p]
    IN /\ l.frames # <<>>
       /\ \/ Foreign(l, p) /\ log' = [log EXCEPT ![p] = FreeEntry(l)] /\ UNCHANGED out
          \/ l.entries = <<>> /\ log' = [log EXCEPT ![p] = Return(l)] /\ UNCHANGED out
          \/ Written(l, p) \/ Stopped(l, p) \/ GivenUp(l, p)
       /\ UNCHANGED <<toFile, made, said>>

(* SIGUSR2: the file is closed and opened again, which may fail.            *)
LogReopen ==
    /\ toFile /\ Idle("main")
    /\ \E fd \in {"open", "none"} : log' = [log EXCEPT !["main"].fd = fd]
    /\ UNCHANGED <<toFile, made, out, said>>

(* fork: the child has a copy of everything. *)
Fork ==
    /\ Idle("main") /\ ~log["child"].alive /\ made["child"] = 0
    /\ log' = [log EXCEPT !["child"] = log["main"]]
    /\ UNCHANGED <<toFile, made, out, said>>

(* flush_log before the process ends. *)
FlushLog(p) ==
    /\ Idle(p)
    /\ log' = [log EXCEPT ![p] = IF @.fd = "none" THEN [@ EXCEPT !.alive = FALSE]
                                 ELSE Call(@, "flush")]
    /\ UNCHANGED <<toFile, made, out, said>>

(* log_start *)
LogInit ==
    /\ toFile \in BOOLEAN
    /\ log = [p \in Proc |-> [Start EXCEPT !.alive = (p = "main")]]
    /\ made = [p \in Proc |-> 0] /\ out = <<>> /\ said = <<>>

LogNext ==
    \/ CheckLogWriter \/ LogReopen \/ Fork
    \/ \E p \in Proc : MySyslog(p) \/ LogWrite(p) \/ FlushLog(p)

LogSpec == LogInit /\ [][LogNext]_logVars

-----------------------------------------------------------------------------
(* Properties. *)

Queue(p) == [i \in DOMAIN log[p].entries |-> log[p].entries[i].m]

(* The messages of the main process that those of seq are or report.       *)
Accounts(m) == IF m.by = "main" THEN (IF m.number = 0 THEN m.count ELSE 1) ELSE 0
Accounted(seq) == FoldLeft(LAMBDA n, m : n + Accounts(m), 0, seq)

(* No message of the main process is lost without being counted, whatever   *)
(* the writes return: each was written, or is queued, or was given to       *)
(* vsyslog, or is in a number that was, or will be, reported.               *)
LogAccounted ==
    Accounted(out) + Accounted(Queue("main")) + Accounted(said) + log["main"].lost
        = made["main"]

(* Of two messages of one process, both numbered, a was logged first.       *)
Precedes(a, b) == a.by = b.by /\ 0 \notin {a.number, b.number} => a.number < b.number

(* Messages come out in the order they were logged, each once: a child      *)
(* never repeats what was in the queue when it was forked.                  *)
LogInOrder == \A i, j \in 1..Len(out) : i < j => Precedes(out[i], out[j])

=============================================================================
