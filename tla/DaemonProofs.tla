---------------------------- MODULE DaemonProofs ----------------------------
(***************************************************************************)
(* The main loop of dnsmasq for every number of children, slots, lease     *)
(* changes and every size of the pipes: the script is run once for each    *)
(* change, in order, and the slots of the TCP children are true.  And its  *)
(* log for every length of its queue and however much is logged: no        *)
(* message of the main process is lost uncounted, and of no process do two *)
(* messages change places or come out twice.                               *)
(***************************************************************************)
EXTENDS Daemon, AsyncLog, InductionLemmas

-----------------------------------------------------------------------------
(* The main loop *)

(* What is left to the script, from what it was run for to what waits in    *)
(* the buffer.                                                              *)
Announcements(seq1, seq2, seq3) == seq1 \o seq2 \o seq3
Numbered(n) == [i \in 1..n |-> i]

ScriptInv ==
    /\ told \in Nat /\ buf \in Seq(Nat) /\ helperPipe \in Seq(Nat) /\ ran \in Seq(Nat)
    /\ Announcements(ran, helperPipe, buf) = Numbered(told)

(* That the end of some child is going to be noticed. *)
Noticed == sigchld \/ \E i \in DOMAIN pipe : pipe[i] = "child"

ChildrenInv ==
    /\ pipe \in Seq(Event) /\ lost \in BOOLEAN /\ sigchld \in BOOLEAN
    /\ running \subseteq Pid /\ zombies \subseteq Pid
    /\ "event" \in ready => pipe # <<>>
    /\ tcpPids \in [Slot -> Pid \cup {NoPid}]
    /\ ChildrenTracked

-----------------------------------------------------------------------------
(* Lemmas about the announcements, which only ever move on. *)

(* One more is announced when the buffer is empty. *)
LEMMA OneMore ==
    ASSUME NEW n \in Nat, NEW r \in Seq(Nat), NEW h \in Seq(Nat),
           Announcements(r, h, <<>>) = Numbered(n)
    PROVE  Announcements(r, h, <<n + 1>>) = Numbered(n + 1)
<1>1. r \o h = Numbered(n)
  BY DEF Announcements
<1>2. Numbered(n) \o <<n + 1>> = Numbered(n + 1)
  <2>1. Numbered(n) \in Seq(Nat) /\ Len(Numbered(n)) = n
    BY DEF Numbered
  <2> QED
    BY <2>1 DEF Numbered
<1> QED
  BY <1>1, <1>2 DEF Announcements

(* helper_write moves the buffer to the pipe. *)
LEMMA WrittenOn ==
    ASSUME NEW r \in Seq(Nat), NEW h \in Seq(Nat), NEW b \in Seq(Nat)
    PROVE  Announcements(r, h \o b, <<>>) = Announcements(r, h, b)
BY SMTT(30) DEF Announcements

(* The helper takes the first message of the pipe. *)
LEMMA ReadOn ==
    ASSUME NEW r \in Seq(Nat), NEW h \in Seq(Nat), h # <<>>, NEW b \in Seq(Nat)
    PROVE  Announcements(Append(r, Head(h)), Tail(h), b) = Announcements(r, h, b)
<1>1. Append(r, Head(h)) \o Tail(h) = r \o h
  OBVIOUS
<1> QED
  BY <1>1 DEF Announcements

-----------------------------------------------------------------------------
(* The script is run for each change in order.                              *)

LEMMA ScriptInit == Init => ScriptInv
<1> SUFFICES ASSUME Init PROVE ScriptInv
  OBVIOUS
<1>1. <<>> \in Seq(Nat) /\ Numbered(0) = <<>>
  BY DEF Numbered
<1> QED
  BY <1>1 DEF Init, ScriptInv, Announcements

(* do_script_run, in the loop and at the end. *)
LEMMA AnnouncedInv ==
    ASSUME ScriptInv, UNCHANGED <<helperPipe, ran>>,
           \/ buf = <<>> /\ told' = told + 1 /\ buf' = <<told + 1>>
           \/ UNCHANGED <<told, buf>>
    PROVE  ScriptInv'
<1>1. CASE UNCHANGED <<told, buf>>
  BY <1>1 DEF ScriptInv
<1>2. CASE buf = <<>> /\ told' = told + 1 /\ buf' = <<told + 1>>
  <2>1. Announcements(ran, helperPipe, <<told + 1>>) = Numbered(told + 1)
    BY <1>2, OneMore DEF ScriptInv
  <2>2. <<told + 1>> \in Seq(Nat) /\ told + 1 \in Nat
    BY DEF ScriptInv
  <2> QED
    BY <1>2, <2>1, <2>2 DEF ScriptInv
<1> QED
  BY <1>1, <1>2

LEMMA HelperWriteInv ==
    ASSUME ScriptInv, HelperWrite, UNCHANGED <<told, ran>>
    PROVE  ScriptInv'
<1>1. Announcements(ran, helperPipe \o buf, <<>>) = Numbered(told)
  BY WrittenOn DEF ScriptInv
<1>2. <<>> \in Seq(Nat) /\ helperPipe \o buf \in Seq(Nat)
  BY DEF ScriptInv
<1> QED
  BY <1>1, <1>2 DEF ScriptInv, HelperWrite

LEMMA HelperReadInv ==
    ASSUME ScriptInv, HelperRead
    PROVE  ScriptInv'
<1>1. CASE helperPipe # <<>>
  <2>1. Announcements(Append(ran, Head(helperPipe)), Tail(helperPipe), buf) = Numbered(told)
    BY <1>1, ReadOn DEF ScriptInv
  <2>2. Append(ran, Head(helperPipe)) \in Seq(Nat) /\ Tail(helperPipe) \in Seq(Nat)
    BY <1>1 DEF ScriptInv
  <2> QED
    BY <1>1, <2>1, <2>2 DEF ScriptInv, HelperRead
<1>2. CASE helperPipe = <<>>
  BY <1>2 DEF ScriptInv, HelperRead
<1> QED
  BY <1>1, <1>2

LEMMA ScriptStep == ScriptInv /\ [Next]_vars => ScriptInv'
<1> SUFFICES ASSUME ScriptInv, [Next]_vars PROVE ScriptInv'
  OBVIOUS
<1> DEFINE same == UNCHANGED <<told, buf, helperPipe, ran>>
<1>0. ASSUME same PROVE ScriptInv'
  BY <1>0 DEF ScriptInv
<1>1. CASE Select
  <2>1. UNCHANGED <<helperPipe, ran>> /\ Announced
    BY <1>1 DEF Select
  <2> QED
    BY <2>1, AnnouncedInv DEF Announced
<1>2. CASE AsyncEvent
  BY <1>2, <1>0 DEF AsyncEvent, script
<1>3. CASE CheckDnsListeners
  BY <1>3, <1>0 DEF CheckDnsListeners, script
<1>4. CASE DhcpPacket
  BY <1>4, <1>0 DEF DhcpPacket
<1>5. CASE Bottom
  <2>1. UNCHANGED <<told, ran>> /\ (HelperWrite \/ UNCHANGED <<buf, helperPipe>>)
    BY <1>5 DEF Bottom
  <2> QED
    BY <2>1, <1>0, HelperWriteInv
<1>6. CASE Term
  <2>1. UNCHANGED ran
    BY <1>6 DEF Term
  <2>2. CASE buf # <<>>
    BY <1>6, <2>1, <2>2, HelperWriteInv DEF Term
  <2>3. CASE buf = <<>> /\ DoScriptRun
    <3>1. told' = told + 1 /\ buf' = <<told + 1>> /\ UNCHANGED helperPipe
      BY <1>6, <2>3 DEF Term
    <3> QED
      BY <2>1, <2>3, <3>1, AnnouncedInv
  <2>4. CASE buf = <<>> /\ ~DoScriptRun
    BY <1>6, <2>1, <2>4, <1>0 DEF Term
  <2> QED
    BY <2>2, <2>3, <2>4
<1>7. CASE SignalChild
  BY <1>7, <1>0 DEF SignalChild, script
<1>8. CASE HelperRead
  BY <1>8, HelperReadInv
<1>9. CASE ScriptEnds
  BY <1>9, <1>0 DEF ScriptEnds
<1>10. ASSUME NEW sig \in Signals, Signal(sig) PROVE ScriptInv'
  BY <1>10, <1>0 DEF Signal, script
<1>11. ASSUME NEW p \in Pid, ChildEnds(p) PROVE ScriptInv'
  BY <1>11, <1>0 DEF ChildEnds, script
<1>12. CASE UNCHANGED vars
  BY <1>12, <1>0 DEF vars
<1> QED
  BY <1>1, <1>2, <1>3, <1>4, <1>5, <1>6, <1>7, <1>8, <1>9, <1>10, <1>11, <1>12
     DEF Next, MainLoop

(* The script is run once for each lease change, in order, however long it  *)
(* takes and whatever the pipe holds (do_script_run, helper_write,          *)
(* create_helper).                                                          *)
THEOREM DaemonScriptsInOrder == Spec => []ScriptsInOrder
<1>1. ScriptInv => ScriptsInOrder
  BY DEF ScriptInv, ScriptsInOrder, Announcements, Numbered
<1> QED
  BY <1>1, ScriptInit, ScriptStep, PTL DEF Spec

-----------------------------------------------------------------------------
(* The slots of the children.                                               *)

LEMMA ChildrenInit == Init => ChildrenInv
<1> SUFFICES ASSUME Init PROVE ChildrenInv
  OBVIOUS
<1>1. /\ pipe = <<>> /\ lost = FALSE /\ sigchld = FALSE /\ running = {} /\ zombies = {}
      /\ ready = {} /\ tcpPids = [i \in Slot |-> NoPid]
  BY DEF Init
<1>2. ChildrenTracked
  BY <1>1 DEF ChildrenTracked
<1>3. pipe \in Seq(Event) /\ tcpPids \in [Slot -> Pid \cup {NoPid}]
  BY <1>1
<1> QED
  BY <1>1, <1>2, <1>3 DEF ChildrenInv

(* What the steps that leave the slots alone have in common: the processes  *)
(* in the slots are there still.                                            *)
LEMMA SlotsKept ==
    ASSUME ChildrenInv, UNCHANGED tcpPids,
           running \cup zombies \subseteq running' \cup zombies',
           running' \subseteq Pid, zombies' \subseteq Pid,
           pipe' \in Seq(Event), lost' \in BOOLEAN, sigchld' \in BOOLEAN,
           "event" \in ready' => pipe' # <<>>,
           zombies' # {} /\ ~lost' /\ pc' \notin {"term", "stopped"} => Noticed'
    PROVE  ChildrenInv'
<1>1. \A i \in Slot : tcpPids'[i] \in running' \cup zombies' \cup {NoPid}
  BY DEF ChildrenInv, ChildrenTracked
<1>2. \A i, j \in Slot : i # j /\ tcpPids'[i] # NoPid => tcpPids'[i] # tcpPids'[j]
  BY DEF ChildrenInv, ChildrenTracked
<1>3. ChildrenTracked'
  BY <1>1, <1>2 DEF ChildrenTracked, Noticed
<1> QED
  BY <1>3 DEF ChildrenInv

(* An event that fits is in the pipe, behind those that were. *)
LEMMA SendEventNotices ==
    ASSUME ChildrenInv, NEW ev \in Event, SendEvent(ev)
    PROVE  /\ pipe' \in Seq(Event) /\ lost' \in BOOLEAN
           /\ pipe # <<>> => pipe' # <<>>
           /\ ~lost' => ~lost
           /\ \A i \in DOMAIN pipe : i \in DOMAIN pipe' /\ pipe'[i] = pipe[i]
           /\ ev = "child" /\ ~lost' => \E i \in DOMAIN pipe' : pipe'[i] = "child"
<1>1. CASE Len(pipe) < PipeSize
  <2>1. pipe' = Append(pipe, ev) /\ lost' = lost
    BY <1>1 DEF SendEvent
  <2>2. Len(pipe') \in DOMAIN pipe' /\ pipe'[Len(pipe')] = ev
    BY <2>1 DEF ChildrenInv
  <2> QED
    BY <2>1, <2>2 DEF ChildrenInv
<1>2. CASE ~ Len(pipe) < PipeSize
  BY <1>2 DEF SendEvent, ChildrenInv
<1> QED
  BY <1>1, <1>2

(* An event is sent, and with that of the children their signal is over. *)
LEMMA EventInv ==
    ASSUME ChildrenInv, NEW ev \in Event, SendEvent(ev),
           UNCHANGED <<pc, ready, tcpPids, running, zombies>>,
           \/ UNCHANGED sigchld
           \/ ev = "child" /\ sigchld' = FALSE
    PROVE  ChildrenInv'
<1>1. /\ pipe' \in Seq(Event) /\ lost' \in BOOLEAN
      /\ pipe # <<>> => pipe' # <<>>
      /\ ~lost' => ~lost
      /\ \A i \in DOMAIN pipe : i \in DOMAIN pipe' /\ pipe'[i] = pipe[i]
      /\ ev = "child" /\ ~lost' => \E i \in DOMAIN pipe' : pipe'[i] = "child"
  BY SendEventNotices
<1>2. zombies' # {} /\ ~lost' /\ pc' \notin {"term", "stopped"} => Noticed'
  BY <1>1 DEF ChildrenInv, ChildrenTracked, Noticed
<1>3. sigchld' \in BOOLEAN
  BY DEF ChildrenInv
<1> QED
  BY <1>1, <1>2, <1>3, SlotsKept DEF ChildrenInv

(* EVENT_CHILD: none that ended is left. *)
LEMMA ReapedInv ==
    ASSUME ChildrenInv, Reaped, UNCHANGED <<lost, sigchld, running>>,
           pipe' \in Seq(Event), "event" \notin ready'
    PROVE  ChildrenInv'
<1>1. zombies' = {}
  BY DEF Reaped
<1>2. /\ tcpPids' \in [Slot -> Pid \cup {NoPid}]
      /\ \A i \in Slot : tcpPids'[i] = IF tcpPids[i] \in zombies THEN NoPid ELSE tcpPids[i]
  BY DEF Reaped, ChildrenInv
<1>3. \A i \in Slot : tcpPids'[i] \in running' \cup zombies' \cup {NoPid}
  BY <1>2 DEF ChildrenInv, ChildrenTracked
<1>4. \A i, j \in Slot : i # j /\ tcpPids'[i] # NoPid => tcpPids'[i] # tcpPids'[j]
  BY <1>2 DEF ChildrenInv, ChildrenTracked
<1>5. ChildrenTracked'
  BY <1>1, <1>3, <1>4 DEF ChildrenTracked
<1> QED
  BY <1>1, <1>2, <1>5 DEF ChildrenInv

LEMMA AsyncEventInv ==
    ASSUME ChildrenInv, AsyncEvent
    PROVE  ChildrenInv'
<1>1. UNCHANGED lost
  BY DEF AsyncEvent
<1>2. CASE "event" \notin ready
  <2>1. UNCHANGED <<ready, pipe, sigchld, tcpPids, running, zombies>> /\ pc = "event"
    BY <1>2 DEF AsyncEvent
  <2>2. zombies' # {} /\ ~lost' /\ pc' \notin {"term", "stopped"} => Noticed'
    BY <1>1, <2>1 DEF ChildrenInv, ChildrenTracked, Noticed
  <2> QED
    BY <1>1, <2>1, <2>2, SlotsKept DEF ChildrenInv
<1>3. CASE "event" \in ready
  <2>0. pipe' = Tail(pipe) /\ ready' = ready \ {"event"} /\ pc = "event"
    BY <1>3 DEF AsyncEvent
  <2>1. pipe' \in Seq(Event)
    BY <1>3, <2>0 DEF ChildrenInv
  <2>2. CASE Head(pipe) = "child"
    <3>1. Reaped /\ UNCHANGED <<sigchld, running>>
      BY <1>3, <2>2 DEF AsyncEvent
    <3> QED
      BY <1>1, <2>0, <2>1, <3>1, ReapedInv
  <2>3. CASE Head(pipe) = "term"
    <3> DEFINE hit == running \cap {tcpPids[i] : i \in Slot}
    <3>1. /\ pc' = "term" /\ running' = running \ hit /\ zombies' = zombies \cup hit
          /\ sigchld' = (sigchld \/ hit # {}) /\ UNCHANGED tcpPids
      BY <1>3, <2>3 DEF AsyncEvent
    <3> QED
      BY <1>1, <2>0, <2>1, <3>1, SlotsKept DEF ChildrenInv
  <2>4. CASE Head(pipe) # "child" /\ Head(pipe) # "term"
    <3>1. UNCHANGED <<sigchld, tcpPids, running, zombies>>
      BY <1>3, <2>4 DEF AsyncEvent
    <3>2. zombies' # {} /\ ~lost' /\ pc' \notin {"term", "stopped"} => Noticed'
      <4>1. ASSUME NEW i \in DOMAIN pipe, pipe[i] = "child"
            PROVE  i - 1 \in DOMAIN pipe' /\ pipe'[i - 1] = "child"
        BY <1>3, <2>0, <2>4, <4>1 DEF ChildrenInv
      <4> QED
        BY <1>1, <2>0, <3>1, <4>1 DEF ChildrenInv, ChildrenTracked, Noticed
    <3> QED
      BY <1>1, <2>0, <2>1, <3>1, <3>2, SlotsKept DEF ChildrenInv
  <2> QED
    BY <2>2, <2>3, <2>4
<1> QED
  BY <1>2, <1>3

(* A child that is forked is in no slot, and has at most one. *)
LEMMA CheckDnsListenersInv ==
    ASSUME ChildrenInv, CheckDnsListeners
    PROVE  ChildrenInv'
<1>0. /\ UNCHANGED <<pipe, lost, sigchld, zombies>> /\ pc = "dns" /\ pc' # "term"
      /\ "event" \in ready' => "event" \in ready
  BY DaemonAssumption DEF CheckDnsListeners
<1>1. zombies' # {} /\ ~lost' /\ pc' \notin {"term", "stopped"} => Noticed'
  BY <1>0 DEF ChildrenInv, ChildrenTracked, Noticed
<1>2. CASE UNCHANGED <<tcpPids, running>>
  BY <1>0, <1>1, <1>2, SlotsKept DEF ChildrenInv
<1>3. CASE ~ UNCHANGED <<tcpPids, running>>
  <2>1. Pid \ (running \cup zombies) # {}
    BY <1>3 DEF CheckDnsListeners
  <2>2. PICK p \in Pid \ (running \cup zombies) :
            /\ running' = running \cup {p}
            /\ tcpPids' = IF FreeSlots = {} THEN tcpPids
                          ELSE LET i == CHOOSE i \in FreeSlots : \A j \in FreeSlots : i <= j
                               IN [tcpPids EXCEPT ![i] = p]
    BY <1>3, <2>1 DEF CheckDnsListeners
  <2>3. PICK k : \/ UNCHANGED tcpPids
                 \/ tcpPids' = [tcpPids EXCEPT ![k] = p]
    BY <2>2
  <2>4. /\ tcpPids' \in [Slot -> Pid \cup {NoPid}]
        /\ \A i \in Slot : tcpPids'[i] = tcpPids[i] \/ (i = k /\ tcpPids'[i] = p)
    BY <2>3 DEF ChildrenInv
  <2>5. \A i \in Slot : tcpPids'[i] \in running' \cup zombies' \cup {NoPid}
    BY <1>0, <2>2, <2>4 DEF ChildrenInv, ChildrenTracked
  <2>6. \A i \in Slot : tcpPids[i] # p
    BY <2>2, DaemonAssumption DEF ChildrenInv, ChildrenTracked
  <2>7. \A i, j \in Slot : i # j /\ tcpPids'[i] # NoPid => tcpPids'[i] # tcpPids'[j]
    BY <2>4, <2>6 DEF ChildrenInv, ChildrenTracked
  <2>8. ChildrenTracked'
    BY <1>1, <2>5, <2>7 DEF ChildrenTracked, Noticed
  <2> QED
    BY <1>0, <2>2, <2>4, <2>8 DEF ChildrenInv
<1> QED
  BY <1>2, <1>3

LEMMA ChildEndsInv ==
    ASSUME ChildrenInv, NEW p \in Pid, ChildEnds(p)
    PROVE  ChildrenInv'
<1>1. /\ running' = running \ {p} /\ zombies' = zombies \cup {p} /\ sigchld' = TRUE
      /\ UNCHANGED <<pc, ready, pipe, lost, tcpPids>>
  BY DEF ChildEnds, loop
<1> QED
  BY <1>1, SlotsKept DEF ChildrenInv, Noticed

(* What a step that touches neither the children nor the event pipe keeps. *)
LEMMA AsideInv ==
    ASSUME ChildrenInv, UNCHANGED <<pipe, lost, sigchld, tcpPids, running, zombies>>,
           "event" \in ready' => pipe # <<>>,
           pc \in {"term", "stopped"} => pc' \in {"term", "stopped"}
    PROVE  ChildrenInv'
<1>1. zombies' # {} /\ ~lost' /\ pc' \notin {"term", "stopped"} => Noticed'
  BY DEF ChildrenInv, ChildrenTracked, Noticed
<1> QED
  BY <1>1, SlotsKept DEF ChildrenInv

LEMMA SelectInv ==
    ASSUME ChildrenInv, Select
    PROVE  ChildrenInv'
<1>1. "event" \in ready' => pipe # <<>>
  BY DaemonAssumption DEF Select
<1>2. /\ UNCHANGED <<pipe, lost, sigchld, tcpPids, running, zombies>>
      /\ pc = "select"
  BY DEF Select, children
<1> QED
  BY <1>1, <1>2, AsideInv

LEMMA ChildrenStep == ChildrenInv /\ [Next]_vars => ChildrenInv'
<1> SUFFICES ASSUME ChildrenInv, [Next]_vars PROVE ChildrenInv'
  OBVIOUS
<1> DEFINE still == UNCHANGED <<pipe, lost, sigchld, tcpPids, running, zombies>>
<1>1. CASE Select
  BY <1>1, SelectInv
<1>2. CASE AsyncEvent
  BY <1>2, AsyncEventInv
<1>3. CASE CheckDnsListeners
  BY <1>3, CheckDnsListenersInv
<1>4. CASE DhcpPacket
  <2>1. still /\ pc = "dhcp" /\ ready' = ready \ {"dhcp"}
    BY <1>4 DEF DhcpPacket, children
  <2> QED
    BY <2>1, AsideInv DEF ChildrenInv
<1>5. CASE Bottom
  <2>1. still /\ pc = "helper" /\ ready' = {}
    BY <1>5 DEF Bottom, children
  <2> QED
    BY <2>1, AsideInv DEF ChildrenInv
<1>6. CASE Term
  <2>1. still /\ UNCHANGED ready /\ pc' \in {"term", "stopped"}
    BY <1>6 DEF Term, children
  <2> QED
    BY <2>1, AsideInv DEF ChildrenInv
<1>7. CASE SignalChild
  <2>1. SendEvent("child") /\ sigchld' = FALSE
        /\ UNCHANGED <<pc, ready, tcpPids, running, zombies>>
    BY <1>7 DEF SignalChild, loop
  <2> QED
    BY <2>1, EventInv DEF Event
<1>8. CASE HelperRead
  <2>1. still /\ UNCHANGED <<pc, ready>>
    BY <1>8 DEF HelperRead, children, loop
  <2> QED
    BY <2>1, AsideInv DEF ChildrenInv
<1>9. CASE ScriptEnds
  <2>1. UNCHANGED <<pc, ready, sigchld, tcpPids, running, zombies>>
    BY <1>9 DEF ScriptEnds, children, loop
  <2>2. CASE UNCHANGED <<pipe, lost>>
    BY <2>1, <2>2, AsideInv DEF ChildrenInv
  <2>3. CASE SendEvent("exited")
    BY <2>1, <2>3, EventInv DEF Event
  <2> QED
    BY <1>9, <2>2, <2>3 DEF ScriptEnds
<1>10. ASSUME NEW sig \in Signals, Signal(sig) PROVE ChildrenInv'
  <2>1. SendEvent(sig) /\ UNCHANGED <<pc, ready, sigchld, tcpPids, running, zombies>>
    BY <1>10 DEF Signal, children, loop
  <2>2. sig \in Event
    BY DaemonAssumption DEF Event
  <2> QED
    BY <2>1, <2>2, EventInv
<1>11. ASSUME NEW p \in Pid, ChildEnds(p) PROVE ChildrenInv'
  BY <1>11, ChildEndsInv
<1>12. CASE UNCHANGED vars
  <2>1. still /\ UNCHANGED <<pc, ready>>
    BY <1>12 DEF vars
  <2> QED
    BY <2>1, AsideInv DEF ChildrenInv
<1> QED
  BY <1>1, <1>2, <1>3, <1>4, <1>5, <1>6, <1>7, <1>8, <1>9, <1>10, <1>11, <1>12
     DEF Next, MainLoop

(* The slots of the TCP children are those of processes that run or are     *)
(* still to be waited for, each once; and while no event was lost, a child  *)
(* that ended is going to be waited for (check_dns_listeners, sig_handler,  *)
(* EVENT_CHILD in async_event).                                             *)
THEOREM DaemonChildrenTracked == Spec => []ChildrenTracked
<1>1. ChildrenInv => ChildrenTracked
  BY DEF ChildrenInv
<1> QED
  BY <1>1, ChildrenInit, ChildrenStep, PTL DEF Spec

-----------------------------------------------------------------------------
(* The log *)

Msg == [by : Proc, number : Nat, count : Nat]

(* An entry of a process is for a message of that process. *)
Entry == {e \in [m : Msg, left : 1..2, pid : Proc] : e.m.by = e.pid}

LogState ==
    [entries : Seq(Entry), free : Nat, alloced : Nat, lost : Nat, fd : {"open", "none"},
     good : BOOLEAN, frames : Seq({"first", "again", "loop", "flush"}), alive : BOOLEAN]

-----------------------------------------------------------------------------
(* What a sequence of messages accounts for *)

LEMMA AccountsNat == \A m \in Msg : Accounts(m) \in Nat
BY DEF Accounts, Msg

(* The sum grows by one message after the other. *)
LEMMA AccountedRuns ==
    ASSUME NEW seq \in Seq(Msg)
    PROVE  \E sum \in [0..Len(seq) -> Nat] :
              /\ sum[0] = 0 /\ sum[Len(seq)] = Accounted(seq)
              /\ \A k \in 1..Len(seq) : sum[k] = sum[k - 1] + Accounts(seq[k])
<1> DEFINE n == Len(seq)
           it == CHOOSE iter : iter = [S \in SUBSET DOMAIN seq |->
                    IF S = {} THEN 0
                    ELSE iter[S \ {Max(S)}] + Accounts(seq[Max(S)])]
           sum == [k \in 0..n |-> it[1..k]]
           step == [x \in (1..n) \X Nat |-> x[2] + Accounts(seq[x[1]])]
<1>1. n \in Nat /\ DOMAIN seq = 1..n /\ \A k \in 1..n : Accounts(seq[k]) \in Nat
  BY AccountsNat
<1>2. step \in [(1..n) \X Nat -> Nat]
  BY <1>1
<1>3. it = [S \in SUBSET (1..n) |->
              IF S = {} THEN 0 ELSE it[S \ {Max(S)}] + Accounts(seq[Max(S)])]
  <2>1. PICK some \in [SUBSET (1..n) -> Nat] : Iterates(some, n, 0, step)
    <3> HIDE DEF n, step
    <3> QED BY <1>1, <1>2, IterateExists
  <2>2. ASSUME NEW S \in SUBSET (1..n)
        PROVE  some[S] = IF S = {} THEN 0 ELSE some[S \ {Max(S)}] + Accounts(seq[Max(S)])
    <3>1. some[S] = IF S = {} THEN 0 ELSE step[<<Max(S), some[S \ {Max(S)}]>>]
      BY <2>1 DEF Iterates
    <3>2. S # {} => Max(S) \in 1..n /\ some[S \ {Max(S)}] \in Nat
      BY <1>1, MaxPlace
    <3> QED
      BY <3>1, <3>2
  <2>3. some = [S \in SUBSET DOMAIN seq |->
                  IF S = {} THEN 0 ELSE some[S \ {Max(S)}] + Accounts(seq[Max(S)])]
    <3>1. some = [S \in SUBSET (1..n) |-> some[S]]
      OBVIOUS
    <3> QED
      BY <1>1, <2>2, <3>1
  <2> QED
    BY <1>1, <2>3
<1>4. Accounted(seq) = it[DOMAIN seq]
  BY DEF Accounted, FoldLeft, MapThenFoldSet
<1> HIDE DEF it, step
<1>5. it[1..0] = 0
  BY <1>1, <1>3
<1>6. ASSUME NEW k \in 1..n PROVE it[1..k] = it[1..(k - 1)] + Accounts(seq[k])
  <2> DEFINE S == 1..k
  <2>1. S \in SUBSET (1..n) /\ S # {} /\ Max(S) = k /\ S \ {Max(S)} = 1..(k - 1)
    <3> HIDE DEF n
    <3> QED BY <1>1, Segment
  <2> HIDE DEF S, n
  <2>2. it[S] = it[S \ {Max(S)}] + Accounts(seq[Max(S)])
    BY <1>3, <2>1
  <2> QED BY <2>1, <2>2 DEF S
<1>7. \A k \in 0..n : it[1..k] \in Nat
  <2> DEFINE P == {k \in 0..n : it[1..k] \in Nat}
  <2>1. 0 \in P
    BY <1>1, <1>5
  <2>2. \A k \in 1..n : k - 1 \in P => k \in P
    BY <1>1, <1>6
  <2>3. \A k \in 0..n : k \in P
    <3> HIDE DEF P
    <3> QED BY <1>1, <2>1, <2>2, UpTo
  <2> QED
    BY <2>3
<1>8. sum \in [0..n -> Nat] /\ sum[0] = 0 /\ sum[n] = Accounted(seq)
  BY <1>1, <1>4, <1>5, <1>7
<1>9. \A k \in 1..n : sum[k] = sum[k - 1] + Accounts(seq[k])
  BY <1>1, <1>6
<1> HIDE DEF sum
<1> QED
  BY <1>8, <1>9

(* Two sums that grow alike stay as far apart as they are. *)
LEMMA SumsApart ==
    ASSUME NEW n \in Nat, NEW f \in [0..n -> Nat], NEW g \in [0..n -> Nat],
           \A k \in 1..n : f[k] - f[k - 1] = g[k] - g[k - 1]
    PROVE  f[n] - g[n] = f[0] - g[0]
<1> DEFINE P == {k \in 0..n : f[k] - g[k] = f[0] - g[0]}
<1>1. 0 \in P
  OBVIOUS
<1>2. \A k \in 1..n : k - 1 \in P => k \in P
  BY SMTT(30)
<1>3. \A k \in 0..n : k \in P
  <2> HIDE DEF P
  <2> QED BY <1>1, <1>2, UpTo
<1> QED
  BY <1>3

LEMMA AccountedEmpty == Accounted(<<>>) = 0
<1>1. <<>> \in Seq(Msg) /\ Len(<<>>) = 0
  OBVIOUS
<1> QED
  BY <1>1, AccountedRuns

LEMMA AccountedAppend ==
    ASSUME NEW seq \in Seq(Msg), NEW m \in Msg
    PROVE  /\ Accounted(seq) \in Nat
           /\ Accounted(Append(seq, m)) = Accounted(seq) + Accounts(m)
<1> DEFINE n    == Len(seq)
           more == Append(seq, m)
<1>1. /\ n \in Nat /\ more \in Seq(Msg) /\ Len(more) = n + 1 /\ more[n + 1] = m
      /\ \A k \in 1..n : more[k] = seq[k]
  OBVIOUS
<1>2. PICK f \in [0..n -> Nat] :
        /\ f[0] = 0 /\ f[n] = Accounted(seq)
        /\ \A k \in 1..n : f[k] = f[k - 1] + Accounts(seq[k])
  BY AccountedRuns
<1>3. PICK g \in [0..(n + 1) -> Nat] :
        /\ g[0] = 0 /\ g[n + 1] = Accounted(more)
        /\ \A k \in 1..(n + 1) : g[k] = g[k - 1] + Accounts(more[k])
  <2> HIDE DEF more, n
  <2>1. \E sum \in [0..Len(more) -> Nat] :
              /\ sum[0] = 0 /\ sum[Len(more)] = Accounted(more)
              /\ \A k \in 1..Len(more) : sum[k] = sum[k - 1] + Accounts(more[k])
    BY <1>1, AccountedRuns
  <2> QED BY <1>1, <2>1
<1> HIDE DEF more, n
<1>4. g[n] = f[n]
  <2> DEFINE h == [k \in 0..n |-> g[k]]
  <2>1. \A k \in 1..n : Accounts(seq[k]) \in Nat /\ k - 1 \in 0..n
    BY <1>1, AccountsNat DEF n
  <2>2. h \in [0..n -> Nat] /\ \A k \in 0..n : h[k] = g[k]
    BY <1>1, <1>3
  <2> HIDE DEF h
  <2>3. \A k \in 1..n : h[k] - h[k - 1] = f[k] - f[k - 1]
    BY SMTT(30), <1>1, <1>2, <1>3, <2>1, <2>2
  <2>4. h[n] - f[n] = h[0] - f[0]
    BY <1>1, <1>2, <2>2, <2>3, SumsApart
  <2> QED
    BY <1>1, <1>2, <1>3, <2>2, <2>4
<1>5. g[n + 1] = g[n] + Accounts(m)
  BY <1>1, <1>3
<1> QED
  BY <1>1, <1>2, <1>3, <1>4, <1>5 DEF more

LEMMA AccountedTail ==
    ASSUME NEW seq \in Seq(Msg), seq # <<>>
    PROVE  Accounted(seq) = Accounts(Head(seq)) + Accounted(Tail(seq))
<1> DEFINE n    == Len(Tail(seq))
           less == Tail(seq)
<1>1. /\ n \in Nat /\ less \in Seq(Msg) /\ Len(seq) = n + 1 /\ Head(seq) = seq[1]
      /\ \A k \in 1..n : less[k] = seq[k + 1]
  OBVIOUS
<1>2. PICK f \in [0..(n + 1) -> Nat] :
        /\ f[0] = 0 /\ f[n + 1] = Accounted(seq)
        /\ \A k \in 1..(n + 1) : f[k] = f[k - 1] + Accounts(seq[k])
  BY <1>1, AccountedRuns
<1>3. PICK g \in [0..n -> Nat] :
        /\ g[0] = 0 /\ g[n] = Accounted(less)
        /\ \A k \in 1..n : g[k] = g[k - 1] + Accounts(less[k])
  BY <1>1, AccountedRuns
<1> DEFINE h == [k \in 0..n |-> f[k + 1]]
<1> HIDE DEF less, n
<1>4. f[1] = Accounts(seq[1]) /\ Accounts(seq[1]) \in Nat
  BY <1>1, <1>2, AccountsNat
<1>5. h[n] = g[n] + f[1]
  <2>1. h \in [0..n -> Nat] /\ \A k \in 0..n : h[k] = f[k + 1]
    BY <1>1, <1>2
  <2> HIDE DEF h
  <2>2. ASSUME NEW k \in 1..n PROVE h[k] - h[k - 1] = g[k] - g[k - 1]
    <3>0. /\ k \in 0..(n + 1) /\ k \in 0..n /\ k - 1 \in 0..n /\ k + 1 \in 1..(n + 1)
          /\ (k + 1) - 1 = k /\ (k - 1) + 1 = k
      BY <1>1
    <3>1. h[k] = f[k + 1] /\ h[k - 1] = f[k]
      BY <2>1, <3>0
    <3>2. f[k + 1] = f[k] + Accounts(seq[k + 1])
      BY <1>2, <3>0
    <3>3. g[k] = g[k - 1] + Accounts(seq[k + 1])
      BY <1>1, <1>3
    <3>4. f[k] \in Nat /\ g[k - 1] \in Nat 
      BY <1>1, <1>2, <1>3, <3>0
    <3>5. Accounts(seq[k + 1]) \in Nat
      BY <1>1, <3>0, AccountsNat
    <3> QED BY <3>1, <3>2, <3>3, <3>4, <3>5
  <2>3. h[n] - g[n] = h[0] - g[0]
    BY <1>1, <1>3, <2>1, <2>2, SumsApart
  <2> QED
    BY <1>1, <1>3, <1>4, <2>1, <2>3
<1> QED
  BY <1>1, <1>2, <1>3, <1>4, <1>5 DEF less

-----------------------------------------------------------------------------
(* The inductive invariant *)

(* The queue of process p, which has logged n messages when o is written: its
   own messages are in order, and go after what it has written.  The others
   are those of the process it was forked from, and are only freed.         *)
QueueOK(es, p, o, n) ==
    \A j \in 1..Len(es) : es[j].pid = p =>
        /\ es[j].m.number <= n
        /\ \A i \in 1..Len(o) : Precedes(o[i], es[j].m)
        /\ \A i \in 1..(j - 1) : es[i].pid = p => Precedes(es[i].m, es[j].m)

Messages(es) == [i \in DOMAIN es |-> es[i].m]

IInv ==
    /\ log \in [Proc -> LogState] /\ made \in [Proc -> Nat]
    /\ out \in Seq(Msg) /\ said \in Seq(Msg)
    /\ \A i \in 1..Len(log["main"].entries) : log["main"].entries[i].pid = "main"
    /\ \A i \in 1..Len(out) : out[i].number <= made[out[i].by]
    /\ LogInOrder
    /\ \A p \in Proc : QueueOK(log[p].entries, p, out, made[p])
    /\ LogAccounted

-----------------------------------------------------------------------------
(* Lemmas about queues *)

(* The messages of a queue. *)
LEMMA MessagesOK ==
    ASSUME NEW es \in Seq(Entry)
    PROVE  /\ Messages(es) \in Seq(Msg) /\ Len(Messages(es)) = Len(es)
           /\ \A e \in Entry : Messages(Append(es, e)) = Append(Messages(es), e.m)
           /\ es # <<>> => /\ Head(es) \in Entry /\ Tail(es) \in Seq(Entry)
                           /\ Messages(es) # <<>> /\ Head(Messages(es)) = Head(es).m
                           /\ Messages(Tail(es)) = Tail(Messages(es))
<1>1. \A e \in Entry : e.m \in Msg
  BY DEF Entry
<1>2. /\ DOMAIN es = 1..Len(es) /\ Len(es) \in Nat
      /\ \A i \in 1..Len(es) : es[i] \in Entry
  OBVIOUS
<1>3. Messages(es) \in Seq(Msg) /\ Len(Messages(es)) = Len(es)
  BY <1>1, <1>2 DEF Messages
<1>4. ASSUME NEW e \in Entry
      PROVE  Messages(Append(es, e)) = Append(Messages(es), e.m)
  BY <1>1, <1>2, <1>3 DEF Messages
<1>5. ASSUME es # <<>>
      PROVE  /\ Head(es) \in Entry /\ Tail(es) \in Seq(Entry)
             /\ Messages(es) # <<>> /\ Head(Messages(es)) = Head(es).m
             /\ Messages(Tail(es)) = Tail(Messages(es))
  <2>1. Head(es) = es[1] /\ Head(es) \in Entry /\ Tail(es) \in Seq(Entry) /\ 1 \in 1..Len(es)
    BY <1>2, <1>5
  <2>2. Messages(es) # <<>> /\ Head(Messages(es)) = Head(es).m
    BY <1>2, <1>3, <2>1 DEF Messages
  <2>3. Messages(Tail(es)) = Tail(Messages(es))
    BY <1>2, <1>3, <1>5, <2>1 DEF Messages
  <2> QED BY <2>1, <2>2, <2>3
<1> QED
  BY <1>3, <1>4, <1>5

(* The first entry leaves the queue. *)
LEMMA QueueTail ==
    ASSUME NEW es \in Seq(Entry), es # <<>>, NEW p, NEW o, NEW n, QueueOK(es, p, o, n)
    PROVE  QueueOK(Tail(es), p, o, n)
<1>1. Len(Tail(es)) = Len(es) - 1 /\ Len(es) \in Nat
      /\ \A i \in 1..(Len(es) - 1) : Tail(es)[i] = es[i + 1] /\ i + 1 \in 1..Len(es)
  OBVIOUS
<1> SUFFICES ASSUME NEW j \in 1..(Len(es) - 1), es[j + 1].pid = p
             PROVE  /\ es[j + 1].m.number <= n
                    /\ \A i \in 1..Len(o) : Precedes(o[i], es[j + 1].m)
                    /\ \A i \in 1..(j - 1) :
                          es[i + 1].pid = p => Precedes(es[i + 1].m, es[j + 1].m)
  BY <1>1 DEF QueueOK
<1>2. /\ es[j + 1].m.number <= n
      /\ \A i \in 1..Len(o) : Precedes(o[i], es[j + 1].m)
      /\ \A i \in 1..((j + 1) - 1) : es[i].pid = p => Precedes(es[i].m, es[j + 1].m)
  BY <1>1 DEF QueueOK
<1>3. \A i \in 1..(j - 1) : i + 1 \in 1..((j + 1) - 1)
  BY <1>1
<1> QED
  BY <1>2, <1>3

(* A new entry, with a number that none has or without one, goes to the end. *)
LEMMA QueueAppend ==
    ASSUME NEW es \in Seq(Entry), NEW p, NEW o \in Seq(Msg), NEW n \in Nat, NEW new \in Nat,
           QueueOK(es, p, o, n), n <= new, NEW e \in Entry, e.pid = p, e.m.number <= new,
           \A i \in 1..Len(o) : o[i].by = p => o[i].number <= n,
           e.m.number = 0 \/ e.m.number > n
    PROVE  QueueOK(Append(es, e), p, o, new)
<1> DEFINE more == Append(es, e)
<1>1. /\ Len(more) = Len(es) + 1 /\ Len(es) \in Nat /\ more[Len(es) + 1] = e
      /\ \A i \in 1..Len(es) : more[i] = es[i] /\ es[i] \in Entry
  OBVIOUS
<1>2. \A x \in Entry : x.m \in Msg /\ x.m.number \in Nat /\ x.m.by = x.pid
  BY DEF Entry, Msg
<1>3. \A x \in Msg : x.number <= n => Precedes(x, e.m)
  BY <1>2 DEF Precedes, Msg
<1> HIDE DEF more
<1> SUFFICES ASSUME NEW j \in 1..(Len(es) + 1), more[j].pid = p
             PROVE  /\ more[j].m.number <= new
                    /\ \A i \in 1..Len(o) : Precedes(o[i], more[j].m)
                    /\ \A i \in 1..(j - 1) : more[i].pid = p => Precedes(more[i].m, more[j].m)
  BY <1>1 DEF QueueOK, more
<1>4. CASE j = Len(es) + 1
  <2>1. ASSUME NEW i \in 1..Len(o) PROVE Precedes(o[i], e.m)
    <3>1. CASE o[i].by = p
      BY <1>3, <3>1
    <3>2. CASE o[i].by # p
      BY <1>2, <3>2 DEF Precedes
    <3> QED BY <3>1, <3>2
  <2>2. ASSUME NEW i \in 1..Len(es), es[i].pid = p PROVE Precedes(es[i].m, e.m)
    BY <1>1, <1>2, <1>3, <2>2 DEF QueueOK
  <2> QED BY <1>1, <1>4, <2>1, <2>2
<1>5. CASE j \in 1..Len(es)
  <2>1. more[j] = es[j] /\ \A i \in 1..(j - 1) : more[i] = es[i]
    BY <1>1, <1>5
  <2>2. /\ es[j].m.number <= n
        /\ \A i \in 1..Len(o) : Precedes(o[i], es[j].m)
        /\ \A i \in 1..(j - 1) : es[i].pid = p => Precedes(es[i].m, es[j].m)
    BY <1>5, <2>1 DEF QueueOK
  <2>3. es[j].m.number \in Nat
    BY <1>1, <1>2, <1>5
  <2> QED BY <2>1, <2>2, <2>3
<1> QED
  BY <1>1, <1>4, <1>5

(* A process's first entry is written. *)
LEMMA QueueWritten ==
    ASSUME NEW es \in Seq(Entry), es # <<>>, NEW p, NEW o \in Seq(Msg), NEW n,
           QueueOK(es, p, o, n), Head(es).pid = p
    PROVE  QueueOK(Tail(es), p, Append(o, Head(es).m), n)
<1> DEFINE less == Tail(es)
           more == Append(o, Head(es).m)
<1>1. /\ Len(less) = Len(es) - 1 /\ Len(es) \in Nat /\ Head(es) = es[1]
      /\ \A i \in 1..(Len(es) - 1) : less[i] = es[i + 1] /\ i + 1 \in 1..Len(es)
  OBVIOUS
<1>2. /\ Len(more) = Len(o) + 1 /\ Len(o) \in Nat /\ more[Len(o) + 1] = es[1].m
      /\ \A i \in 1..Len(o) : more[i] = o[i]
  BY <1>1
<1>3. QueueOK(less, p, o, n)
  BY QueueTail
<1> HIDE DEF less, more
<1> SUFFICES ASSUME NEW j \in 1..Len(less), less[j].pid = p
             PROVE  Precedes(es[1].m, less[j].m)
  BY <1>2, <1>3 DEF QueueOK, less, more
<1>4. less[j] = es[j + 1] /\ j + 1 \in 1..Len(es) /\ 1 \in 1..((j + 1) - 1)
  BY <1>1
<1> QED
  BY <1>1, <1>4 DEF QueueOK

(* What another process writes concerns none of these entries. *)
LEMMA QueueOther ==
    ASSUME NEW es \in Seq(Entry), NEW p, NEW o \in Seq(Msg), NEW n,
           QueueOK(es, p, o, n), NEW m \in Msg, m.by # p
    PROVE  QueueOK(es, p, Append(o, m), n)
<1>1. /\ Len(Append(o, m)) = Len(o) + 1 /\ Len(o) \in Nat /\ Append(o, m)[Len(o) + 1] = m
      /\ \A i \in 1..Len(o) : Append(o, m)[i] = o[i]
  OBVIOUS
<1>2. \A j \in 1..Len(es) : es[j].pid = p => Precedes(m, es[j].m)
  BY DEF Entry, Precedes
<1> QED
  BY <1>1, <1>2 DEF QueueOK

-----------------------------------------------------------------------------
(* Lemmas about the operations *)

LEMMA CallOK ==
    ASSUME NEW l \in LogState, NEW frame \in {"first", "again", "loop", "flush"}
    PROVE  /\ Call(l, frame) \in LogState
           /\ Call(l, frame).entries = l.entries /\ Call(l, frame).lost = l.lost
<1>1. <<frame>> \o l.frames \in Seq({"first", "again", "loop", "flush"})
  BY DEF LogState
<1> DEFINE frames == <<frame>> \o l.frames
<1>2. Call(l, frame) = [l EXCEPT !.frames = frames]
  BY DEF Call
<1> HIDE DEF frames
<1> QED
  BY <1>1, <1>2 DEF LogState, frames

LEMMA ReturnOK ==
    ASSUME NEW l \in LogState, l.frames # <<>>
    PROVE  /\ Return(l) \in LogState
           /\ Return(l).entries = l.entries /\ Return(l).lost = l.lost
<1> DEFINE again == [l.frames EXCEPT ![1] = "again"]
           alive == l.alive /\ Head(l.frames) # "flush"
<1>1. /\ again \in Seq({"first", "again", "loop", "flush"})
      /\ Tail(l.frames) \in Seq({"first", "again", "loop", "flush"})
      /\ alive \in BOOLEAN
  BY DEF LogState
<1>2. \/ Return(l) = [l EXCEPT !.frames = again]
      \/ Return(l) = [l EXCEPT !.frames = Tail(l.frames), !.alive = alive]
  BY DEF Return
<1> HIDE DEF again, alive
<1> QED
  BY <1>1, <1>2 DEF LogState

LEMMA FreeEntryOK ==
    ASSUME NEW l \in LogState, l.entries # <<>>
    PROVE  /\ FreeEntry(l) \in LogState /\ FreeEntry(l).entries = Tail(l.entries)
           /\ FreeEntry(l).lost = l.lost /\ FreeEntry(l).free > 0
<1> DEFINE less == Tail(l.entries)
           more == l.free + 1
           new  == FreeEntry(l)
<1>1. less \in Seq(Entry) /\ more \in Nat /\ more > 0
  BY DEF LogState
<1>2. new = [l EXCEPT !.entries = less, !.free = more]
  BY DEF FreeEntry
<1> HIDE DEF less, more, new
<1>3. new.entries = less /\ new.free = more /\ new.lost = l.lost
  BY <1>2 DEF LogState
<1>4. new \in LogState
  BY <1>1, <1>2 DEF LogState
<1> QED
  BY <1>1, <1>3, <1>4 DEF less, new

(* The entry that m gets. *)
For(m, p) == [m |-> m, left |-> 2, pid |-> p]

LEMMA QueuedOK ==
    ASSUME NEW l \in LogState, NEW p \in Proc, NEW m \in Msg, m.by = p
    PROVE  /\ Queued(l, p, m) \in LogState /\ For(m, p) \in Entry
           /\ \/ /\ Queued(l, p, m).entries = Append(l.entries, For(m, p))
                 /\ Queued(l, p, m).lost = l.lost
              \/ /\ Queued(l, p, m).entries = l.entries /\ l.free = 0
                 /\ Queued(l, p, m).lost = l.lost + 1
<1>1. For(m, p) \in Entry
  BY DEF For, Entry
<1> DEFINE longer == Append(l.entries, For(m, p))
<1>2. longer \in Seq(Entry) /\ l.free \in Nat /\ l.alloced \in Nat /\ l.lost \in Nat
  BY <1>1 DEF LogState
<1>3. \/ l.free > 0 /\ Queued(l, p, m) = [l EXCEPT !.free = l.free - 1, !.entries = longer]
      \/ Queued(l, p, m) = [l EXCEPT !.alloced = l.alloced + 1, !.entries = longer]
      \/ l.free = 0 /\ Queued(l, p, m) = [l EXCEPT !.lost = l.lost + 1]
  BY <1>2 DEF Queued, For
<1> HIDE DEF longer
<1>4. l.free > 0 => l.free - 1 \in Nat
  BY <1>2
<1> DEFINE new == Queued(l, p, m)
<1> HIDE DEF new
<1>5. ASSUME NEW k \in Nat, \/ new = [l EXCEPT !.free = k, !.entries = longer]
                            \/ new = [l EXCEPT !.alloced = k, !.entries = longer]
      PROVE  new \in LogState /\ new.entries = longer /\ new.lost = l.lost
  BY <1>2, <1>5 DEF LogState
<1>6. ASSUME new = [l EXCEPT !.lost = l.lost + 1]
      PROVE  new \in LogState /\ new.entries = l.entries /\ new.lost = l.lost + 1
  BY <1>2, <1>6 DEF LogState
<1>7. /\ Queued(l, p, m) \in LogState
      /\ \/ Queued(l, p, m).entries = longer /\ Queued(l, p, m).lost = l.lost
         \/ Queued(l, p, m).entries = l.entries /\ Queued(l, p, m).lost = l.lost + 1 /\ l.free = 0
  <2>1. CASE l.free > 0 /\ new = [l EXCEPT !.free = l.free - 1, !.entries = longer]
    BY <1>4, <1>5, <2>1 DEF new
  <2>2. CASE new = [l EXCEPT !.alloced = l.alloced + 1, !.entries = longer]
    <3>1. l.alloced + 1 \in Nat
      BY <1>2
    <3> QED BY <1>5, <2>2, <3>1 DEF new
  <2>3. CASE l.free = 0 /\ new = [l EXCEPT !.lost = l.lost + 1]
    BY <1>6, <2>3 DEF new
  <2> QED BY <1>3, <2>1, <2>2, <2>3 DEF new
<1> QED
  BY <1>1, <1>7 DEF longer

(* A report takes the entry that was just freed. *)
LEMMA FinishedOK ==
    ASSUME NEW l \in LogState, l.entries # <<>>, NEW p \in Proc
    PROVE  LET new    == Finished(l, p)
               report == Message(p, 0, l.lost)
           IN  /\ new \in LogState /\ new.lost = 0
               /\ \/ l.lost = 0 /\ new.entries = Tail(l.entries)
                  \/ /\ report \in Msg /\ For(report, p) \in Entry
                     /\ new.entries = Append(Tail(l.entries), For(report, p))
<1> DEFINE good   == [l EXCEPT !.good = TRUE]
           next   == FreeEntry(good)
           none   == [next EXCEPT !.lost = 0]
           report == Message(p, 0, l.lost)
           queued == Queued(none, p, report)
<1>1. good \in LogState /\ good.entries = l.entries /\ good.lost = l.lost
  BY DEF LogState
<1> HIDE DEF good
<1>2. /\ next \in LogState /\ next.entries = Tail(l.entries)
      /\ next.lost = l.lost /\ next.free > 0
  BY <1>1, FreeEntryOK
<1>3. Finished(l, p) = IF next.lost = 0 THEN next
                       ELSE Call(Queued(none, p, Message(p, 0, next.lost)), "first")
  BY DEF Finished, good
<1> HIDE DEF next
<1>4. /\ none \in LogState /\ none.entries = Tail(l.entries)
      /\ none.lost = 0 /\ none.free = next.free
  BY <1>2 DEF LogState
<1>5. report \in Msg /\ report.by = p
  BY DEF LogState, Message, Msg
<1>6. none.free # 0
  BY <1>2, <1>4 DEF LogState
<1> HIDE DEF none, report
<1>7. /\ queued \in LogState /\ For(report, p) \in Entry
      /\ queued.entries = Append(Tail(l.entries), For(report, p)) /\ queued.lost = 0
  <2>1. /\ queued \in LogState /\ For(report, p) \in Entry
        /\ \/ /\ queued.entries = Append(none.entries, For(report, p))
              /\ queued.lost = none.lost
           \/ none.free = 0
    BY <1>4, <1>5, QueuedOK
  <2> QED BY <1>4, <1>6, <2>1
<1> HIDE DEF queued
<1>8. /\ Call(queued, "first") \in LogState
      /\ Call(queued, "first").entries = queued.entries
      /\ Call(queued, "first").lost = queued.lost
  BY <1>7, CallOK
<1>9. CASE l.lost = 0
  BY <1>2, <1>3, <1>9
<1>10. CASE l.lost # 0
  <2>1. Finished(l, p) = Call(queued, "first")
    BY <1>2, <1>3, <1>10 DEF queued, report
  <2> QED BY <1>5, <1>7, <1>8, <2>1 DEF report
<1> QED
  BY <1>9, <1>10

-----------------------------------------------------------------------------
(* The steps *)

(* What is written, if anything: m, a message of p that follows all of p's.  *)
Writes(p, m) ==
    /\ m \in Msg /\ m.by = p /\ m.number <= made[p] /\ out' = Append(out, m)
    /\ \A i \in 1..Len(out) : Precedes(out[i], m)

(* A step that changes process p alone has the invariant if p's queue and the
   account have it.                                                         *)
LEMMA StepOf ==
    ASSUME IInv, NEW p \in Proc, NEW l \in LogState, log' = [log EXCEPT ![p] = l],
           NEW n \in Nat, made[p] <= n, made' = [made EXCEPT ![p] = n],
           out' = out \/ \E m \in Msg : Writes(p, m),
           said' \in Seq(Msg), QueueOK(l.entries, p, out', n),
           IF p = "main"
           THEN /\ \A i \in 1..Len(l.entries) : l.entries[i].pid = "main"
                /\ Accounted(out') + Accounted(Messages(l.entries)) + Accounted(said') + l.lost = n
           ELSE Accounted(said') = Accounted(said)
    PROVE  IInv'
<1>1. /\ log \in [Proc -> LogState] /\ made \in [Proc -> Nat] /\ out \in Seq(Msg)
      /\ Len(out) \in Nat /\ \A i \in 1..Len(out) : out[i] \in Msg
  BY DEF IInv
<1>2. log' \in [Proc -> LogState] /\ made' \in [Proc -> Nat] /\ made'[p] = n
      /\ \A q \in Proc \ {p} : log'[q] = log[q] /\ made'[q] = made[q]
      /\ log'[p] = l
  BY <1>1
<1>3. \A q \in Proc : made[q] \in Nat /\ made'[q] \in Nat /\ made[q] <= made'[q]
  <2> SUFFICES ASSUME NEW q \in Proc
               PROVE  made[q] \in Nat /\ made'[q] \in Nat /\ made[q] <= made'[q]
    OBVIOUS
  <2>1. CASE q = p
    BY <1>1, <1>2, <2>1
  <2>2. CASE q # p
    BY <1>1, <1>2, <2>2
  <2> QED BY <2>1, <2>2
<1>4. /\ out' \in Seq(Msg)
      /\ \A i \in 1..Len(out') : out'[i].number <= made'[out'[i].by]
      /\ LogInOrder'
  <2>1. \A i \in 1..Len(out) : out[i].number <= made'[out[i].by]
    <3> SUFFICES ASSUME NEW i \in 1..Len(out) PROVE out[i].number <= made'[out[i].by]
      OBVIOUS
    <3>1. /\ out[i].by \in Proc /\ out[i].number \in Nat /\ out[i].number <= made[out[i].by]
      BY <1>1 DEF IInv, Msg
    <3> QED BY <1>3, <3>1
  <2>2. CASE out' = out
    BY <1>1, <2>1, <2>2 DEF IInv, LogInOrder
  <2>3. CASE \E m \in Msg : Writes(p, m)
    <3>1. PICK m \in Msg : Writes(p, m)
      BY <2>3
    <3>2. /\ out' \in Seq(Msg) /\ Len(out') = Len(out) + 1 /\ out'[Len(out) + 1] = m
          /\ \A i \in 1..Len(out) : out'[i] = out[i]
      BY <1>1, <3>1 DEF Writes
    <3>3. m.by = p /\ m.number <= made'[p]
      <4>1. m.by = p /\ m.number \in Nat /\ m.number <= made[p]
        BY <3>1 DEF Writes, Msg
      <4> QED BY <1>3, <4>1
    <3>4. \A i \in 1..Len(out') : out'[i].number <= made'[out'[i].by]
      BY <1>1, <2>1, <3>2, <3>3
    <3>5. ASSUME NEW i \in 1..Len(out'), NEW j \in 1..Len(out'), i < j
          PROVE  Precedes(out'[i], out'[j])
      <4>1. CASE j \in 1..Len(out)
        <5>1. i \in 1..Len(out)
          BY <1>1, <3>5, <4>1
        <5> QED BY <3>2, <3>5, <4>1, <5>1 DEF IInv, LogInOrder
      <4>2. CASE j = Len(out) + 1
        <5>1. i \in 1..Len(out)
          BY <1>1, <3>5, <4>2
        <5> QED BY <3>1, <3>2, <4>2, <5>1 DEF Writes
      <4> QED BY <1>1, <3>2, <4>1, <4>2
    <3> QED BY <3>2, <3>4, <3>5 DEF LogInOrder
  <2> QED BY <2>2, <2>3
<1>5. ASSUME NEW q \in Proc PROVE QueueOK(log'[q].entries, q, out', made'[q])
  <2>1. CASE q = p
    BY <1>2, <2>1
  <2>2. CASE q # p
    <3>1. QueueOK(log[q].entries, q, out, made[q]) /\ log[q].entries \in Seq(Entry)
      BY <1>1 DEF IInv, LogState
    <3>2. QueueOK(log[q].entries, q, out', made[q])
      <4>1. CASE \E m \in Msg : Writes(p, m)
        <5>1. PICK m \in Msg : m.by # q /\ out' = Append(out, m)
          BY <2>2, <4>1 DEF Writes
        <5> QED BY <1>1, <3>1, <5>1, QueueOther
      <4> QED BY <3>1, <4>1
    <3> QED BY <1>2, <2>2, <3>2
  <2> QED BY <2>1, <2>2
<1>6. /\ \A i \in 1..Len(log'["main"].entries) : log'["main"].entries[i].pid = "main"
      /\ Accounted(out') + Accounted(Messages(log'["main"].entries)) + Accounted(said')
           + log'["main"].lost = made'["main"]
  <2>1. CASE p = "main"
    BY <1>2, <2>1
  <2>2. CASE p # "main"
    <3>1. log'["main"] = log["main"] /\ made'["main"] = made["main"]
      BY <1>2, <2>2 DEF Proc
    <3>2. Accounted(out') = Accounted(out)
      <4>1. ASSUME NEW m \in Msg, Writes(p, m) PROVE Accounted(out') = Accounted(out)
        <5>1. Accounts(m) = 0 /\ out' = Append(out, m)
          BY <2>2, <4>1 DEF Writes, Accounts
        <5>2. Accounted(out) \in Nat /\ Accounted(Append(out, m)) = Accounted(out) + Accounts(m)
          BY <1>1, AccountedAppend
        <5> QED BY <5>1, <5>2
      <4> QED BY <4>1
    <3>3. Accounted(said') = Accounted(said)
      BY <2>2
    <3>4. Accounted(out) + Accounted(Messages(log["main"].entries)) + Accounted(said)
           + log["main"].lost = made["main"]
      BY DEF IInv, LogAccounted, Messages, Queue
    <3>5. \A i \in 1..Len(log["main"].entries) : log["main"].entries[i].pid = "main"
      BY DEF IInv
    <3> QED BY <3>1, <3>2, <3>3, <3>4, <3>5
  <2> QED BY <2>1, <2>2
<1>7. LogAccounted'
  BY <1>6 DEF LogAccounted, Messages, Queue
<1> QED
  BY <1>2, <1>4, <1>5, <1>6, <1>7 DEF IInv

(* A step that leaves the messages in the queue, and what is lost, alone.    *)
LEMMA CalmStep ==
    ASSUME IInv, NEW p \in Proc, NEW l \in LogState, log' = [log EXCEPT ![p] = l],
           l.lost = log[p].lost, Len(l.entries) = Len(log[p].entries),
           \A i \in 1..Len(l.entries) : /\ l.entries[i].m = log[p].entries[i].m
                                        /\ l.entries[i].pid = log[p].entries[i].pid,
           UNCHANGED <<made, out, said>>
    PROVE  IInv'
<1> DEFINE old == log[p].entries
           new == l.entries
<1>1. made \in [Proc -> Nat] /\ said \in Seq(Msg) /\ made[p] \in Nat
      /\ old \in Seq(Entry) /\ new \in Seq(Entry) /\ log[p] \in LogState
  BY DEF IInv, LogState
<1>2. QueueOK(old, p, out, made[p])
  BY DEF IInv
<1>3. QueueOK(new, p, out, made[p])
  <2>1. Len(old) \in Nat /\ Len(new) = Len(old)
    BY <1>1
  <2>2. \A i \in 1..Len(old) : new[i].m = old[i].m /\ new[i].pid = old[i].pid
    OBVIOUS
  <2> HIDE DEF old, new
  <2> SUFFICES ASSUME NEW j \in 1..Len(old), old[j].pid = p
               PROVE  /\ old[j].m.number <= made[p]
                      /\ \A i \in 1..Len(out) : Precedes(out[i], old[j].m)
                      /\ \A i \in 1..(j - 1) : new[i].pid = p => Precedes(new[i].m, old[j].m)
    BY <2>1, <2>2 DEF QueueOK
  <2>3. \A i \in 1..(j - 1) : i \in 1..Len(old)
    BY <2>1
  <2> QED BY <1>2, <2>2, <2>3 DEF QueueOK
<1>4. Messages(new) = Messages(old)
  <2>1. DOMAIN new = 1..Len(new) /\ DOMAIN old = 1..Len(old) /\ Len(new) = Len(old)
    BY <1>1
  <2> QED BY <2>1 DEF Messages
<1>5. /\ \A i \in 1..Len(log["main"].entries) : log["main"].entries[i].pid = "main"
      /\ Accounted(out) + Accounted(Messages(log["main"].entries)) + Accounted(said)
            + log["main"].lost = made["main"]
  BY DEF IInv, LogAccounted, Messages, Queue
<1>6. IF p = "main"
      THEN /\ \A i \in 1..Len(new) : new[i].pid = "main"
           /\ Accounted(out') + Accounted(Messages(new)) + Accounted(said') + l.lost = made[p]
      ELSE Accounted(said') = Accounted(said)
  BY <1>4, <1>5
<1>7. made' = [made EXCEPT ![p] = made[p]] /\ made[p] <= made[p]
  BY <1>1
<1> HIDE DEF old
<1> QED
  BY <1>1, <1>3, <1>6, <1>7, StepOf

(* What the invariant says of process p. *)
LEMMA Here ==
    ASSUME IInv, NEW p \in Proc
    PROVE  /\ log[p] \in LogState /\ log[p].entries \in Seq(Entry) /\ log[p].lost \in Nat
           /\ made[p] \in Nat /\ made = [made EXCEPT ![p] = made[p]]
           /\ log = [log EXCEPT ![p] = log[p]]
           /\ out \in Seq(Msg) /\ said \in Seq(Msg)
           /\ QueueOK(log[p].entries, p, out, made[p])
           /\ \A i \in 1..Len(out) : out[i].by = p => out[i].number <= made[p]
           /\ p = "main" =>
                 /\ \A i \in 1..Len(log[p].entries) : log[p].entries[i].pid = "main"
                 /\ Accounted(out) + Accounted(Messages(log[p].entries)) + Accounted(said)
                       + log[p].lost = made[p]
                 /\ Accounted(out) \in Nat /\ Accounted(said) \in Nat
                 /\ Accounted(Messages(log[p].entries)) \in Nat
<1>1. /\ log \in [Proc -> LogState] /\ made \in [Proc -> Nat]
      /\ out \in Seq(Msg) /\ said \in Seq(Msg)
  BY DEF IInv
<1>2. log[p] \in LogState /\ log[p].entries \in Seq(Entry) /\ log[p].lost \in Nat
  BY <1>1 DEF LogState
<1>3. \E m \in Msg : TRUE
  <2>1. [by |-> p, number |-> 0, count |-> 0] \in Msg
    BY DEF Msg
  <2> QED BY <2>1
<1>4. \A seq \in Seq(Msg) : Accounted(seq) \in Nat
  BY <1>3, AccountedAppend
<1>5. Messages(log[p].entries) \in Seq(Msg)
  BY <1>2, MessagesOK
<1>6. LogAccounted => Accounted(out) + Accounted(Messages(log["main"].entries))
                        + Accounted(said) + log["main"].lost = made["main"]
  BY DEF LogAccounted, Messages, Queue
<1> QED
  BY <1>1, <1>2, <1>4, <1>5, <1>6 DEF IInv

(* An entry at the end, for one message more. *)
LEMMA AppendedAccounts ==
    ASSUME NEW es \in Seq(Entry), NEW e \in Entry
    PROVE  Accounted(Messages(Append(es, e))) = Accounted(Messages(es)) + Accounts(e.m)
<1>1. Messages(es) \in Seq(Msg) /\ e.m \in Msg
      /\ Messages(Append(es, e)) = Append(Messages(es), e.m)
  BY MessagesOK DEF Entry
<1> QED
  BY <1>1, AccountedAppend

(* All entries of the main process are its own, also with one more of its own. *)
LEMMA AppendedOwn ==
    ASSUME NEW es \in Seq(Entry), \A i \in 1..Len(es) : es[i].pid = "main",
           NEW e, e.pid = "main"
    PROVE  \A i \in 1..Len(Append(es, e)) : Append(es, e)[i].pid = "main"
OBVIOUS

(* my_syslog *)
LEMMA MySyslogInv ==
    ASSUME IInv, NEW p \in Proc, MySyslog(p)
    PROVE  IInv'
<1> DEFINE old == log[p]
           es  == old.entries
           n   == made[p] + 1
           m   == Message(p, n, 0)
           q   == Queued(old, p, m)
<1>1. /\ made' = [made EXCEPT ![p] = n] /\ out' = out
      /\ IF old.fd = "none" THEN said' = Append(said, m) /\ log' = log
         ELSE log' = [log EXCEPT ![p] = Call(q, "first")] /\ said' = said
  BY DEF MySyslog
<1>2. /\ old \in LogState /\ es \in Seq(Entry) /\ old.lost \in Nat /\ made[p] \in Nat
      /\ out \in Seq(Msg) /\ said \in Seq(Msg) /\ QueueOK(es, p, out, made[p])
      /\ log = [log EXCEPT ![p] = old]
      /\ \A i \in 1..Len(out) : out[i].by = p => out[i].number <= made[p]
  BY Here
<1>3. /\ m \in Msg /\ m.by = p /\ m.number = n /\ n \in Nat /\ made[p] <= n
      /\ Accounts(m) = IF p = "main" THEN 1 ELSE 0
  BY <1>2 DEF Message, Msg, Accounts
<1>4. p = "main" =>
        /\ \A i \in 1..Len(es) : es[i].pid = "main"
        /\ Accounted(out) + Accounted(Messages(es)) + Accounted(said) + old.lost = made[p]
        /\ Accounted(out) \in Nat /\ Accounted(said) \in Nat
        /\ Accounted(Messages(es)) \in Nat
  BY Here
<1>5. QueueOK(es, p, out, n)
  <2>1. \A j \in 1..Len(es) : es[j].m.number \in Nat
    BY SMTT(30), <1>2 DEF Entry, Msg
  <2>2. \A k \in Nat : k <= made[p] => k <= n
    BY <1>2
  <2> HIDE DEF es, n
  <2> QED BY <1>2, <2>1, <2>2 DEF QueueOK
<1> HIDE DEF m, n, q, es, old
<1>6. CASE old.fd = "none"
  <2>0. said' = Append(said, m) /\ log' = log
    BY <1>1, <1>6
  <2>1. /\ said' \in Seq(Msg) /\ Accounted(said') = Accounted(said) + Accounts(m)
        /\ Accounted(said) \in Nat
    <3>1. /\ Append(said, m) \in Seq(Msg) /\ Accounted(said) \in Nat
          /\ Accounted(Append(said, m)) = Accounted(said) + Accounts(m)
      BY <1>2, <1>3, AccountedAppend
    <3> QED BY <2>0, <3>1
  <2>2. log' = [log EXCEPT ![p] = old]
    BY <1>2, <2>0
  <2>3. IF p = "main"
        THEN /\ \A i \in 1..Len(es) : es[i].pid = "main"
             /\ Accounted(out') + Accounted(Messages(es)) + Accounted(said') + old.lost = n
        ELSE Accounted(said') = Accounted(said)
    <3>1. ASSUME p = "main"
          PROVE  Accounted(out') + Accounted(Messages(es)) + Accounted(said') + old.lost = n
      <4>1. Accounted(out') = Accounted(out) /\ Accounted(said') = Accounted(said) + 1
        BY <1>1, <1>3, <2>1, <3>1
      <4>2. /\ Accounted(out) + Accounted(Messages(es)) + Accounted(said) + old.lost = made[p]
            /\ Accounted(out) \in Nat /\ Accounted(said) \in Nat
            /\ Accounted(Messages(es)) \in Nat /\ old.lost \in Nat /\ n = made[p] + 1
        BY <1>2, <1>4, <3>1 DEF n
      <4> QED BY <1>2, <4>1, <4>2
    <3>2. p # "main" => Accounted(said') = Accounted(said)
      BY <1>3, <2>1
    <3> QED BY <1>4, <3>1, <3>2
  <2> QED
    BY <1>1, <1>2, <1>3, <1>5, <2>1, <2>2, <2>3, StepOf DEF es
<1>7. CASE old.fd # "none"
  <2> DEFINE l == Call(q, "first")
             e == For(m, p)
  <2>1. /\ q \in LogState /\ e \in Entry
        /\ \/ q.entries = Append(es, e) /\ q.lost = old.lost
           \/ q.entries = es /\ q.lost = old.lost + 1
    BY <1>2, <1>3, QueuedOK DEF q, es
  <2>2. l \in LogState /\ l.entries = q.entries /\ l.lost = q.lost
    BY <2>1, CallOK
  <2>3. e.m = m /\ e.pid = p
    BY DEF For
  <2>4. log' = [log EXCEPT ![p] = l] /\ said' = said /\ out' = out
    BY <1>1, <1>7
  <2> HIDE DEF e, l
  <2>5. QueueOK(Append(es, e), p, out, n)
    <3>1. e.m.number <= n /\ e.m.number > made[p]
      BY <1>2, <1>3, <2>3 DEF n
    <3> QED BY <1>2, <1>3, <2>1, <2>3, <3>1, QueueAppend
  <2>6. QueueOK(l.entries, p, out', n)
    BY <1>5, <2>1, <2>2, <2>4, <2>5
  <2>7. ASSUME p = "main"
        PROVE  /\ \A i \in 1..Len(l.entries) : l.entries[i].pid = "main"
               /\ Accounted(out) + Accounted(Messages(l.entries)) + Accounted(said) + l.lost = n
    <3>1. Accounted(Messages(Append(es, e))) = Accounted(Messages(es)) + 1
      BY <1>2, <1>3, <2>1, <2>3, <2>7, AppendedAccounts
    <3>2. \A i \in 1..Len(Append(es, e)) : Append(es, e)[i].pid = "main"
      BY SMTT(30), <1>2, <1>4, <2>3, <2>7, AppendedOwn
    <3>3. CASE q.entries = Append(es, e) /\ q.lost = old.lost
      <4>1. /\ Accounted(out) + Accounted(Messages(es)) + Accounted(said) + old.lost = made[p]
            /\ Accounted(out) \in Nat /\ Accounted(said) \in Nat
            /\ Accounted(Messages(es)) \in Nat /\ old.lost \in Nat /\ n = made[p] + 1
        BY <1>2, <1>4, <2>7 DEF n
      <4>2. l.entries = Append(es, e) /\ l.lost = old.lost
        BY <2>2, <3>3
      <4>3. Accounted(out) + Accounted(Messages(l.entries)) + Accounted(said) + l.lost = n
        BY SMTT(30), <1>2, <3>1, <4>1, <4>2
      <4> QED BY <3>2, <4>2, <4>3
    <3>4. CASE q.entries = es /\ q.lost = old.lost + 1
      BY <1>2, <1>4, <2>2, <2>7, <3>4 DEF n
    <3> QED BY <2>1, <3>3, <3>4
  <2> QED
    BY <1>1, <1>2, <1>3, <2>2, <2>4, <2>6, <2>7, StepOf
<1> QED
  BY <1>6, <1>7

(* log_write frees an entry of the process this one was forked from. *)
LEMMA ForeignInv ==
    ASSUME IInv, NEW p \in Proc, Foreign(log[p], p),
           log' = [log EXCEPT ![p] = FreeEntry(log[p])], UNCHANGED <<made, out, said>>
    PROVE  IInv'
<1> DEFINE es == log[p].entries
           l  == FreeEntry(log[p])
<1>1. /\ log[p] \in LogState /\ es \in Seq(Entry) /\ made[p] \in Nat
      /\ made = [made EXCEPT ![p] = made[p]] /\ said \in Seq(Msg)
      /\ QueueOK(es, p, out, made[p])
      /\ p = "main" => \A i \in 1..Len(es) : es[i].pid = "main"
  BY Here
<1>2. es # <<>> /\ Head(es).pid # p
  BY DEF Foreign
<1>3. p # "main"
  <2>1. 1 \in 1..Len(es) /\ Head(es) = es[1]
    BY <1>1, <1>2
  <2> QED BY <1>1, <1>2, <2>1
<1>4. l \in LogState /\ l.entries = Tail(es)
  BY <1>1, <1>2, FreeEntryOK
<1>5. QueueOK(l.entries, p, out', made[p])
  BY <1>1, <1>2, <1>4, QueueTail
<1>6. /\ made[p] <= made[p] /\ made' = [made EXCEPT ![p] = made[p]] /\ out' = out
      /\ said' \in Seq(Msg) /\ Accounted(said') = Accounted(said)
  BY <1>1
<1> HIDE DEF es, l
<1>7. log' = [log EXCEPT ![p] = l]
  BY DEF l
<1> QED
  BY <1>1, <1>3, <1>4, <1>5, <1>6, <1>7, StepOf

(* log_write writes the rest of a message, which leaves the queue, and queues
   the report of those that were lost.                                      *)
LEMMA FinishedInv ==
    ASSUME IInv, NEW p \in Proc, log[p].entries # <<>>, Head(log[p].entries).pid = p,
           log' = [log EXCEPT ![p] = Finished(log[p], p)],
           out' = Append(out, Head(log[p].entries).m), UNCHANGED <<made, said>>
    PROVE  IInv'
<1> DEFINE old    == log[p]
           es     == old.entries
           less   == Tail(es)
           n      == made[p]
           m      == Head(es).m
           l      == Finished(old, p)
           report == Message(p, 0, old.lost)
           e      == For(report, p)
<1>1. /\ old \in LogState /\ es \in Seq(Entry) /\ old.lost \in Nat /\ n \in Nat
      /\ made = [made EXCEPT ![p] = n] /\ out \in Seq(Msg) /\ said \in Seq(Msg)
      /\ QueueOK(es, p, out, n)
      /\ \A i \in 1..Len(out) : out[i].by = p => out[i].number <= n
  BY Here
<1>2. p = "main" =>
        /\ \A i \in 1..Len(es) : es[i].pid = "main"
        /\ Accounted(out) + Accounted(Messages(es)) + Accounted(said) + old.lost = n
        /\ Accounted(out) \in Nat /\ Accounted(said) \in Nat
        /\ Accounted(Messages(es)) \in Nat
  BY Here
<1>3. /\ Head(es) \in Entry /\ less \in Seq(Entry) /\ Messages(es) \in Seq(Msg)
      /\ Messages(es) # <<>> /\ Head(Messages(es)) = m
      /\ Messages(less) = Tail(Messages(es)) /\ Messages(less) \in Seq(Msg)
  BY <1>1, MessagesOK
<1>4. m \in Msg /\ m.by = p
  BY <1>3 DEF Entry
<1>5. /\ l \in LogState /\ l.lost = 0
      /\ \/ old.lost = 0 /\ l.entries = less
         \/ /\ report \in Msg /\ e \in Entry /\ l.entries = Append(less, e)
  BY <1>1, FinishedOK
<1>6. /\ e.m = report /\ e.pid = p /\ report.number = 0
      /\ p = "main" => Accounts(report) = old.lost
  BY DEF For, Message, Accounts
<1>7. log' = [log EXCEPT ![p] = l] /\ out' = Append(out, m) /\ said' = said
      /\ made' = [made EXCEPT ![p] = n] /\ made[p] <= n
  BY <1>1
<1>8. QueueOK(less, p, Append(out, m), n)
  BY <1>1, QueueWritten
<1>9. m.number <= n /\ \A i \in 1..Len(out) : Precedes(out[i], m)
  <2>1. 1 \in 1..Len(es) /\ Head(es) = es[1]
    BY <1>1
  <2> QED BY <1>1, <2>1 DEF QueueOK
<1> HIDE DEF old, es, n, m, l, report, e
<1>10. Append(out, m) \in Seq(Msg)
       /\ \A i \in 1..Len(Append(out, m)) :
             Append(out, m)[i].by = p => Append(out, m)[i].number <= n
  BY <1>1, <1>4, <1>9
<1>11. QueueOK(l.entries, p, out', n)
  <2>1. CASE l.entries = less
    BY <1>7, <1>8, <2>1
  <2>2. CASE report \in Msg /\ e \in Entry /\ l.entries = Append(less, e)
    <3>1. e.m.number = 0 /\ e.m.number <= n /\ n <= n
      BY <1>1, <1>6
    <3> HIDE DEF less
    <3>2. QueueOK(Append(less, e), p, Append(out, m), n)
      BY <1>1, <1>3, <1>6, <1>7, <1>8, <1>10, <2>2, <3>1, QueueAppend
    <3> QED BY <1>7, <2>2, <3>2
  <2> QED BY <1>5, <2>1, <2>2
<1>12. Writes(p, m)
  BY <1>4, <1>7, <1>9 DEF Writes, n
<1>13. ASSUME p = "main"
       PROVE  /\ \A i \in 1..Len(l.entries) : l.entries[i].pid = "main"
              /\ Accounted(out') + Accounted(Messages(l.entries)) + Accounted(said) + l.lost = n
  <2>1. Accounted(Messages(es)) = Accounts(m) + Accounted(Messages(less))
    BY <1>3, AccountedTail
  <2>2. Accounted(out') = Accounted(out) + Accounts(m)
    BY <1>1, <1>4, <1>7, AccountedAppend
  <2>3. Accounts(m) \in Nat /\ Accounted(Messages(less)) \in Nat
    BY <1>3, <1>4, AccountsNat, AccountedAppend
  <2>4. \A i \in 1..Len(less) : less[i].pid = "main"
    BY <1>1, <1>2, <1>13
  <2>5. Accounted(out') + Accounted(Messages(less)) + Accounted(said) + old.lost = n
    BY <1>2, <1>13, <1>1, <2>1, <2>2, <2>3
  <2> HIDE DEF less
  <2>6. CASE old.lost = 0 /\ l.entries = less
    BY <1>5, <2>4, <2>5, <2>6
  <2>7. CASE report \in Msg /\ e \in Entry /\ l.entries = Append(less, e)
    <3>1. \A i \in 1..Len(l.entries) : l.entries[i].pid = "main"
      BY <1>3, <1>6, <1>13, <2>4, <2>7, AppendedOwn
    <3>2. Accounted(Messages(l.entries)) = Accounted(Messages(less)) + old.lost
      BY <1>3, <1>6, <1>13, <2>7, AppendedAccounts
    <3>3. Accounted(out') \in Nat /\ Accounted(said) \in Nat /\ old.lost \in Nat
      BY <1>1, <1>2, <1>13, <2>2, <2>3
    <3> QED BY SMTT(30), <1>5, <2>3, <2>5, <3>1, <3>2, <3>3
  <2> QED BY <1>5, <2>6, <2>7
<1>14. \E some \in Msg : Writes(p, some)
  BY <1>4, <1>12
<1> QED
  BY <1>1, <1>5, <1>7, <1>11, <1>13, <1>14, StepOf

(* A turn of the loop of log_write. *)
LEMMA LogWriteInv ==
    ASSUME IInv, NEW p \in Proc, LogWrite(p)
    PROVE  IInv'
<1> DEFINE l  == log[p]
           es == l.entries
<1>1. l \in LogState /\ es \in Seq(Entry) /\ l.frames # <<>> /\ UNCHANGED <<made, said>>
  BY Here DEF LogWrite
<1>2. CASE Foreign(l, p) /\ log' = [log EXCEPT ![p] = FreeEntry(l)] /\ UNCHANGED out
  BY <1>1, <1>2, ForeignInv
<1>3. ASSUME NEW k \in LogState, k.entries = es, k.lost = l.lost, k.frames # <<>>,
             log' = [log EXCEPT ![p] = Return(k)], UNCHANGED out
      PROVE  IInv'
  <2>1. Return(k) \in LogState /\ Return(k).entries = es /\ Return(k).lost = l.lost
    BY <1>3, ReturnOK
  <2> QED BY <1>1, <1>3, <2>1, CalmStep
<1>4. CASE es = <<>> /\ log' = [log EXCEPT ![p] = Return(l)] /\ UNCHANGED out
  BY <1>1, <1>3, <1>4
<1>5. CASE Written(l, p)
  <2>1. es # <<>> /\ Head(es).pid = p
    BY <1>5 DEF Written, Foreign
  <2>2. CASE Head(es).left = 2
    <3> DEFINE part == [es EXCEPT ![1].left = 1]
               new  == [l EXCEPT !.entries = part, !.good = TRUE]
    <3>1. log' = [log EXCEPT ![p] = new] /\ out' = out
      BY <1>5, <2>2 DEF Written
    <3>2. part \in Seq(Entry) /\ Len(part) = Len(es)
          /\ \A i \in 1..Len(es) : part[i].m = es[i].m /\ part[i].pid = es[i].pid
      <4>1. es[1] \in Entry /\ 1 \in 1..Len(es)
        BY <1>1, <2>1
      <4>2. [es[1] EXCEPT !.left = 1] \in Entry
        BY <4>1 DEF Entry
      <4>3. part = [es EXCEPT ![1] = [es[1] EXCEPT !.left = 1]]
        OBVIOUS
      <4>4. [es[1] EXCEPT !.left = 1].m = es[1].m /\ [es[1] EXCEPT !.left = 1].pid = es[1].pid
        BY <4>1 DEF Entry
      <4> DEFINE first == [es[1] EXCEPT !.left = 1]
      <4> HIDE DEF first, es
      <4>5. part = [es EXCEPT ![1] = first] /\ first \in Entry
            /\ first.m = es[1].m /\ first.pid = es[1].pid
        BY <4>2, <4>3, <4>4 DEF first
      <4> HIDE DEF part
      <4> QED BY <1>1, <4>1, <4>5
    <3> HIDE DEF part
    <3>3. new \in LogState /\ new.entries = part /\ new.lost = l.lost
      BY <1>1, <3>2 DEF LogState
    <3> HIDE DEF new
    <3> QED BY <1>1, <3>1, <3>2, <3>3, CalmStep
  <2>3. CASE Head(es).left # 2
    <3>1. log' = [log EXCEPT ![p] = Finished(l, p)] /\ out' = Append(out, Head(es).m)
      BY <1>5, <2>3 DEF Written
    <3> QED BY <1>1, <2>1, <3>1, FinishedInv
  <2> QED BY <2>2, <2>3
<1>6. CASE Stopped(l, p)
  <2>1. PICK good \in BOOLEAN : log' = [log EXCEPT ![p] = Return([l EXCEPT !.good = good])]
    BY <1>6 DEF Stopped
  <2> DEFINE k == [l EXCEPT !.good = good]
  <2>2. k \in LogState /\ k.entries = es /\ k.lost = l.lost /\ k.frames = l.frames
    BY <1>1 DEF LogState
  <2>3. log' = [log EXCEPT ![p] = Return(k)] /\ UNCHANGED out
    BY <1>6, <2>1 DEF Stopped
  <2> HIDE DEF k
  <2> QED BY <1>1, <1>3, <2>2, <2>3
<1>7. CASE GivenUp(l, p)
  <2> DEFINE k == [l EXCEPT !.fd = "none", !.good = TRUE]
  <2>1. k \in LogState /\ k.entries = es /\ k.lost = l.lost /\ k.frames = l.frames
    BY <1>1 DEF LogState
  <2>2. log' = [log EXCEPT ![p] = Return(k)] /\ UNCHANGED out
    BY <1>7 DEF GivenUp
  <2> HIDE DEF k
  <2> QED BY <1>1, <1>3, <2>1, <2>2
<1> QED
  BY <1>2, <1>4, <1>5, <1>6, <1>7 DEF LogWrite

(* check_log_writer, flush_log and SIGUSR2 leave the queue alone. *)
LEMMA OutsideInv ==
    ASSUME IInv,
           CheckLogWriter \/ LogReopen \/ \E p \in Proc : FlushLog(p)
    PROVE  IInv'
<1>1. UNCHANGED <<made, out, said>>
  BY DEF CheckLogWriter, LogReopen, FlushLog
<1>2. ASSUME NEW p \in Proc, NEW k \in LogState, k.entries = log[p].entries,
             k.lost = log[p].lost, log' = [log EXCEPT ![p] = k]
      PROVE  IInv'
  BY <1>1, <1>2, CalmStep
<1>3. CASE CheckLogWriter
  <2> DEFINE l == log["main"]
  <2>1. l \in LogState /\ "main" \in Proc
    BY Here DEF Proc
  <2>2. /\ Call(l, "loop") \in LogState /\ Call(l, "loop").entries = l.entries
        /\ Call(l, "loop").lost = l.lost
    BY <2>1, CallOK
  <2>3. log' = [log EXCEPT !["main"] = Call(l, "loop")]
    BY <1>3 DEF CheckLogWriter
  <2> QED BY <1>2, <2>1, <2>2, <2>3
<1>4. CASE LogReopen
  <2> DEFINE l == log["main"]
  <2>1. l \in LogState /\ "main" \in Proc
    BY Here DEF Proc
  <2>2. PICK fd \in {"open", "none"} : log' = [log EXCEPT !["main"].fd = fd]
    BY <1>4 DEF LogReopen
  <2> DEFINE k == [l EXCEPT !.fd = fd]
  <2>3. k \in LogState /\ k.entries = l.entries /\ k.lost = l.lost
    BY <2>1 DEF LogState
  <2>4. log' = [log EXCEPT !["main"] = k]
    BY <2>2
  <2> HIDE DEF k
  <2> QED BY <1>2, <2>1, <2>3, <2>4
<1>5. ASSUME NEW p \in Proc, FlushLog(p) PROVE IInv'
  <2> DEFINE l == log[p]
             k == [l EXCEPT !.alive = FALSE]
  <2>1. l \in LogState
    BY Here
  <2>2. k \in LogState /\ k.entries = l.entries /\ k.lost = l.lost
    BY <2>1 DEF LogState
  <2>3. /\ Call(l, "flush") \in LogState /\ Call(l, "flush").entries = l.entries
        /\ Call(l, "flush").lost = l.lost
    BY <2>1, CallOK
  <2>4. \/ log' = [log EXCEPT ![p] = k]
        \/ log' = [log EXCEPT ![p] = Call(l, "flush")]
    BY <1>5 DEF FlushLog
  <2> HIDE DEF k
  <2> QED BY <1>2, <2>2, <2>3, <2>4
<1> QED
  BY <1>3, <1>4, <1>5

(* The copy that a child gets has no entry of the child. *)
LEMMA ForkInv ==
    ASSUME IInv, Fork
    PROVE  IInv'
<1> DEFINE l == log["main"]
           n == made["child"]
<1>1. "main" \in Proc /\ "child" \in Proc /\ "child" # "main"
  BY DEF Proc
<1>2. l \in LogState /\ l.entries \in Seq(Entry) /\ said \in Seq(Msg)
      /\ \A i \in 1..Len(l.entries) : l.entries[i].pid = "main"
  BY <1>1, Here
<1>3. n \in Nat /\ made["child"] <= n /\ made = [made EXCEPT !["child"] = n]
  BY <1>1, Here
<1>4. QueueOK(l.entries, "child", out, n)
  BY <1>1, <1>2 DEF QueueOK
<1>5. log' = [log EXCEPT !["child"] = l] /\ UNCHANGED <<made, out, said>>
  BY DEF Fork
<1> HIDE DEF l, n
<1> QED
  BY <1>1, <1>2, <1>3, <1>4, <1>5, StepOf

-----------------------------------------------------------------------------
(* The theorems *)

LEMMA InitInv == LogInit => IInv
<1> SUFFICES ASSUME LogInit PROVE IInv
  OBVIOUS
<1> DEFINE start(p) == [Start EXCEPT !.alive = (p = "main")]
<1>1. log = [p \in Proc |-> start(p)] /\ made = [p \in Proc |-> 0] /\ out = <<>> /\ said = <<>>
  BY DEF LogInit
<1>2. Start \in LogState /\ Start.entries = <<>> /\ Start.lost = 0
  BY DEF Start, LogState
<1>3. ASSUME NEW p \in Proc
      PROVE  start(p) \in LogState /\ start(p).entries = <<>> /\ start(p).lost = 0
  <2> DEFINE alive == (p = "main")
  <2>1. alive \in BOOLEAN /\ start(p) = [Start EXCEPT !.alive = alive]
    OBVIOUS
  <2> HIDE DEF alive, start
  <2> QED BY <1>2, <2>1 DEF LogState
<1> HIDE DEF start
<1>4. \A p \in Proc : log[p].entries = <<>> /\ log[p].lost = 0 /\ log[p] \in LogState
  BY <1>1, <1>3
<1>5. LogAccounted
  <2>1. Queue("main") = <<>>
    BY <1>4 DEF Queue, Proc
  <2>2. log["main"].lost = 0 /\ made["main"] = 0
    BY <1>1, <1>4 DEF Proc
  <2> QED BY <1>1, <2>1, <2>2, AccountedEmpty DEF LogAccounted
<1>6. LogInOrder /\ \A p \in Proc : QueueOK(log[p].entries, p, out, made[p])
  BY <1>1, <1>4 DEF LogInOrder, QueueOK
<1>7. log \in [Proc -> LogState] /\ made \in [Proc -> Nat] /\ out \in Seq(Msg) /\ said \in Seq(Msg)
  BY <1>1, <1>3
<1> QED
  BY <1>1, <1>4, <1>5, <1>6, <1>7 DEF IInv, Proc

LEMMA StepInv == IInv /\ [LogNext]_logVars => IInv'
<1> SUFFICES ASSUME IInv, [LogNext]_logVars PROVE IInv'
  OBVIOUS
<1>1. CASE CheckLogWriter \/ LogReopen \/ \E p \in Proc : FlushLog(p)
  BY <1>1, OutsideInv
<1>2. CASE Fork
  BY <1>2, ForkInv
<1>3. ASSUME NEW p \in Proc, MySyslog(p) PROVE IInv'
  BY <1>3, MySyslogInv
<1>4. ASSUME NEW p \in Proc, LogWrite(p) PROVE IInv'
  BY <1>4, LogWriteInv
<1>5. CASE UNCHANGED logVars
  BY <1>5 DEF logVars, IInv, LogInOrder, LogAccounted, Queue
<1> QED
  BY <1>1, <1>2, <1>3, <1>4, <1>5 DEF LogNext

THEOREM LogInv == LogSpec => []IInv
BY InitInv, StepInv, PTL DEF LogSpec

(* Whatever the writes return, and through reports, reopenings and a fork,   *)
(* each message of the main process is written, queued, given to vsyslog or  *)
(* in a number that is or will be reported.                                  *)
THEOREM LogNothingLost == LogSpec => []LogAccounted
<1>1. IInv => LogAccounted
  BY DEF IInv
<1> QED
  BY <1>1, LogInv, PTL

(* No process writes two of its messages in the other order, or one twice. *)
THEOREM LogOrder == LogSpec => []LogInOrder
<1>1. IInv => LogInOrder
  BY DEF IInv
<1> QED
  BY <1>1, LogInv, PTL

=============================================================================
