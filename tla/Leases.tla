------------------------------- MODULE Leases -------------------------------
(***************************************************************************)
(* The lease table of the DHCP server (lease.c): the operations its        *)
(* callers compose, as functions from a table to a table.  A table is a    *)
(* record of the file's static variables: leases and old (old_leases), the *)
(* most recent first, and the flags fileDirty and dnsDirty.  A lease has   *)
(* the time it has left, counted down, in place of the time it expires; a  *)
(* pointer to a lease is its index in leases, 0 for none.                  *)
(*                                                                         *)
(* Left out: user and vendor classes and the server-identifier override,   *)
(* which are only passed on; fqdn, which follows the host name; the mode   *)
(* leasefile-ro; failures of malloc.                                       *)
(***************************************************************************)
EXTENDS Integers, Sequences, SequencesExt, FiniteSets, Filters

CONSTANTS
    Addr,       \* addresses, a set of numbers
    Hw,         \* hardware addresses
    Clid,       \* client identifiers
    Name,       \* host names
    NoHw,       \* the illegal hardware address of a new lease
    NoClid, NoName,
    Never,      \* the time left of an infinite lease
    NoAlarm,    \* no alarm is set
    MaxLeft,    \* bound on the time a lease is given
    DhcpMax,    \* dhcp_max, --dhcp-lease-max
    Slop,       \* seconds from the expiry of a lease to the alarm, 10 in the code
    Retry       \* LEASE_RETRY, 60 in the code

ASSUME LeasesAssumption ==
    /\ Addr \subseteq Nat /\ IsFiniteSet(Addr)
    /\ {MaxLeft, DhcpMax, Slop, Retry} \subseteq Nat \ {0}
    /\ NoHw \notin Hw /\ NoClid \notin Clid /\ NoName \notin Name
    /\ Never \notin Int /\ NoAlarm \notin Int

(* A time long gone: what is left of a lease just allocated, and the least *)
(* that is told apart, the bound of the countdown.                         *)
LongGone == -(Slop + 1)
Left == LongGone..MaxLeft \cup {Never}

Lease == [addr : Addr, hw : Hw \cup {NoHw}, clid : Clid \cup {NoClid},
          name : Name \cup {NoName}, oldName : Name \cup {NoName}, auth : BOOLEAN,
          left : Left, new : BOOLEAN, changed : BOOLEAN, seen : BOOLEAN]

(* A line of the lease file. *)
Stored == [addr : Addr, hw : Hw \cup {NoHw}, clid : Clid \cup {NoClid},
           name : Name \cup {NoName}, left : Left]

Table == [leases : Seq(Lease), old : Seq(Lease), fileDirty : BOOLEAN, dnsDirty : BOOLEAN]

(* Time passes for a lease, to the second. *)
Later(left) == IF left = Never \/ left = LongGone THEN left ELSE left - 1
Aged(seq) == [i \in DOMAIN seq |-> [seq[i] EXCEPT !.left = Later(@)]]

FindByAddr(t, addr) == SelectInSeq(t.leases, LAMBDA l : l.addr = addr)

(* The client identifier decides; the hardware address only when the lease *)
(* or the request has none.                                                *)
FindByClient(t, hw, clid) ==
    LET byClid == SelectInSeq(t.leases, LAMBDA l : clid # NoClid /\ l.clid = clid)
    IN IF byClid # 0 THEN byClid
       ELSE SelectInSeq(t.leases, LAMBDA l : (l.clid = NoClid \/ clid = NoClid) /\ l.hw = hw)

Expired(l) == l.left # Never /\ l.left < 0

LeasePruneQuiet(t, target) ==   \* mutant: the DNS is not told
    LET out == {i \in DOMAIN t.leases : Expired(t.leases[i]) \/ i = target}
    IN [t EXCEPT !.leases = Sifted(@, DOMAIN @ \ out),
                 !.old = Reverse(Sifted(t.leases, out)) \o @,
                 !.fileDirty = @ \/ out # {}]

(* Expired leases, and the one pointed to, go to the head of old. *)
LeasePrune(t, target) ==
    LET out == {i \in DOMAIN t.leases : Expired(t.leases[i]) \/ i = target}
    IN [t EXCEPT !.leases = Sifted(@, DOMAIN @ \ out),
                 !.old = Reverse(Sifted(t.leases, out)) \o @,
                 !.fileDirty = @ \/ out # {},
                 !.dnsDirty = @ \/ \E i \in out : t.leases[i].name # NoName]

Room(t) == Len(t.leases) < DhcpMax

(* A new lease is the first of the list. *)
LeaseAllocate(t, addr) ==
    [t EXCEPT !.leases = <<[addr |-> addr, hw |-> NoHw, clid |-> NoClid, name |-> NoName,
                            oldName |-> NoName, auth |-> FALSE, left |-> LongGone,
                            new |-> TRUE, changed |-> FALSE, seen |-> FALSE]>> \o @,
              !.fileDirty = TRUE]

SetExpires(t, i, left) ==
    IF t.leases[i].left = left THEN t
    ELSE [t EXCEPT !.leases[i].left = left, !.dnsDirty = TRUE, !.fileDirty = TRUE]

(* A request without client identifier does not remove that of the lease. *)
SetHwaddr(t, i, hw, clid) ==
    LET l == t.leases[i]
        newHw == hw # l.hw
        newClid == clid # NoClid /\ clid # l.clid
    IN [t EXCEPT !.leases[i] = [l EXCEPT !.hw = hw, !.changed = @ \/ newHw,
                                         !.clid = IF clid # NoClid THEN clid ELSE @],
                 !.fileDirty = @ \/ newHw \/ newClid]

SetHostnameBoth(t, i, name, auth) ==    \* mutant: not taking it from the other
    LET l == t.leases[i]
    IN IF l.name = name THEN [t EXCEPT !.leases[i].auth = auth]
       ELSE [t EXCEPT !.leases[i] = [l EXCEPT !.oldName = IF l.name # NoName THEN l.name ELSE @,
                                              !.name = name, !.auth = auth, !.changed = TRUE],
                      !.fileDirty = TRUE, !.dnsDirty = TRUE]

SetHostnameQuiet(t, i, name, auth) ==   \* mutant: the loser of the name is not told
    LET l == t.leases[i]
        holder == SelectInSeq(t.leases, LAMBDA h : h.name = name)
        renamed == [l EXCEPT !.oldName = IF l.name # NoName THEN l.name ELSE @,
                             !.name = name, !.auth = auth, !.changed = TRUE]
    IN IF l.name = name THEN [t EXCEPT !.leases[i].auth = auth]
       ELSE IF holder # 0 /\ t.leases[holder].auth /\ ~auth THEN t
       ELSE [t EXCEPT !.leases = [j \in DOMAIN @ |->
                                     IF j = i THEN renamed
                                     ELSE IF j = holder THEN [@[j] EXCEPT !.name = NoName]
                                     ELSE @[j]],
                      !.fileDirty = TRUE, !.dnsDirty = TRUE]

(* The name is taken from the lease that has it, unless that lease has it  *)
(* from the configuration and this one has not.                            *)
SetHostname(t, i, name, auth) ==
    LET l == t.leases[i]
        holder == SelectInSeq(t.leases, LAMBDA h : h.name = name)
        renamed == [l EXCEPT !.oldName = IF l.name # NoName THEN l.name ELSE @,
                             !.name = name, !.auth = auth, !.changed = TRUE]
    IN IF l.name = name THEN [t EXCEPT !.leases[i].auth = auth]
       ELSE IF holder # 0 /\ t.leases[holder].auth /\ ~auth THEN t
       ELSE [t EXCEPT !.leases = [j \in DOMAIN @ |->
                                     IF j = i THEN renamed
                                     ELSE IF j = holder
                                     THEN [@[j] EXCEPT !.oldName = name, !.name = NoName]
                                     ELSE @[j]],
                      !.fileDirty = TRUE, !.dnsDirty = TRUE]

(* There is one interface: it is new to a lease that was just made or read. *)
SetInterface(t, i) ==
    IF t.leases[i].seen THEN t
    ELSE [t EXCEPT !.leases[i].seen = TRUE, !.leases[i].changed = TRUE]

RerunScripts(t) == [t EXCEPT !.leases = [i \in DOMAIN @ |-> [@[i] EXCEPT !.changed = TRUE]]]

-----------------------------------------------------------------------------
(* The file and its timer. *)

Lines(t) == [i \in DOMAIN t.leases |->
                [addr |-> t.leases[i].addr, hw |-> t.leases[i].hw, clid |-> t.leases[i].clid,
                 name |-> t.leases[i].name, left |-> t.leases[i].left]]

NextAlarmIdle(t, alarm, failed) ==   \* mutant: an error is not tried again
    LET events == {left + Slop : left \in {t.leases[i].left : i \in DOMAIN t.leases} \ {Never}}
    IN IF events = {} THEN alarm
       ELSE LET next == CHOOSE e \in events : \A f \in events : e <= f
            IN IF next > 0 THEN next ELSE NoAlarm

NextAlarmLast(t, alarm, failed) ==   \* mutant: for the last event
    LET ends == {t.leases[i].left : i \in DOMAIN t.leases} \ {Never}
        events == {left + Slop : left \in ends} \cup IF failed THEN {Retry} ELSE {}
    IN IF events = {} THEN alarm
       ELSE LET last == CHOOSE e \in events : \A f \in events : e >= f
            IN IF last > 0 THEN last ELSE NoAlarm

(* The seconds to the next event, as set at the end of lease_update_file.  *)
(* No event leaves the alarm as it was; alarm(0) cancels it; and an event   *)
(* of the past, converted from a negative double, is out of any horizon.   *)
NextAlarm(t, alarm, failed) ==
    LET ends == {t.leases[i].left : i \in DOMAIN t.leases} \ {Never}
        events == {left + Slop : left \in ends} \cup IF failed THEN {Retry} ELSE {}
    IN IF events = {} THEN alarm
       ELSE LET next == CHOOSE e \in events : \A f \in events : e <= f
            IN IF next > 0 THEN next ELSE NoAlarm

(* The outcomes of lease_update_file.  The file is cut, then written line by *)
(* line; after an error, which leaves any number of lines, or all of the old *)
(* file if it cannot be cut, it is still dirty and is tried again.           *)
LeaseUpdateFile(t, file, alarm, mayFail) ==
    LET stopped(f) == [t |-> t, file |-> f, alarm |-> NextAlarm(t, alarm, TRUE)]
        some == {SubSeq(Lines(t), 1, n) : n \in 0..Len(t.leases)}
        done == [t |-> [t EXCEPT !.fileDirty = FALSE],
                 file |-> IF t.fileDirty THEN Lines(t) ELSE file,
                 alarm |-> NextAlarm(t, alarm, FALSE)]
    IN {done} \cup {stopped(f) : f \in IF mayFail /\ t.fileDirty THEN some \cup {file} ELSE {}}

(* lease_init: each line is a lease at the head of the list, with its name. *)
ReadLease(t, s) ==
    LET one == LeaseAllocate(t, s.addr)
        two == SetHwaddr([one EXCEPT !.leases[1].left = s.left], 1, s.hw, s.clid)
        three == IF s.name # NoName THEN SetHostname(two, 1, s.name, FALSE) ELSE two
    IN [three EXCEPT !.leases[1].new = FALSE, !.leases[1].changed = FALSE]

NoLeases == [leases |-> <<>>, old |-> <<>>, fileDirty |-> FALSE, dnsDirty |-> FALSE]

LeaseInit(file) ==
    LET table == FoldLeft(ReadLease, NoLeases, file)
    IN [LeasePrune([table EXCEPT !.fileDirty = FALSE], 0) EXCEPT !.dnsDirty = TRUE]

(* The names of the leases in the DNS cache, with the address and the time *)
(* to live of their lease; the cache itself is the module Cache.           *)
NamesOf(t) == {[name |-> l.name, addr |-> l.addr, left |-> l.left] :
                  l \in {k \in ToSet(t.leases) : k.name # NoName}}

LeaseUpdateDns(t, dns) == IF t.dnsDirty THEN NamesOf(t) ELSE dns
Entered(t) == [t EXCEPT !.dnsDirty = FALSE]

-----------------------------------------------------------------------------
(* The lease-change script. *)

Event(action, l, name) == [action |-> action, addr |-> l.addr, hw |-> l.hw, name |-> name]

Renamed(t) == SelectInSeq(t.leases, LAMBDA l : l.oldName # NoName)
Announced(t) == SelectInSeq(t.leases, LAMBDA l : l.new \/ l.changed)
NothingToRun(t) == t.old = <<>> /\ Renamed(t) = 0 /\ Announced(t) = 0

(* The one message that a call of do_script_run queues. *)
ScriptEvent(t) ==
    IF t.old # <<>> THEN
        LET l == Head(t.old) IN
        IF l.oldName # NoName THEN Event("old_hostname", l, l.oldName)
        ELSE Event("del", l, l.name)
    ELSE IF Renamed(t) # 0 THEN
        LET l == t.leases[Renamed(t)] IN Event("old_hostname", l, l.oldName)
    ELSE LET l == t.leases[Announced(t)] IN Event(IF l.new THEN "add" ELSE "old", l, l.name)

(* The table after that call; the names it frees are in no lease any more. *)
DoScriptRun(t) ==
    IF t.old # <<>> THEN
        IF Head(t.old).oldName # NoName THEN [t EXCEPT !.old[1].oldName = NoName]
        ELSE [t EXCEPT !.old = Tail(@)]
    ELSE IF Renamed(t) # 0 THEN [t EXCEPT !.leases[Renamed(t)].oldName = NoName]
    ELSE [t EXCEPT !.leases[Announced(t)].new = FALSE,
                   !.leases[Announced(t)].changed = FALSE]

(* Without a script the main loop calls it until nothing is left to do. *)
Drained(t) ==
    [t EXCEPT !.old = <<>>,
              !.leases = [i \in DOMAIN @ |-> [@[i] EXCEPT !.oldName = NoName, !.new = FALSE,
                                                          !.changed = FALSE]]]

(* All the messages that are left to queue, in their order. *)
Farewell(l) ==
    (IF l.oldName # NoName THEN <<Event("old_hostname", l, l.oldName)>> ELSE <<>>)
    \o <<Event("del", l, l.name)>>

Pending(t) ==
    LET lost == Sifted(t.leases, {i \in DOMAIN t.leases : t.leases[i].oldName # NoName})
        told == Sifted(t.leases, {i \in DOMAIN t.leases :
                                     t.leases[i].new \/ t.leases[i].changed})
    IN FoldLeft(LAMBDA all, l : all \o Farewell(l), <<>>, t.old)
       \o [k \in DOMAIN lost |-> Event("old_hostname", lost[k], lost[k].oldName)]
       \o [k \in DOMAIN told |-> Event(IF told[k].new THEN "add" ELSE "old", told[k], told[k].name)]

=============================================================================
