-------------------------------- MODULE Dhcp --------------------------------
(***************************************************************************)
(* The DHCP server (rfc2131.c, dhcp.c) on its lease table, with the lease  *)
(* file, the alarm, the names it gives to the DNS, the lease-change        *)
(* script, SIGHUP, and the clients.                                        *)
(*                                                                         *)
(* A packet is handled in one step: dhcp_packet runs to its end before the *)
(* main loop looks at anything else (icmp_ping runs the DNS listeners, but *)
(* no DHCP).  What other machines answer to a ping is free.  Replies may   *)
(* be lost, and requests are repeated; clients follow RFC 2131: one that   *)
(* selects or reboots has no address in use, and old packets do not turn   *)
(* up after the client has moved on.                                       *)
(*                                                                         *)
(* Left out: the options of replies, their encoding and destination, the   *)
(* subnet selector (it acts as a relay) and the server-identifier override.*)
(***************************************************************************)
EXTENDS DhcpHosts

CONSTANTS
    Clients,        \* what a client says of itself, see Client
    Contexts,       \* the dhcp-ranges in the order of daemon->dhcp, see Context
    Router,         \* the server's or relay's address on each network
    Hash,           \* the hash of a hardware address
    Sends,          \* the kinds of messages clients send
    Requested,      \* lease times clients ask for, Never for 0xffffffff, 0 for none
    EthersFiles, BankFiles, HostsFiles, \* contents of the files read at SIGHUP
    Strangers,      \* sets of addresses that answer a ping, taken by no client
    Ignore,         \* --dhcp-ignore, sets of tags
    IgnoreNames,    \* --dhcp-ignore-names, sets of tags
    Authoritative, BootpDynamic, NoPing, \* options
    MinTime,        \* the least time a client may ask for, 120 in the code
    MaxOld,         \* bound on the leases the script has not been told are gone
    PingCacheTime, MaxPings, \* PING_CACHE_TIME and what fits in 60 % of it
    Backoff,        \* DECLINE_BACKOFF
    HasScript,      \* a lease-change script is configured
    Stops,          \* how the process may stop: "crash", "term"
    MayFail,        \* writing the lease file may fail
    QuietHangUp     \* SIGHUP never comes in the second the alarm is due

VARIABLES
    lt,     \* the lease table
    file,   \* the lease file
    alarm,  \* seconds until SIGALRM, or NoAlarm
    due,    \* EVENT_ALARM is in the pipe
    dns,    \* the names of leases in the DNS cache
    confs,  \* daemon->dhcp_conf
    hosts,  \* /etc/hosts as last read: the name of each address
    epoch,  \* addr_epoch of each context, modulo its size
    pings,  \* ping_results, those still remembered
    view,   \* what the script has been told last of each address
    held    \* the address each machine believes it may use

vars == <<lt, file, alarm, due, dns, confs, hosts, epoch, pings, view, held>>

Client == [hw : Hw, clid : Clid \cup {NoClid}, name : Name \cup {NoName}, tags : SUBSET STRING]
Context == [id : Nat, start : Addr, end : Addr, net : Nat, static : BOOLEAN,
            time : 0..MaxLeft \cup {Never}, all : SUBSET STRING, none : SUBSET STRING]

ASSUME DhcpAssumption ==
    /\ Clients \subseteq Client
    /\ Contexts \in Seq(Context) /\ Contexts # <<>>
    /\ \A i \in DOMAIN Contexts :
          LET c == Contexts[i] IN c.id = i /\ c.start <= c.end /\ c.start..c.end \subseteq Addr
    /\ Hash \in [Hw -> Nat]
    /\ EthersFiles \subseteq Seq(Ethers) /\ BankFiles \subseteq Seq(Config)
    /\ HostsFiles \subseteq [Addr -> Name \cup {NoName}]
    /\ Requested \subseteq 0..MaxLeft \cup {Never} /\ MinTime <= MaxLeft
    /\ {Authoritative, BootpDynamic, NoPing, HasScript, MayFail, QuietHangUp} \subseteq BOOLEAN
    /\ {MinTime, PingCacheTime, MaxPings, Backoff} \subseteq Nat

Size(c) == c.end - c.start + 1
Nowhere == [addr |-> NoAddr, left |-> Never]
Unknown == [hw |-> NoHw, name |-> NoName]

-----------------------------------------------------------------------------
(* Contexts.  A chain is the sequence linked by current. *)

(* Every context is put at the head of the chain of its network.            *)
Chain(net) == Reverse(Sifted(Contexts, {i \in DOMAIN Contexts : Contexts[i].net = net}))

(* A relay decides; else an address the client has decides, if any range is *)
(* on its network; else the interface the packet came through.              *)
ChainFor(m) ==
    IF ~m.relayed /\ m.ciaddr # NoAddr /\ Chain(NetOf[m.ciaddr]) # <<>>
    THEN Chain(NetOf[m.ciaddr])
    ELSE Chain(m.net)

Nets(chain) == {chain[i].net : i \in DOMAIN chain}
Routers(chain) == {Router[n] : n \in Nets(chain)}

(* match_netid: a list without tags matches if that is allowed.            *)
MatchNetid(all, none, tags, tagnotneeded) ==
    IF all = {} /\ none = {} THEN tagnotneeded ELSE all \subseteq tags /\ none \cap tags = {}

AvailableIn(chain, addr, tags) ==
    IF chain = <<>> \/ addr = Router[Head(chain).net] THEN 0
    ELSE SelectInSeq(chain, LAMBDA c : ~c.static /\ addr \in c.start..c.end
                                   /\ MatchNetid(c.all, c.none, tags, TRUE))

AddressAvailable(chain, addr, tags) == AvailableIn(chain, addr, tags) # 0

(* The context of an address, as a chain of one, or of none. *)
NarrowContext(chain, addr, tags) ==
    LET near(c) == addr # NoAddr /\ NetOf[addr] = c.net
        available == AvailableIn(chain, addr, tags)
        static == SelectInSeq(chain, LAMBDA c : near(c) /\ c.static)
        other == SelectInSeq(chain, near)
        at == IF available # 0 THEN available ELSE IF static # 0 THEN static ELSE other
    IN IF at = 0 THEN <<>> ELSE <<chain[at]>>

-----------------------------------------------------------------------------
(* address_allocate: a search through the ranges, first those with tags.    *)
(* s is the part of the state a reply works on: t, confs, epoch, pings.     *)

Pinged(s) == {p.addr : p \in s.pings}

TryAddress(s, w, c, chain, addr, busy) ==
    LET open == addr \notin Routers(chain) /\ FindByAddr(s.t, addr) = 0
                /\ addr \notin Reserved(s.confs)
    IN IF w.addr # NoAddr \/ ~open THEN w
       ELSE IF NoPing \/ addr \in Pinged(s) \/ Cardinality(s.pings) >= MaxPings
       THEN [w EXCEPT !.addr = addr]
       ELSE IF addr \in busy THEN [w EXCEPT !.epoch[c.id] = (@ + 1) % Size(c)]
       ELSE [w EXCEPT !.addr = addr,
                      !.pings = @ \cup {[addr |-> addr, left |-> PingCacheTime]}]

(* Through one range, from where the hash of the machine and the epoch say. *)
SearchRange(s, w, c, chain, hw, busy) ==
    LET seed == Hash[hw] + w.epoch[c.id]
        ring == [k \in 1..Size(c) |-> c.start + ((seed + k - 1) % Size(c))]
    IN FoldLeft(LAMBDA v, addr : TryAddress(s, v, c, chain, addr, busy), w, ring)

AddressAllocate(s, chain, hw, tags, busy) ==
    LET search(w, step) ==
          LET c == chain[step[2]]
          IN IF c.static \/ ~MatchNetid(c.all, c.none, tags, step[1]) THEN w
             ELSE SearchRange(s, w, c, chain, hw, busy)
        over(pass) == [i \in DOMAIN chain |-> <<pass, i>>]
    IN FoldLeft(search, [addr |-> NoAddr, epoch |-> s.epoch, pings |-> s.pings],
                over(FALSE) \o over(TRUE))

After(s, w) == [s EXCEPT !.epoch = w.epoch, !.pings = w.pings]

(* host_from_dns *)
HostFromDns(addr) == IF addr = NoAddr THEN NoName ELSE hosts[addr]

(* calc_time: what the client asks for, if it is less.                      *)
CalcTime(c, q) ==
    LET given == IF q.conf.time # 0 THEN q.conf.time ELSE c.time
        asked == IF q.m.time = Never \/ q.m.time >= MinTime THEN q.m.time ELSE MinTime
    IN IF q.m.time = 0 THEN given
       ELSE IF given = Never \/ (asked # Never /\ asked < given) THEN asked ELSE given

-----------------------------------------------------------------------------
(* What dhcp_reply finds out before it looks at the kind of the message:    *)
(* chain, lease (0 for none), conf and its index (0, and Blank, for none),  *)
(* tags, and the name with its authority.                                   *)

(* A client that has sent its identifier once is known by it.               *)
ClidOf(s, m, lease) ==
    IF lease # 0 /\ m.clid = NoClid THEN s.t.leases[lease].clid ELSE m.clid

(* An entry found by name counts if it is for no particular machine.        *)
Entry(s, m, first, named) ==
    IF /\ first = 0 /\ named # 0 /\ m.type # "bootp"
       /\ s.confs[named].clid = NoClid /\ s.confs[named].hw = {}
    THEN named ELSE first

Described(m, chain, lease, clid, at, conf, auth) ==
    [m |-> m, chain |-> chain, lease |-> lease, at |-> at, conf |-> conf,
     clid |-> IF conf.noclid THEN NoClid ELSE clid,
     name |-> IF auth THEN conf.name ELSE IF m.type = "bootp" THEN NoName ELSE m.name,
     auth |-> auth,
     tags |-> m.tags \cup conf.tags \cup (IF at # 0 THEN {"known"} ELSE {})
              \cup (IF m.type = "bootp" THEN {"bootp"} ELSE {})]

Configured(s, m, chain, lease, clid, first, at) ==
    LET conf == IF at = 0 THEN Blank ELSE s.confs[at]
    IN Described(m, chain, lease, clid, at, conf, first # 0 /\ conf.name # NoName)

Matched(s, m, chain, lease, clid, first) ==
    Configured(s, m, chain, lease, clid, first,
               Entry(s, m, first, FindConfig(s.confs, Nets(chain), NoClid, m.hw, m.name)))

Recognised(s, m, chain, lease, clid) ==
    Matched(s, m, chain, lease, clid, FindConfig(s.confs, Nets(chain), clid, m.hw, NoName))

Query(s, m) ==
    LET lease == IF m.type = "bootp" THEN 0 ELSE FindByClient(s.t, m.hw, m.clid)
    IN Recognised(s, m, ChainFor(m), lease, ClidOf(s, m, lease))

Ignored(q) == q.conf.disable \/ \E list \in Ignore : list # {} /\ list \subseteq q.tags

(* The outcome of dhcp_reply: the state and what is sent. *)
Outcome(s, kind, addr, left, why) ==
    [s |-> s, kind |-> kind, addr |-> addr, left |-> left, why |-> why]
Silent(s) == Outcome(s, "none", NoAddr, 0, "")

Pruned(s, lease) == [s EXCEPT !.t = LeasePrune(@, lease)]

-----------------------------------------------------------------------------
(* BOOTP: the configured address, or one for ever. *)

Bootp(s, q, busy) ==
    LET hw == q.m.hw
        fixed == q.conf.addr # NoAddr
        holder == FindByAddr(s.t, q.conf.addr)
        own == FindByClient(s.t, hw, NoClid)
        stays == own # 0 /\ AddressAvailable(q.chain, s.t.leases[own].addr, q.tags)
        left == IF own # 0 /\ ~stays THEN Pruned(s, own) ELSE s
        w == AddressAllocate(left, q.chain, hw, q.tags, busy)
        served(s1, lease, addr) ==
          LET t1 == IF lease = 0 THEN LeaseAllocate(s1.t, addr) ELSE s1.t
              i == IF lease = 0 THEN 1 ELSE lease
              t2 == SetHwaddr(t1, i, hw, NoClid)
              t3 == IF q.name # NoName THEN SetHostname(t2, i, q.name, TRUE) ELSE t2
              time == IF q.conf.time # 0 THEN q.conf.time ELSE Never
              t4 == SetInterface(SetExpires(t3, i, time), i)
          IN IF lease = 0 /\ ~Room(s1.t) THEN Silent(s1)
             ELSE Outcome([s1 EXCEPT !.t = t4], "bootp", addr, time, "")
    IN IF Ignored(q) THEN Silent(s)
       ELSE IF fixed THEN
           IF holder # 0 /\ s.t.leases[holder].hw # hw THEN Silent(s)
           ELSE served(s, holder, q.conf.addr)
       ELSE IF ~BootpDynamic THEN Silent(s)
       ELSE IF stays THEN served(s, own, s.t.leases[own].addr)
       ELSE IF w.addr = NoAddr THEN Silent(After(left, w))
       ELSE served(After(left, w), 0, w.addr)

(* DECLINE: the address is not given to this client again for a while. *)
Decline(s, q) ==
    LET mine == q.lease # 0 /\ s.t.leases[q.lease].addr = q.m.reqip
        s1 == IF mine THEN Pruned(s, q.lease) ELSE s
    IN Silent(IF q.conf.addr # NoAddr /\ q.conf.addr = q.m.reqip
              THEN [s1 EXCEPT !.confs[q.at].declined = Backoff]
              ELSE [s1 EXCEPT !.epoch = [id \in DOMAIN @ |->
                        IF \E i \in DOMAIN q.chain : q.chain[i].id = id
                        THEN (@[id] + 1) % Size(Contexts[id]) ELSE @[id]]])

Release(s, q) ==
    Silent(IF NarrowContext(q.chain, q.m.ciaddr, q.tags) # <<>>
              /\ q.lease # 0 /\ s.t.leases[q.lease].addr = q.m.ciaddr
           THEN Pruned(s, q.lease) ELSE s)

-----------------------------------------------------------------------------
(* DISCOVER: the configured address if it is free, else that of the lease,  *)
(* else the one asked for, else any.                                        *)

ConfiguredFree(s, q) ==
    LET holder == FindByAddr(s.t, q.conf.addr)
    IN /\ q.conf.addr # NoAddr
       /\ holder \in {0, q.lease}
       /\ Router[Head(q.chain).net] # q.conf.addr
       /\ q.conf.declined <= 0

AskedFreeReserved(s, q) ==   \* mutant: reserved for another host or not
    /\ q.m.reqip # NoAddr
    /\ AddressAvailable(q.chain, q.m.reqip, q.tags)
    /\ FindByAddr(s.t, q.m.reqip) = 0

AskedFree(s, q) ==
    /\ q.m.reqip # NoAddr
    /\ AddressAvailable(q.chain, q.m.reqip, q.tags)
    /\ FindByAddr(s.t, q.m.reqip) = 0
    /\ FindByAddress(s.confs, q.m.reqip) = 0

LeaseFits(s, q) == q.lease # 0 /\ AddressAvailable(q.chain, s.t.leases[q.lease].addr, q.tags)

Discover(s, q, busy) ==
    LET w == AddressAllocate(s, q.chain, q.m.hw, q.tags, busy)
        known == ConfiguredFree(s, q) \/ LeaseFits(s, q) \/ AskedFree(s, q)
        addr == IF ConfiguredFree(s, q) THEN q.conf.addr
                ELSE IF LeaseFits(s, q) THEN s.t.leases[q.lease].addr
                ELSE IF AskedFree(s, q) THEN q.m.reqip ELSE w.addr
        s1 == IF known THEN s ELSE After(s, w)
        context == NarrowContext(q.chain, addr, q.tags)
    IN IF Ignored(q) THEN Silent(s)
       ELSE IF addr = NoAddr \/ context = <<>> THEN Silent(s1)
       ELSE Outcome(s1, "offer", addr, CalcTime(Head(context), q), "")

-----------------------------------------------------------------------------
(* REQUEST.  What the fields present make of it, and the checks in order.   *)

Selecting(q) == q.m.reqip # NoAddr /\ q.m.server # "none"
InitReboot(q) == q.m.reqip # NoAddr /\ q.m.server = "none"

Wanted(q) == IF q.m.reqip # NoAddr THEN q.m.reqip ELSE q.m.ciaddr

(* The lease is for another address: the client has left it. *)
Moved(s, q) == q.lease # 0 /\ s.t.leases[q.lease].addr # Wanted(q)

NoAnswer(q) ==
    \/ Selecting(q) /\ q.m.server = "other"
    \/ InitReboot(q) /\ q.lease = 0 /\ ~Authoritative

ObjectionInUse(s, q, addr) ==   \* mutant: whoever uses it
    LET chain == NarrowContext(q.chain, addr, q.tags)
        reserved == FindByAddress(s.confs, addr)
    IN IF chain = <<>> THEN "wrong network"
       ELSE IF ~AddressAvailable(chain, addr, q.tags) /\ q.conf.addr # addr
       THEN "address not available"
       ELSE IF reserved # 0 /\ reserved # q.at THEN "address reserved"
       ELSE IF q.lease = 0 /\ ~Room(s.t) THEN "no leases left" ELSE ""

(* Why the address is not given, or "" if it is. *)
Objection(s, q, addr) ==
    LET chain == NarrowContext(q.chain, addr, q.tags)
        conf == q.conf
        router == Router[Head(q.chain).net] = conf.addr
        holder == FindByAddr(s.t, conf.addr)
        reserved == FindByAddress(s.confs, addr)
        user == FindByAddr(s.t, addr)
    IN IF chain = <<>> THEN "wrong network"
       ELSE IF ~AddressAvailable(chain, addr, q.tags) /\ conf.addr # addr
       THEN "address not available"
       ELSE IF /\ ~Selecting(q) /\ conf.addr # NoAddr /\ ~router /\ conf.declined < 0
               /\ conf.addr # addr /\ holder \in {0, q.lease}
       THEN "static lease available"
       ELSE IF reserved # 0 /\ reserved # q.at THEN "address reserved"
       ELSE IF user # 0 /\ user # q.lease THEN "address in use"
       ELSE IF q.lease = 0 /\ ~Room(s.t) THEN "no leases left"
       ELSE ""

(* The lease is made, or kept, and all it records brought up to date.       *)
Acknowledge(s, q, addr) ==
    LET context == Head(NarrowContext(q.chain, addr, q.tags))
        fresh == q.lease = 0
        i == IF fresh THEN 1 ELSE q.lease
        t1 == IF fresh THEN LeaseAllocate(s.t, addr) ELSE s.t
        t2 == IF fresh \/ q.m.reqip # NoAddr THEN [t1 EXCEPT !.leases[i].changed = TRUE] ELSE t1
        byDns == ~q.auth /\ HostFromDns(addr) # NoName
        auth == q.auth \/ byDns
        name == IF byDns THEN HostFromDns(addr)
                ELSE IF ~auth /\ \E list \in IgnoreNames : list \subseteq q.tags THEN NoName
                ELSE q.name
        time == CalcTime(context, q)
        t3 == SetHwaddr(t2, i, q.m.hw, q.clid)
        t4 == IF name # NoName THEN SetHostname(t3, i, name, auth) ELSE t3
    IN Outcome([s EXCEPT !.t = SetInterface(SetExpires(t4, i, time), i)], "ack", addr, time, "")

Request(s, q) ==
    LET addr == Wanted(q)
        left == q.m.reqip # NoAddr /\ Moved(s, q)
        s1 == IF left THEN Pruned(s, q.lease) ELSE s
        q1 == IF left THEN [q EXCEPT !.lease = 0] ELSE q
        refused == IF InitReboot(q) /\ left THEN "wrong address"
                   ELSE IF q.m.reqip = NoAddr
                           /\ (Moved(s, q) \/ (q.lease = 0 /\ ~Authoritative))
                   THEN "lease not found" ELSE Objection(s1, q1, addr)
    IN IF Ignored(q) \/ NoAnswer(q) THEN Silent(s)
       ELSE IF refused # "" THEN Outcome(s1, "nak", NoAddr, 0, refused)
       ELSE Acknowledge(s1, q1, addr)

(* INFORM: no lease is given, one that exists is noted on its interface.    *)
Inform(s, q) ==
    LET lease == IF q.lease # 0 THEN q.lease ELSE FindByAddr(s.t, q.m.ciaddr)
    IN IF Ignored(q) \/ NarrowContext(q.chain, q.m.ciaddr, q.tags) = <<>> THEN Silent(s)
       ELSE Outcome(IF lease = 0 THEN s ELSE [s EXCEPT !.t = SetInterface(@, lease)],
                    "inform", NoAddr, 0, "")

(* dhcp_reply: without a range for its network a packet is dropped.         *)
Answer(s, q, busy) ==
    IF q.chain = <<>> THEN Silent(s)
    ELSE CASE q.m.type = "bootp" -> Bootp(s, q, busy)
           [] q.m.type = "decline" -> Decline(s, q)
           [] q.m.type = "release" -> Release(s, q)
           [] q.m.type = "discover" -> Discover(s, q, busy)
           [] q.m.type = "request" -> Request(s, q)
           [] q.m.type = "inform" -> Inform(s, q)

DhcpReply(s, m, busy) == Answer(s, Query(s, m), busy)

-----------------------------------------------------------------------------
(* The steps. *)

Working == [t |-> LeasePrune(lt, 0), confs |-> confs, epoch |-> epoch, pings |-> pings]

(* Without a script the names and leases that are gone are freed at the top *)
(* of the loop; with one, by the steps of ScriptRun.                        *)
Settle(t) == IF HasScript THEN t ELSE Drained(t)

Files(t, before) == LeaseUpdateFile(t, file, before, MayFail)

Message(c, type, net) ==
    [type |-> type, hw |-> c.hw, clid |-> IF type = "bootp" THEN NoClid ELSE c.clid,
     name |-> IF type = "bootp" THEN NoName ELSE c.name, tags |-> c.tags, net |-> net,
     relayed |-> FALSE, ciaddr |-> NoAddr, reqip |-> NoAddr, server |-> "none", time |-> 0]

(* What a client without an address sends. *)
Asks(c, net) ==
    LET m(type) == Message(c, type, net)
        some == CHOOSE a \in Addr : TRUE
    IN {m("bootp")}
       \cup {[m("discover") EXCEPT !.reqip = a] : a \in Addr \cup {NoAddr}}
       \cup {[m("request") EXCEPT !.reqip = a, !.server = id, !.time = time] :
                a \in Addr, id \in {"none", "this"}, time \in Requested}
       \cup {[m("request") EXCEPT !.reqip = some, !.server = "other"]}

Seeks(c) == {msg \in UNION {Asks(c, net) : net \in DOMAIN Router} : msg.type \in Sends}

(* What one with an address sends, through a relay if it has moved.  A      *)
(* machine that has its address for ever does not renew.                    *)
Renews(c, has) ==
    IF has.left = Never THEN {}
    ELSE {[Message(c, "request", NetOf[has.addr]) EXCEPT !.ciaddr = has.addr, !.time = time] :
             time \in Requested}

Told(c, type, has) == [Message(c, type, NetOf[has.addr]) EXCEPT !.server = "this"]

Relayed(msgs) ==
    UNION {{[msg EXCEPT !.net = net, !.relayed = TRUE] : msg \in msgs} : net \in DOMAIN Router}

Uses(c) ==
    LET has == held[c.hw]
        direct == Renews(c, has) \cup {[Told(c, "inform", has) EXCEPT !.ciaddr = has.addr]}
        all == direct \cup {msg \in Relayed(direct) : msg.net # NetOf[has.addr]}
               \cup {[Told(c, "release", has) EXCEPT !.ciaddr = has.addr],
                     [Told(c, "decline", has) EXCEPT !.reqip = has.addr]}
    IN {msg \in all : msg.type \in Sends}

(* What the client makes of the reply, if it comes; after a RELEASE or a    *)
(* DECLINE it has no address, whether or not the server got it.             *)
Heard(m, r, lost) ==
    IF m.type \in {"release", "decline"} \/ (r.kind = "nak" /\ ~lost)
    THEN [held EXCEPT ![m.hw] = Nowhere]
    ELSE IF r.kind \in {"ack", "bootp"} /\ ~lost
    THEN [held EXCEPT ![m.hw] = [addr |-> r.addr, left |-> r.left]]
    ELSE held

(* dhcp_packet: what is done with the outcome.  The reply comes or is lost. *)
Replied(m, r) ==
    /\ \E o \in Files(r.s.t, alarm) :
         /\ file' = o.file /\ alarm' = o.alarm
         /\ dns' = LeaseUpdateDns(o.t, dns) /\ lt' = Settle(Entered(o.t))
    /\ confs' = r.s.confs /\ epoch' = r.s.epoch /\ pings' = r.s.pings
    /\ held' \in {Heard(m, r, lost) : lost \in BOOLEAN}
    /\ UNCHANGED <<due, hosts, view>>

DhcpPacket(m, busy) == Replied(m, DhcpReply(Working, m, busy))

Answering(strange) == strange \cup ({held[h].addr : h \in Hw} \ {NoAddr})

ClientSeeks ==
    /\ Len(lt.old) < MaxOld
    /\ \E m \in UNION {Seeks(c) : c \in {d \in Clients : held[d.hw] = Nowhere}} :
         \E strange \in IF m.type = "request" THEN {{}} ELSE Strangers :
             DhcpPacket(m, Answering(strange))

ClientUses ==
    /\ Len(lt.old) < MaxOld
    /\ \E m \in UNION {Uses(c) : c \in {d \in Clients : held[d.hw] # Nowhere}} : DhcpPacket(m, {})

(* A machine is switched off, or its RELEASE is lost. *)
ClientStops ==
    \E h \in Hw :
      /\ held[h] # Nowhere
      /\ held' = [held EXCEPT ![h] = Nowhere]
      /\ UNCHANGED <<lt, file, alarm, due, dns, confs, hosts, epoch, pings, view>>

(* Results of pings are forgotten after PING_CACHE_TIME. *)
StillKnownAll(ps) == {[p EXCEPT !.left = @ - 1] : p \in ps}   \* mutant: never

StillKnown(ps) == {[p EXCEPT !.left = @ - 1] : p \in {q \in ps : q.left > 0}}

(* A turn of the main loop with an idle helper: do_script_run once. *)
Shown(v, e) ==
    [v EXCEPT ![e.addr] =
        IF e.action = "del" THEN Unknown
        ELSE IF e.action = "old_hostname" THEN [@ EXCEPT !.name = NoName]
        ELSE [hw |-> e.hw, name |-> e.name]]

ScriptRun ==
    /\ HasScript /\ ~NothingToRun(lt)
    /\ view' = Shown(view, ScriptEvent(lt))
    /\ lt' = DoScriptRun(lt)
    /\ UNCHANGED <<file, alarm, due, dns, confs, hosts, epoch, pings, held>>

(* Time passes, one second, unless SIGALRM comes first. *)
Tick ==
    /\ alarm # 0
    /\ alarm' = IF alarm = NoAlarm THEN NoAlarm ELSE alarm - 1
    /\ lt' = [lt EXCEPT !.leases = Aged(@), !.old = Aged(@)]
    /\ file' = Aged(file)
    /\ dns' = {[d EXCEPT !.left = Later(@)] : d \in dns}
    /\ confs' = [i \in DOMAIN confs |->
                    [confs[i] EXCEPT !.declined = IF @ = -1 THEN -1 ELSE @ - 1]]
    /\ pings' = StillKnown(pings)
    /\ held' = [h \in Hw |-> IF held[h].left = 0 THEN Nowhere
                             ELSE [held[h] EXCEPT !.left = Later(@)]]
    /\ UNCHANGED <<due, hosts, epoch, view>>

(* SIGALRM, and the event it puts in the pipe. *)
Alarm ==
    /\ alarm = 0 /\ alarm' = NoAlarm /\ due' = TRUE
    /\ UNCHANGED <<lt, file, dns, confs, hosts, epoch, pings, view, held>>

(* The DNS keeps the names of the leases that expire here. *)
AlarmEvent ==
    /\ due /\ due' = FALSE
    /\ \E o \in Files(LeasePrune(lt, 0), alarm) :
          file' = o.file /\ alarm' = o.alarm /\ lt' = Settle(o.t)
    /\ UNCHANGED <<dns, confs, hosts, epoch, pings, view, held>>

(* lease_update_from_configs: names of the configuration, or of the hosts.  *)
NameFromConfig(u, i, cs, names) ==
    LET l == u.leases[i]
        at == FindConfig(cs, {}, l.clid, l.hw, NoName)
        given == at # 0 /\ cs[at].name # NoName /\ cs[at].addr \in {NoAddr, l.addr}
    IN IF given THEN SetHostname(u, i, cs[at].name, TRUE)
       ELSE IF names[l.addr] # NoName THEN SetHostname(u, i, names[l.addr], TRUE)
       ELSE u

LeaseUpdateFromConfigs(t, cs, names) ==
    FoldLeft(LAMBDA u, i : NameFromConfig(u, i, cs, names), t, [i \in DOMAIN t.leases |-> i])

(* clear_cache_and_reload with the files as they are now, then rerun_scripts. *)
Reload(t0, confs0, before) ==
    \E ethers \in EthersFiles, bank \in BankFiles, names \in HostsFiles :
        LET cs == Reconfigured(confs0, ethers, bank, names)
        IN /\ confs' = cs /\ hosts' = names
           /\ \E o \in Files(LeaseUpdateFromConfigs(t0, cs, names), before) :
                /\ file' = o.file /\ alarm' = o.alarm
                /\ dns' = LeaseUpdateDns(o.t, dns)
                /\ lt' = Settle(RerunScripts(Entered(o.t)))

HangUp ==
    /\ QuietHangUp => alarm # 0
    /\ Reload(lt, confs, alarm)
    /\ UNCHANGED <<due, epoch, pings, view, held>>

(* The process starts on the lease file and reloads at once.  One that is   *)
(* terminated has its script told all that was left to tell.                *)
Starts(how) ==
    /\ Reload(LeaseInit(file), CommandLine, NoAlarm)
    /\ due' = FALSE
    /\ epoch' = [i \in DOMAIN Contexts |-> 0] /\ pings' = {}
    /\ view' = IF how = "term" /\ HasScript THEN FoldLeft(Shown, view, Pending(lt)) ELSE view
    /\ UNCHANGED held

Restart == \E how \in Stops : ~lt.fileDirty /\ Starts(how)

Init ==
    /\ lt = NoLeases
    /\ file = <<>> /\ alarm = NoAlarm /\ due = FALSE /\ dns = {}
    /\ \E ethers \in EthersFiles, bank \in BankFiles, names \in HostsFiles :
          confs = Reconfigured(CommandLine, ethers, bank, names) /\ hosts = names
    /\ epoch = [i \in DOMAIN Contexts |-> 0] /\ pings = {}
    /\ view = [a \in Addr |-> Unknown] /\ held = [h \in Hw |-> Nowhere]

Next ==
    \/ ClientSeeks \/ ClientUses \/ ClientStops
    \/ ScriptRun \/ Tick \/ Alarm
    \/ AlarmEvent \/ HangUp \/ Restart

Spec == Init /\ [][Next]_vars

-----------------------------------------------------------------------------
(* Properties. *)

TypeOK ==
    /\ lt \in Table
    /\ file \in Seq(Stored) /\ Len(lt.leases) <= DhcpMax
    /\ alarm \in Nat \cup {NoAlarm} /\ due \in BOOLEAN
    /\ dns \subseteq [name : Name, addr : Addr, left : Left]
    /\ confs \in Seq(Config) /\ hosts \in [Addr -> Name \cup {NoName}]
    /\ epoch \in [DOMAIN Contexts -> Nat]
    /\ \A i \in DOMAIN Contexts : epoch[i] < Size(Contexts[i])
    /\ pings \subseteq [addr : Addr, left : 0..PingCacheTime]
    /\ view \in [Addr -> [hw : Hw \cup {NoHw}, name : Name \cup {NoName}]]
    /\ held \in [Hw -> [addr : Addr \cup {NoAddr}, left : 0..MaxLeft \cup {Never}]]

(* No two leases have one address, one name or one client identifier, in    *)
(* whatever order requests, BOOTP, renamings by SIGHUP and restarts came:   *)
(* the searches of lease.c return the first match and would never see the   *)
(* second.                                                                  *)
OneLeaseEach ==
    \A i, j \in DOMAIN lt.leases : i # j =>
        LET k == lt.leases[i]  l == lt.leases[j]
        IN /\ k.addr # l.addr
           /\ k.name # NoName => k.name # l.name
           /\ k.clid # NoClid => k.clid # l.clid

(* Two machines never believe at one time that an address is theirs, for    *)
(* all the lost replies, crashes, expiries and reconfigurations: a lease is *)
(* in the file before its ACK is sent, and is kept as long as the client's. *)
NoConflict ==
    \A g, h \in Hw : g # h /\ held[g].addr # NoAddr => held[g].addr # held[h].addr

Offered(s, c, net, ip) == DhcpReply(s, [Message(c, "discover", net) EXCEPT !.reqip = ip], {})
Selected(s, c, net, addr) ==
    DhcpReply(s, [Message(c, "request", net) EXCEPT !.reqip = addr, !.server = "this"], {})
Renewed(s, c, addr) ==
    DhcpReply(s, [Message(c, "request", NetOf[addr]) EXCEPT !.ciaddr = addr], {})

(* The lease of a client is for an address now reserved for another one.    *)
Outlived(s, q) ==
    q.lease # 0 /\ FindByAddress(s.confs, s.t.leases[q.lease].addr) \notin {0, q.at}

Stands(s, c, net, r) ==
    r.kind = "offer" /\ ~Outlived(s, Query(s, Message(c, "discover", net)))
      => Selected(s, c, net, r.addr).why \in {"", "no leases left"}

Configures(r, q) == r.kind = "offer" /\ r.addr = q.conf.addr

OffersStandIn(s) ==
    \A c \in Clients :
      /\ \A net \in DOMAIN Router, ip \in Addr \cup {NoAddr} :
             Stands(s, c, net, Offered(s, c, net, ip))
      /\ \A a \in Addr : Renewed(s, c, a).why = "static lease available"
             => Configures(Offered(s, c, NetOf[a], a),
                           Query(s, Message(c, "discover", NetOf[a])))

(* The protocol comes to an end: the address offered to a client is one its *)
(* REQUEST is given, unless the table is full; and a client told to leave   *)
(* its lease for its configured address is offered that one.  "Be very sure *)
(* that when the client does DISCOVER, it will get the static address,      *)
(* otherwise an endless protocol loop will ensue" (rfc2131.c).              *)
OffersStand == OffersStandIn(Working)

(* When nothing is left to announce the script has been told exactly the    *)
(* leases there are, with their names, through renamings, expiries, SIGHUP  *)
(* and orderly restarts.                                                    *)
ScriptSynced ==
    HasScript /\ NothingToRun(lt) =>
      view = [a \in Addr |->
                LET i == FindByAddr(lt, a)
                IN IF i = 0 THEN Unknown
                   ELSE [hw |-> lt.leases[i].hw, name |-> lt.leases[i].name]]

NameLives(d) ==
    \E l \in ToSet(lt.leases) \cup ToSet(lt.old) :
        d.addr = l.addr /\ d.name \in {l.name, l.oldName}

(* The cache holds pointers to the names of leases.  One whose name was     *)
(* freed has expired, so that no search with the present time reads it, and *)
(* dns_dirty is set, so that the next lease_update_dns drops it.            *)
FreedNamesExpired ==
    \A d \in dns : NameLives(d) \/ (lt.dnsDirty /\ d.left # Never /\ d.left <= 0)


(* The file has every lease, or is known not to; and as long as a lease can *)
(* expire or the file must be written again, SIGALRM will come in time.     *)
FileAndAlarm ==
    /\ ~lt.fileDirty => ToSet(file) = ToSet(Lines(lt))
    /\ due \/ (/\ \A i \in DOMAIN lt.leases : lt.leases[i].left # Never
                     => alarm # NoAlarm /\ alarm <= lt.leases[i].left + Slop
               /\ lt.fileDirty => alarm # NoAlarm /\ alarm <= Retry)

=============================================================================
