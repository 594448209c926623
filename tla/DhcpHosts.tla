----------------------------- MODULE DhcpHosts -----------------------------
(***************************************************************************)
(* The list of dhcp-host entries (dhcp.c, option.c) and how SIGHUP remakes *)
(* it from /etc/ethers, the file of --dhcp-hostsfile and the addresses in  *)
(* /etc/hosts.  Entries are searched in the order of the list; the one     *)
(* added last is first.                                                    *)
(*                                                                         *)
(* Left out: domains of names, the spelling of lines, the mask of a wild   *)
(* hardware address (it is the set of addresses it matches).  The search   *)
(* of a name of /etc/hosts is taken to find the record of the file and not *)
(* that of a lease of the same name.                                       *)
(***************************************************************************)
EXTENDS Leases

CONSTANTS
    NetOf,      \* the network of each address
    CommandLine \* the entries of the options, in the order of the list

NoAddr == 0     \* s_addr of no address

(* declined: seconds left of DECLINE_BACKOFF, -1 when it is over.          *)
Config == [hw : SUBSET Hw, wild : BOOLEAN, clid : Clid \cup {NoClid},
           name : Name \cup {NoName}, addr : Addr \cup {NoAddr},
           time : 0..MaxLeft \cup {Never}, disable : BOOLEAN, noclid : BOOLEAN,
           tags : SUBSET STRING, fromEthers : BOOLEAN, addrHosts : BOOLEAN,
           bank : BOOLEAN, declined : Int]

(* A flag CONFIG_ADDR, CONFIG_NAME, CONFIG_TIME stands for a value present. *)
Blank == [hw |-> {}, wild |-> FALSE, clid |-> NoClid, name |-> NoName, addr |-> NoAddr,
          time |-> 0, disable |-> FALSE, noclid |-> FALSE, tags |-> {}, fromEthers |-> FALSE,
          addrHosts |-> FALSE, bank |-> FALSE, declined |-> -1]

ASSUME HostsAssumption ==
    NoAddr \notin Addr /\ NetOf \in [Addr -> Nat] /\ CommandLine \in Seq(Config)

(* What a line of /etc/ethers says. *)
Ethers == [hw : Hw, addr : Addr \cup {NoAddr}, name : Name \cup {NoName}]

FindByAddress(confs, addr) == SelectInSeq(confs, LAMBDA c : c.addr # NoAddr /\ c.addr = addr)

Reserved(confs) == {confs[i].addr : i \in DOMAIN confs} \ {NoAddr}

(* With no context, for a lease, every entry will do. *)
IsAddrInContext(nets, c) == nets = {} \/ c.addr = NoAddr \/ NetOf[c.addr] \in nets

(* By client identifier, then hardware address, then name, then wild card. *)
FindConfig(confs, nets, clid, hw, name) ==
    LET usable(c) == IsAddrInContext(nets, c)
        byClid == SelectInSeq(confs, LAMBDA c : clid # NoClid /\ c.clid = clid /\ usable(c))
        byHw == SelectInSeq(confs, LAMBDA c : ~c.wild /\ hw \in c.hw /\ usable(c))
        byName == SelectInSeq(confs, LAMBDA c : name # NoName /\ nets # {} /\ c.name = name
                                                /\ usable(c))
        byMask == SelectInSeq(confs, LAMBDA c : c.wild /\ hw \in c.hw /\ usable(c))
    IN IF byClid # 0 THEN byClid
       ELSE IF byHw # 0 THEN byHw
       ELSE IF byName # 0 THEN byName ELSE byMask

-----------------------------------------------------------------------------
(* A line of /etc/ethers gives an address or a name to a hardware address:  *)
(* it completes the entry that has that address or name, else the entry of  *)
(* that hardware address, else it makes one.                                *)
EthersLine(confs, line) ==
    LET has == IF line.addr # NoAddr THEN FindByAddress(confs, line.addr)
               ELSE SelectInSeq(confs, LAMBDA c : c.name = line.name)
        same == SelectInSeq(confs, LAMBDA c : ~c.wild /\ line.hw \in c.hw)
        given(c) == [c EXCEPT !.addr = IF line.addr # NoAddr THEN line.addr ELSE @,
                              !.name = IF line.name # NoName THEN line.name ELSE @]
        marked(c) == [c EXCEPT !.hw = {line.hw}, !.noclid = TRUE]
    IN IF has # 0 THEN [confs EXCEPT ![has] = marked(@)]
       ELSE IF same # 0 THEN [confs EXCEPT ![same] = marked(given(@))]
       ELSE <<marked(given([Blank EXCEPT !.fromEthers = TRUE]))>> \o confs

DhcpReadEthers(confs, lines) ==
    FoldLeft(EthersLine, Sifted(confs, {i \in DOMAIN confs : ~confs[i].fromEthers}), lines)

RereadDhcp(confs, lines) ==
    Reverse([i \in DOMAIN lines |-> [lines[i] EXCEPT !.bank = TRUE]])
    \o Sifted(confs, {i \in DOMAIN confs : ~confs[i].bank})

(* Entries with a name and no address take that of /etc/hosts, unless       *)
(* another entry has it; first the addresses taken last time are dropped.   *)
TakeAddress(cs, i, hosts) ==
    LET addressed == {a \in Addr : hosts[a] = cs[i].name}
        a == CHOOSE a \in addressed : TRUE
    IN IF cs[i].addr = NoAddr /\ cs[i].name # NoName /\ addressed # {}
          /\ FindByAddress(cs, a) = 0
       THEN [cs EXCEPT ![i].addr = a, ![i].addrHosts = TRUE]
       ELSE cs

DhcpUpdateConfigs(confs, hosts) ==
    LET before == [i \in DOMAIN confs |->
                      IF confs[i].addrHosts
                      THEN [confs[i] EXCEPT !.addr = NoAddr, !.addrHosts = FALSE] ELSE confs[i]]
    IN FoldLeft(LAMBDA cs, i : TakeAddress(cs, i, hosts), before, [i \in DOMAIN confs |-> i])

(* Of two entries with one address the first loses it.  DHOPT_BANK is the   *)
(* value of CONFIG_ADDR here, so that all entries are looked at.            *)
CheckDhcpHosts(confs) ==
    [i \in DOMAIN confs |->
        IF \E j \in i + 1..Len(confs) : confs[j].addr # NoAddr /\ confs[j].addr = confs[i].addr
        THEN [confs[i] EXCEPT !.addr = NoAddr] ELSE confs[i]]

(* What SIGHUP makes of the list. *)
Reconfigured(confs, ethers, bank, hosts) ==
    CheckDhcpHosts(DhcpUpdateConfigs(RereadDhcp(DhcpReadEthers(confs, ethers), bank), hosts))

=============================================================================
