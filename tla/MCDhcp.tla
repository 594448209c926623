------------------------------- MODULE MCDhcp -------------------------------
(* Two machines and two or three addresses of one network, for TLC. *)
EXTENDS Dhcp

CONSTANTS g, h, c1, n, p

Says(hw, clid, name, tags) == [hw |-> hw, clid |-> clid, name |-> name, tags |-> tags]

MCNetOf == [a \in Addr |-> a \div 10]
DhcpRange(id, start, end, static, time, all) ==
    [id |-> id, start |-> start, end |-> end, net |-> start \div 10, static |-> static,
     time |-> time, all |-> all, none |-> {}]
MCHash == [x \in Hw |-> IF x = g THEN 0 ELSE 1]
Unnamed == [a \in Addr |-> NoName]

(* dhcp: g also boots without its identifier; 12 may be reserved for h. *)
MCClients == {Says(g, c1, n, {}), Says(g, NoClid, NoName, {}), Says(h, NoClid, n, {})}
MCContexts == <<DhcpRange(1, 11, 12, FALSE, 1, {})>>
MCRouter == [net \in {1} |-> 10]
MCCommandLine == <<[Blank EXCEPT !.clid = c1, !.name = p]>>
MCEthers == {<<>>, <<[hw |-> h, addr |-> 12, name |-> NoName]>>}
MCBanks == {<<>>}
MCHosts == {Unnamed}
MCIgnore == {{"ignored"}}

(* leases: two machines of one name, and leases for ever.                   *)
ForEver == <<DhcpRange(1, 11, 12, FALSE, Never, {})>>
LeaseClients == {Says(g, NoClid, n, {}), Says(h, NoClid, n, {})}
NoFiles == {<<>>}
NoOptions == <<>>

(* stale_names: a lease, and a hosts file that comes to have its name.      *)
NamedClient == {Says(g, NoClid, n, {})}
OneAddress == <<DhcpRange(1, 11, 11, FALSE, 1, {})>>
NewHosts == {Unnamed, [Unnamed EXCEPT ![12] = n]}

=============================================================================
