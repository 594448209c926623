------------------------------ MODULE Servers ------------------------------
(***************************************************************************)
(* The list of upstream servers (daemon->servers) and the three functions  *)
(* that work on it without touching any other state: the search for the    *)
(* servers of a query's domain (search_servers in forward.c) and the two   *)
(* functions of network.c that rebuild the list (reload_servers,           *)
(* check_servers).                                                         *)
(*                                                                         *)
(* A server is a value of Server, the identity of its struct; what the     *)
(* struct holds is ServerAttr.  A domain name is the sequence of its       *)
(* labels, so "the name ends in the domain, on a label boundary" is        *)
(* IsSuffix, and comparing the lengths of two domains that both match one  *)
(* name is comparing their numbers of labels.                              *)
(***************************************************************************)
EXTENDS Integers, Sequences, FiniteSets, SequencesExt, Filters

CONSTANTS
    Server,        \* the servers of the command line and of resolv.conf
    ServerAttr,    \* what each one's struct holds, see ServerRecord
    Family,        \* address families (AF_INET, AF_INET6)
    Addr,          \* server and interface addresses, with their port
    Label,         \* labels of domain names
    LocalName,     \* names known from hosts, DHCP or configured records
    NoServer,      \* the null struct server pointer
    Unread         \* stands for a resolv.conf that cannot be opened

ServerRecord ==
    [type   : {"plain", "nodots", "domain"},  \* flags & SERV_TYPE
     domain : Seq(Label),                     \* <<>> is the "#" domain
     kind   : {"real", "literal", "noaddr"},  \* SERV_LITERAL_ADDRESS, SERV_NO_ADDR
     family : Family,
     addr   : Addr,
     sfd    : BOOLEAN,                        \* has a socket of its own
     resolv : BOOLEAN]                        \* SERV_FROM_RESOLV

FromResolv  == {s \in Server : ServerAttr[s].resolv}
CommandLine == Server \ FromResolv
RealServer  == {s \in Server : ServerAttr[s].kind = "real"}

(* An /etc/resolv.conf line carries an address and nothing else; an --address
   option that names no domain is refused.                                  *)
ASSUME ServersAssumption ==
    /\ NoServer \notin Server
    /\ Unread \notin Seq(FromResolv)
    /\ ServerAttr \in [Server -> ServerRecord]
    /\ \A s \in Server : ServerAttr[s].resolv =>
          ServerAttr[s].type = "plain" /\ ServerAttr[s].kind = "real"
    /\ \A s \in Server : ServerAttr[s].kind = "literal" => ServerAttr[s].type # "plain"

-----------------------------------------------------------------------------
(* search_servers *)

(* A query as extract_request sees it: the families its type asks for (both
   for ANY, none for other types), and whether it is an NS or SOA query.    *)
Question == [name : Seq(Label), families : SUBSET Family, ns : BOOLEAN]

Undotted(name) == Len(name) = 1

Unmatched == [flags |-> "none", addr |-> NoServer, type |-> "plain",
              domain |-> <<>>, matchlen |-> 0]

(* Mutant: the first literal address found is kept. *)
AnsweredFirst(s, found, q) ==
    IF ServerAttr[s].kind = "literal" /\ found.flags = "none"
    THEN [found EXCEPT !.flags = "address", !.addr = s] ELSE found

(* Mutant: a real server withdraws what a match before it answered. *)
AnsweredReset(s, found, q) ==
    CASE ServerAttr[s].kind = "noaddr" -> [found EXCEPT !.flags = "nxdomain"]
      [] ServerAttr[s].kind = "literal" -> [found EXCEPT !.flags = "address", !.addr = s]
      [] OTHER -> [found EXCEPT !.flags = "none"]

(* What a matching server does to the flags found so far: a local-only domain
   is NXDOMAIN, a literal address answers its own family and turns "nothing
   found yet" into NODATA for the other one, a real server changes nothing. *)
Answered(s, found, q) ==
    LET attr == ServerAttr[s] IN
    CASE attr.kind = "noaddr" -> [found EXCEPT !.flags = "nxdomain"]
      [] attr.kind = "literal" /\ attr.family \in q.families ->
            [found EXCEPT !.flags = "address", !.addr = s]
      [] attr.kind = "literal" /\ attr.family \notin q.families
                               /\ found.flags \in {"none", "nxdomain"} ->
            [found EXCEPT !.flags = "noerror"]
      [] OTHER -> found

NodotsMatch(s, found, q) ==
    /\ ServerAttr[s].type = "nodots"
    /\ found.type # "domain"
    /\ Undotted(q.name)

(* Mutant: any matching domain is taken, however short. *)
DomainMatchAny(s, found, q) ==
    ServerAttr[s].type = "domain" /\ IsSuffix(ServerAttr[s].domain, q.name)

DomainMatch(s, found, q) ==
    /\ ServerAttr[s].type = "domain"
    /\ IsSuffix(ServerAttr[s].domain, q.name)
    /\ Len(ServerAttr[s].domain) >= found.matchlen

Consider(s, found, q) ==
    IF NodotsMatch(s, found, q)
    THEN [Answered(s, found, q) EXCEPT !.type = "nodots"]
    ELSE IF DomainMatch(s, found, q)
    THEN [Answered(s, found, q) EXCEPT
             !.type = "domain", !.domain = ServerAttr[s].domain,
             !.matchlen = Len(ServerAttr[s].domain)]
    ELSE found

(* The whole function: one pass over the list, then --domain-needed and the
   names that exist locally with another type.                              *)
SearchServers(list, q, options) ==
    LET scanned == FoldLeft(LAMBDA found, s : Consider(s, found, q), Unmatched, list)
        needed  == IF /\ scanned.flags = "none" /\ ~q.ns
                      /\ "nodots_local" \in options /\ Undotted(q.name)
                   THEN [scanned EXCEPT !.flags = "nxdomain"] ELSE scanned
    IN  IF needed.flags = "nxdomain" /\ q.name \in LocalName
        THEN [needed EXCEPT !.flags = "noerror"] ELSE needed

(* A server takes a query whose search ended in this type and domain. *)
Eligible(s, type, domain) ==
    /\ ServerAttr[s].type = type
    /\ type = "domain" => ServerAttr[s].domain = domain
    /\ ServerAttr[s].kind # "literal"

-----------------------------------------------------------------------------
(* reload_servers and check_servers *)

(* The members of list that are in S, in the order of list. *)
KeptAt(list, S) == {i \in 1..Len(list) : list[i] \in S}
Kept(list, S)   == Sifted(list, KeptAt(list, S))

(* reload_servers walks the list and pushes the command line's servers on a
   new one, then pushes the servers of the file: both end up reversed.  It
   does nothing when the file cannot be opened.                             *)
ReloadServers(list, file) ==
    IF file = Unread THEN list
    ELSE Reverse(file) \o Reverse(Kept(list, CommandLine))

(* The servers that are gone with it, and whether it found any. *)
Replaced(list, file) == IF file = Unread THEN {} ELSE Range(list) \cap FromResolv
GotOne(file)         == file \notin {Unread, <<>>}

(* Mutant: entries without a server behind them are checked too. *)
UsableServersAll(locals) == {s \in Server : ServerAttr[s].addr \notin locals}

(* check_servers drops the real servers that are one of this machine's own
   interface addresses, and reverses what is left.                          *)
UsableServers(locals) ==
    {s \in Server : ServerAttr[s].kind = "real" => ServerAttr[s].addr \notin locals}
CheckServers(list, locals) == Reverse(Kept(list, UsableServers(locals)))

=============================================================================
