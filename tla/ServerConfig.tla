---------------------------- MODULE ServerConfig ----------------------------
(***************************************************************************)
(* The life of the server list: the command line pushes servers on it,     *)
(* start-up checks it, and from then on every change of /etc/resolv.conf   *)
(* (or SIGHUP, with --no-poll) rebuilds it, while interfaces come up.      *)
(*                                                                         *)
(* The searches made in each of the lists that can arise are compared with *)
(* a definition of what the manual promises of them.                       *)
(***************************************************************************)
EXTENDS Servers

CONSTANTS
    Questions,     \* the questions searched for, a subset of Question
    Options,       \* option bits, a subset of {"nodots_local"}
    ResolvFiles    \* contents of /etc/resolv.conf, or Unread

(* Each line of a file makes a struct of its own. *)
ASSUME ServerConfigAssumption ==
    /\ Questions \subseteq Question /\ Options \subseteq {"nodots_local"}
    /\ ResolvFiles \subseteq Seq(FromResolv) \cup {Unread}
    /\ \A file \in ResolvFiles \ {Unread} : IsInjective(file)

VARIABLES
    given,     \* the command line's servers, in its order
    list,      \* daemon->servers
    locals,    \* daemon->interfaces: the addresses of this machine
    running    \* start-up is over

vars == <<given, list, locals, running>>

Init ==
    /\ given = <<>> /\ list = <<>>
    /\ locals \in SUBSET Addr
    /\ running = FALSE

(* One --server, --local or --address option: pushed at the head. *)
AddServer(s) ==
    /\ ~running
    /\ s \notin Range(given)
    /\ given' = Append(given, s)
    /\ list' = <<s>> \o list
    /\ UNCHANGED <<locals, running>>

Start ==
    /\ ~running
    /\ running' = TRUE
    /\ list' = CheckServers(list, locals)
    /\ UNCHANGED <<given, locals>>

(* poll_resolv: check_servers only runs when the file named a server. *)
PollResolv(file) ==
    /\ running
    /\ list' = IF GotOne(file) THEN CheckServers(ReloadServers(list, file), locals)
               ELSE ReloadServers(list, file)
    /\ UNCHANGED <<given, locals, running>>

(* SIGHUP with --no-poll: check_servers runs whatever the file holds. *)
HangUp(file) ==
    /\ running
    /\ list' = CheckServers(ReloadServers(list, file), locals)
    /\ UNCHANGED <<given, locals, running>>

(* A TCP connection makes enumerate_interfaces look for new addresses. *)
NewInterface(a) ==
    /\ running
    /\ locals' = locals \cup {a}
    /\ UNCHANGED <<given, list, running>>

Next ==
    \/ \E s \in CommandLine : AddServer(s)
    \/ Start
    \/ \E file \in ResolvFiles : PollResolv(file) \/ HangUp(file)
    \/ \E a \in Addr : NewInterface(a)

Spec == Init /\ [][Next]_vars

-----------------------------------------------------------------------------
(* What the manual says of a search, without the loop of the code: the
   domain servers whose domain is the longest that the name ends in or,
   when no domain matches, the servers for unqualified names, or all the
   servers that were given no domain.                                       *)

Matching(q) == {s \in Range(list) : /\ ServerAttr[s].type = "domain"
                                    /\ IsSuffix(ServerAttr[s].domain, q.name)}
Closest(q)  == {s \in Matching(q) : \A t \in Matching(q) :
                    Len(ServerAttr[t].domain) <= Len(ServerAttr[s].domain)}
Unqualified(q) == {s \in Range(list) : ServerAttr[s].type = "nodots" /\ Undotted(q.name)}
General     == {s \in Range(list) : ServerAttr[s].type = "plain"}

Proper(q) == IF Matching(q) # {} THEN Closest(q)
             ELSE IF Unqualified(q) # {} THEN Unqualified(q) ELSE General

KindOf(S) == {ServerAttr[s].kind : s \in S}

(* The servers a query is offered to, when it is not answered on the spot,
   are exactly the real ones of the longest matching domain: the route never
   depends on the order of the list (search_servers).                       *)
LongestMatchRoute ==
    running => \A q \in Questions :
        LET found == SearchServers(list, q, Options) IN
        found.flags = "none" =>
            {s \in Range(list) : Eligible(s, found.type, found.domain)} = Proper(q)

(* "may answer queries from /etc/hosts or DHCP but should never forward
   queries on that domain": a name whose own domain has a local-only or a
   literal entry is always answered here, whatever follows it in the list.  *)
LocalNeverForwarded ==
    running => \A q \in Questions :
        KindOf(Proper(q)) \cap {"noaddr", "literal"} # {} =>
            SearchServers(list, q, Options).flags # "none"

(* A domain that only has literal addresses, one of them of a family asked
   for, is answered with an address of that domain, even when a shorter
   domain of the list answers otherwise.                                    *)
ClosestLiteralAnswers ==
    running => \A q \in Questions :
        LET literal == {s \in Proper(q) : ServerAttr[s].family \in q.families}
            found   == SearchServers(list, q, Options) IN
        KindOf(Proper(q)) = {"literal"} /\ literal # {} =>
            found.flags = "address" /\ found.addr \in literal

(* Reloading never loses, duplicates or shuffles the servers of the command
   line: those that are no address of this machine, and every local-only or
   literal entry, are listed once, in the order they were given in or in
   exactly the reverse of it.                                               *)
CommandLineKept ==
    LET kept == Kept(list, CommandLine) IN
    running => /\ \A s \in Range(given) :
                     \/ s \in Range(list)
                     \/ ServerAttr[s].kind = "real" /\ ServerAttr[s].addr \in locals
               /\ IsInjective(list)
               /\ \/ kept = Kept(given, Range(list))
                  \/ kept = Reverse(Kept(given, Range(list)))

=============================================================================
