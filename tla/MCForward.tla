----------------------------- MODULE MCForward -----------------------------
(* Instances of Forward: two servers of the command line, one for the domain
   corp with a socket of its own, a local-only entry for the same domain, and
   one that comes from resolv.conf.                                         *)
EXTENDS Forward

Entry(type, domain, kind, family, addr, sfd, resolv) ==
    [type |-> type, domain |-> domain, kind |-> kind, family |-> family,
     addr |-> addr, sfd |-> sfd, resolv |-> resolv]

MCServerAttr ==
    [s \in Server |->
        CASE s = "isp"  -> Entry("plain", <<>>, "real", "v4", "isp53", FALSE, FALSE)
          [] s = "isp6" -> Entry("plain", <<>>, "real", "v6", "isp653", FALSE, FALSE)
          [] s = "corp" -> Entry("domain", <<"corp">>, "real", "v4", "corp53", TRUE, FALSE)
          [] s = "lcorp" -> Entry("domain", <<"corp">>, "noaddr", "v4", "corp53", FALSE, FALSE)
          [] OTHER      -> Entry("plain", <<>>, "real", "v4", "res53", FALSE, TRUE)]

Ask(name) == [name |-> name, families |-> {"v4"}, ns |-> FALSE]
MCAskedFor == [c \in Crc |-> CASE c = "corp" -> Ask(<<"corp">>)
                               [] c = "org"  -> Ask(<<"example", "org">>)
                               [] OTHER      -> Many]

Req(client, id, crc, signed) == [client |-> client, id |-> id, crc |-> crc, signed |-> signed]
NoName == {}

\* Two clients ask the same question, one of them signs; a third query
\* cannot be read.  There are servers of both families and one socket.
TableRequest == {Req("c1", 1, "org", FALSE), Req("c2", 2, "org", TRUE),
                 Req("c1", 2, "unknown", FALSE)}
TableServers == {<<"isp", "isp6">>}
TableOptions == {{}, {"order"}}

\* A name in corp, one that is not, and a query that cannot be read, with
\* resolv.conf's server coming and going, and its address becoming one of
\* this machine's.
DomainRequest == {Req("c1", 1, c, FALSE) : c \in {"corp", "org", "unknown"}}
DomainServers == {<<"lcorp", "corp", "r1">>, <<"corp", "r1">>}
DomainFiles   == {<<>>, <<"r1">>}
DomainOptions == {{}, {"order"}, {"all_servers", "no_poll"}}

\* One request, where resolv.conf may come and the command line's server turn
\* out to be this machine.
OneRequest == {Req("c1", 1, "org", FALSE)}
TwoServers == {<<"isp", "r1">>}
ResolvFile == {<<"r1">>}
=============================================================================
