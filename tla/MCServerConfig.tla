--------------------------- MODULE MCServerConfig ---------------------------
(* An instance of ServerConfig with nested domains in each of the three kinds
   an entry can have, a server for unqualified names and one that comes from
   resolv.conf.                                                             *)
EXTENDS ServerConfig

Entry(type, domain, kind, family, addr, resolv) ==
    [type |-> type, domain |-> domain, kind |-> kind, family |-> family,
     addr |-> addr, sfd |-> FALSE, resolv |-> resolv]

MCServerAttr ==
    [s \in Server |->
        CASE s = "all"    -> Entry("domain", <<>>, "literal", "v4", "isp53", FALSE)
          [] s = "lan"    -> Entry("domain", <<"lan">>, "noaddr", "v4", "isp53", FALSE)
          [] s = "lans"   -> Entry("domain", <<"lan">>, "real", "v4", "isp53", FALSE)
          [] s = "corp"   -> Entry("domain", <<"corp", "lan">>, "real", "v4", "corp53", FALSE)
          [] s = "corp6"  -> Entry("domain", <<"corp", "lan">>, "literal", "v6", "isp53", FALSE)
          [] s = "single" -> Entry("nodots", <<>>, "real", "v4", "isp53", FALSE)
          [] OTHER        -> Entry("plain", <<>>, "real", "v4", "isp53", TRUE)]

MCQuestions ==
    [name : {<<"lan">>, <<"host", "corp", "lan">>, <<"org">>, <<"host", "org">>},
     families : {{"v4"}, {"v4", "v6"}}, ns : {FALSE}]

MCLocalName == {<<"lan">>}

MCResolvFiles == {Unread, <<>>, <<"r1">>}

=============================================================================
