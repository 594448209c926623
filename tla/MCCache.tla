------------------------------- MODULE MCCache -------------------------------
(* Small caches for TLC: three names and two addresses, one family each. *)
EXTENDS Cache

CONSTANTS a, b, c, x, y

Cname(name, goal) == [flags |-> {"forward", "cname"}, name |-> name, addr |-> NoAddr,
                      goal |-> goal, ttl |-> 1]
Address(name, addr, ttl) == [flags |-> {"forward", "v4"}, name |-> name, addr |-> addr,
                             goal |-> NoName, ttl |-> ttl]
Address6(name, addr) == [flags |-> {"forward", "v6"}, name |-> name, addr |-> addr,
                         goal |-> NoName, ttl |-> 1]
NoData(name) == [flags |-> {"forward", "neg", "v4"}, name |-> name, addr |-> NoAddr,
                 goal |-> NoName, ttl |-> 1]
Ptr(addr, name) == [flags |-> {"reverse", "v4"}, name |-> name, addr |-> addr,
                    goal |-> NoName, ttl |-> 1]

NoPtr(addr) == [flags |-> {"reverse", "neg", "v4"}, name |-> NoName, addr |-> addr,
                goal |-> NoName, ttl |-> 1]

(* What upstream servers say; b and a are each a CNAME of the other in some. *)
MCReplies ==
    { <<Cname(a, b), Address(b, y, 1)>>,
      <<Cname(b, a), Address(a, x, 1)>>,
      <<Cname(a, b), NoData(b)>>,
      <<Cname(a, b), Cname(b, c)>>,
      <<Address(b, x, 1), Address(b, y, 1)>>,
      <<Address(a, x, 0)>>,
      <<NoData(b)>>,
      <<Address6(b, y)>>,
      <<Ptr(x, b)>>,
      <<NoPtr(x)>> }

(* Only what makes cycles, and two CNAMEs in one reply. *)
MCCnameReplies ==
    { <<Cname(a, b), Address(b, y, 1)>>,
      <<Cname(b, a), Address(a, x, 1)>>,
      <<Cname(a, b), Cname(b, c), Address(c, x, 1)>>,
      <<Cname(b, c), Cname(c, a)>>,
      <<Cname(a, c), Address(c, y, 0)>>,
      <<Address(c, y, 1)>> }

Line(addr, names) == [addr |-> addr, family |-> "v4", names |-> names]
Line6(addr, names) == [addr |-> addr, family |-> "v6", names |-> names]
MCHostsFiles == { <<>>, <<Line(x, <<>>), Line(x, <<a>>)>>, <<Line(x, <<b, a>>), Line(y, <<b, a>>)>>,
                  <<Line6(y, <<b>>)>> }

NoHosts == {<<>>}

Lease(name, addr, ttl) == [name |-> name, addr |-> addr, ttl |-> ttl]
MCLeaseLists == { <<>>, <<Lease(b, y, 1)>>, <<Lease(a, x, 0), Lease(b, x, 0)>> }

(* Two tables: of one chain, and of two. *)
MCHash == [size \in 1..2 |-> [n \in AnyName |-> IF size = 2 /\ n \in {b, c} THEN 2 ELSE 1]]

=============================================================================
