------------------------------ MODULE Contents ------------------------------
(***************************************************************************)
(* What the DNS cache promises, without its lists: a set of facts of       *)
(* upstream servers and a set of facts of /etc/hosts and the leases.  The  *)
(* cache may forget what upstream servers said at any time.  It learns a   *)
(* reply as a whole or not at all, the reply replaces what was known of    *)
(* its names and addresses, and it never speaks against a local fact.      *)
(***************************************************************************)
EXTENDS FiniteSets

CONSTANTS
    Learnable,     \* for each reply, the set of its facts
    LocalFacts     \* the facts of some file or lease

VARIABLES upstream, local

Family == {"v4", "v6"}

(* Facts about one name that do not stand together: for the same family,
   or one of them a CNAME.                                                  *)
SameName(f, g) ==
    /\ "forward" \in f.flags \cap g.flags /\ f.name = g.name
    /\ f.flags \cap g.flags \cap Family # {} \/ "cname" \in f.flags \cup g.flags

SameAddress(f, g) ==
    "reverse" \in f.flags \cap g.flags /\ f.addr = g.addr /\ f.flags \cap g.flags \cap Family # {}

Apart(ups, locals) == \A u \in ups, l \in locals : ~SameName(u, l)

Init == upstream = {} /\ local = {}

Forget == upstream' \subseteq upstream /\ local' \subseteq local

Learn(facts) ==
    /\ Apart(facts, local) /\ facts \subseteq upstream'
    /\ upstream' \ facts \subseteq
          {u \in upstream : \A f \in facts : ~SameName(u, f) /\ ~SameAddress(u, f)}
    /\ local' \subseteq local

Reread ==
    /\ local' \subseteq LocalFacts /\ upstream' \subseteq upstream /\ Apart(upstream', local')

Next == Forget \/ (\E facts \in Learnable : Learn(facts)) \/ Reread

Spec == Init /\ [][Next]_<<upstream, local>>

=============================================================================
