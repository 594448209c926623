------------------------ MODULE ServerConfigProofs ------------------------
(***************************************************************************)
(* What the searches in the list of servers find, and what reloading keeps *)
(* of it, for every list, question and file.                               *)
(***************************************************************************)
EXTENDS ServerConfig, ServersProofs

-----------------------------------------------------------------------------
(* Searches *)

(* What a search of the list ends with, as what the manual promises. *)
LEMMA ScanProper ==
    ASSUME list \in Seq(Server), NEW q \in Question
    PROVE  LET found == Scan(list, q) IN
           /\ {s \in Range(list) : Eligible(s, found.type, found.domain)}
                 = {s \in Proper(q) : ServerAttr[s].kind # "literal"}
           /\ found.type # "plain" =>
                Proper(q) = {s \in Range(list) : On(s, found, q)}
           /\ found.type = "plain" => Proper(q) = General
<1> DEFINE found == Scan(list, q)
           n     == Len(list)
           routes == {s \in Range(list) : Eligible(s, found.type, found.domain)}
           on     == {s \in Range(list) : On(s, found, q)}
<1>1. found \in FoundRecord /\ LongestOf(list, n, found, q)
  BY ScanKnows
<1>2. /\ n \in Nat /\ Range(list) = {list[j] : j \in 1..n}
      /\ \A j \in 1..n : list[j] \in Range(list)
  BY DEF Range
<1>3. \A s \in Range(list) : /\ s \in Server /\ ServerAttr[s].domain \in Seq(Label)
                             /\ Len(ServerAttr[s].domain) \in Nat
                             /\ ServerAttr[s].type \in {"plain", "nodots", "domain"}
  <2>1. Range(list) \subseteq Server
    BY DEF Range
  <2>2. ServerAttr \in [Server -> ServerRecord]
    BY ServersAssumption
  <2>3. \A s \in Server : ServerAttr[s] \in ServerRecord
    BY <2>2
  <2>4. \A s \in Server : /\ ServerAttr[s].domain \in Seq(Label)
                          /\ ServerAttr[s].type \in {"plain", "nodots", "domain"}
    BY <2>3 DEF ServerRecord
  <2> QED BY <2>1, <2>4
<1> HIDE DEF found
<1>4. /\ found.type \in {"plain", "nodots", "domain"} /\ found.matchlen \in Nat
      /\ \A s \in Matching(q) : found.type = "domain"
                                /\ Len(ServerAttr[s].domain) <= found.matchlen
      /\ found.type = "domain" =>
            \E s \in Matching(q) : /\ found.domain = ServerAttr[s].domain
                                   /\ found.matchlen = Len(ServerAttr[s].domain)
      /\ found.type = "nodots" => Unqualified(q) # {}
      /\ \A s \in Unqualified(q) : found.type # "plain"
      /\ \A s \in Range(list) : InDomain(s, q) <=> s \in Matching(q)
      /\ \A s \in Range(list) : InNodots(s, q) <=> s \in Unqualified(q)
      /\ Matching(q) \subseteq Range(list) /\ Unqualified(q) \subseteq Range(list)
  <2>1. \A s \in Range(list) : InDomain(s, q) <=> s \in Matching(q)
    BY DEF InDomain, Matching
  <2>2. \A s \in Range(list) : InNodots(s, q) <=> s \in Unqualified(q)
    BY DEF InNodots, Unqualified
  <2>3. \A s \in Matching(q) : found.type = "domain"
                               /\ Len(ServerAttr[s].domain) <= found.matchlen
    BY <1>1, <1>2, <2>1 DEF LongestOf, Matching
  <2>4. found.type = "domain" =>
            \E s \in Matching(q) : /\ found.domain = ServerAttr[s].domain
                                   /\ found.matchlen = Len(ServerAttr[s].domain)
    BY <1>1, <1>2, <2>1 DEF LongestOf
  <2>5. found.type = "nodots" => Unqualified(q) # {}
    BY <1>1, <1>2, <2>2 DEF LongestOf
  <2>6. \A s \in Unqualified(q) : found.type # "plain"
    BY <1>1, <1>2, <2>2 DEF LongestOf, Unqualified
  <2>7. found.type \in {"plain", "nodots", "domain"} /\ found.matchlen \in Nat
    BY <1>1 DEF FoundRecord
  <2>8. Matching(q) \subseteq Range(list) /\ Unqualified(q) \subseteq Range(list)
    BY DEF Matching, Unqualified
  <2> QED BY <2>1, <2>2, <2>3, <2>4, <2>5, <2>6, <2>7, <2>8
<1>5. CASE found.type = "domain"
  <2>1. PICK m \in Matching(q) : /\ found.domain = ServerAttr[m].domain
                                 /\ found.matchlen = Len(ServerAttr[m].domain)
    BY <1>4, <1>5
  <2>2. Proper(q) = Closest(q)
    BY <2>1 DEF Proper
  <2>3. ASSUME NEW s \in Matching(q)
        PROVE  /\ s \in Closest(q) <=> Len(ServerAttr[s].domain) = found.matchlen
               /\ s \in Closest(q) <=> Len(ServerAttr[s].domain) >= found.matchlen
    <3>1. \A t \in Matching(q) : Len(ServerAttr[t].domain) \in Nat
                                 /\ Len(ServerAttr[t].domain) <= found.matchlen
      BY <1>3, <1>4
    <3> QED BY <1>4, <2>1, <3>1 DEF Closest
  <2>4. ASSUME NEW s \in Matching(q)
        PROVE  s \in Closest(q) <=> ServerAttr[s].domain = found.domain
    <3>1. /\ IsSuffix(ServerAttr[s].domain, q.name) /\ IsSuffix(found.domain, q.name)
          /\ ServerAttr[s].domain \in Seq(Label) /\ found.domain \in Seq(Label)
          /\ q.name \in Seq(Label)
      BY <1>3, <1>4, <2>1 DEF Matching, Question
    <3>2. Len(ServerAttr[s].domain) = found.matchlen <=> ServerAttr[s].domain = found.domain
      BY <2>1, <3>1, SuffixSame
    <3> QED BY <2>3, <3>2
  <2>5. ASSUME NEW s \in Range(list)
        PROVE  /\ s \in Closest(q) <=> ServerAttr[s].type = "domain" /\ ServerAttr[s].domain = found.domain
               /\ s \in Closest(q) <=> On(s, found, q)
    <3>1. s \in Closest(q) => s \in Matching(q)
      BY DEF Closest
    <3>2. ServerAttr[s].type = "domain" /\ ServerAttr[s].domain = found.domain => s \in Matching(q)
      BY <2>1 DEF Matching
    <3>3. s \in Matching(q) => ServerAttr[s].type = "domain"
      BY DEF Matching
    <3>4. On(s, found, q) <=> s \in Matching(q) /\ Len(ServerAttr[s].domain) >= found.matchlen
      BY <1>4, <1>5 DEF On
    <3> QED BY <2>3, <2>4, <3>1, <3>2, <3>3, <3>4
  <2>6. Closest(q) \subseteq Range(list)
    BY DEF Closest, Matching
  <2>7. routes = {s \in Proper(q) : ServerAttr[s].kind # "literal"}
    BY <1>5, <2>2, <2>5, <2>6 DEF Eligible
  <2>8. Proper(q) = on
    BY <2>2, <2>5, <2>6
  <2> QED BY <1>5, <2>7, <2>8 DEF found
<1>6. CASE found.type = "nodots"
  <2>1. Matching(q) = {} /\ Proper(q) = Unqualified(q)
    BY <1>4, <1>6 DEF Proper
  <2>2. \A s \in Range(list) : /\ s \in Unqualified(q) <=> ServerAttr[s].type = "nodots"
                               /\ s \in Unqualified(q) <=> On(s, found, q)
    <3>1. Undotted(q.name)
      BY <1>4, <1>6 DEF Unqualified
    <3>2. \A s \in Range(list) : s \in Unqualified(q) <=> ServerAttr[s].type = "nodots"
      BY <3>1 DEF Unqualified
    <3>3. \A s \in Range(list) : On(s, found, q) <=> InNodots(s, q)
      BY <1>4, <1>6, <2>1 DEF On
    <3> QED BY <1>4, <3>2, <3>3
  <2>3. routes = {s \in Proper(q) : ServerAttr[s].kind # "literal"}
    BY <1>4, <1>6, <2>1, <2>2 DEF Eligible
  <2>4. Proper(q) = on
    BY <1>4, <2>1, <2>2
  <2> QED BY <1>6, <2>3, <2>4 DEF found
<1>7. CASE found.type = "plain"
  <2>1. Proper(q) = General
    BY <1>4, <1>7 DEF Proper
  <2>2. routes = {s \in General : ServerAttr[s].kind # "literal"}
    BY <1>7 DEF Eligible, General
  <2> QED BY <1>7, <2>1, <2>2 DEF found
<1> QED
  BY <1>4, <1>5, <1>6, <1>7

(* Whatever list the search is made in, a query that is not answered on the
   spot goes to the real servers of the longest domain its name is in.      *)
THEOREM SearchLongest ==
    ASSUME list \in Seq(Server), Questions \subseteq Question
    PROVE  LongestMatchRoute
<1> SUFFICES ASSUME NEW q \in Questions, SearchServers(list, q, Options).flags = "none"
             PROVE  LET found == SearchServers(list, q, Options) IN
                    {s \in Range(list) : Eligible(s, found.type, found.domain)} = Proper(q)
  BY DEF LongestMatchRoute
<1> DEFINE found == SearchServers(list, q, Options)
           scan  == Scan(list, q)
<1>1. found.type = scan.type /\ found.domain = scan.domain /\ scan.flags = "none"
  BY SearchKeeps
<1>2. scan \in FoundRecord /\ AnswerOf(list, Len(list), scan, q)
  BY ScanKnows
<1> HIDE DEF found, scan
<1>3. /\ {s \in Range(list) : Eligible(s, scan.type, scan.domain)}
            = {s \in Proper(q) : ServerAttr[s].kind # "literal"}
      /\ scan.type # "plain" => Proper(q) = {s \in Range(list) : On(s, scan, q)}
      /\ scan.type = "plain" => Proper(q) = General
  BY ScanProper DEF scan
<1>4. ASSUME NEW s \in Proper(q) PROVE ServerAttr[s].kind # "literal"
  <2>1. CASE scan.type # "plain"
    <3>1. s \in Range(list) /\ On(s, scan, q)
      BY <1>3, <2>1
    <3>2. PICK j \in 1..Len(list) : s = list[j]
      BY <3>1 DEF Range
    <3> QED BY <1>1, <1>2, <3>1, <3>2 DEF AnswerOf
  <2>2. CASE scan.type = "plain"
    <3>1. s \in Server /\ ServerAttr[s].type = "plain"
      BY <1>3, <2>2 DEF General, Range
    <3> QED BY <3>1, ServersAssumption
  <2> QED BY <2>1, <2>2
<1> QED
  BY <1>1, <1>3, <1>4 DEF found

(* A query for a name whose domain has a local-only or a literal entry is
   never forwarded, whatever list holds the entry.                          *)
THEOREM SearchLocal ==
    ASSUME list \in Seq(Server), Questions \subseteq Question, LocalHasDomain
    PROVE  LocalNeverForwarded
<1> SUFFICES ASSUME NEW q \in Questions,
                    NEW s \in Proper(q), ServerAttr[s].kind \in {"noaddr", "literal"},
                    SearchServers(list, q, Options).flags = "none"
             PROVE  FALSE
  BY DEF LocalNeverForwarded, KindOf
<1> DEFINE scan == Scan(list, q)
<1>1. scan.flags = "none"
  BY SearchKeeps
<1>2. scan \in FoundRecord /\ AnswerOf(list, Len(list), scan, q)
  BY ScanKnows
<1>3. /\ scan.type # "plain" => Proper(q) = {x \in Range(list) : On(x, scan, q)}
      /\ scan.type = "plain" => Proper(q) = General
  BY ScanProper
<1> HIDE DEF scan
<1>4. CASE scan.type # "plain"
  <2>1. s \in Range(list) /\ On(s, scan, q)
    BY <1>3, <1>4
  <2>2. PICK j \in 1..Len(list) : s = list[j]
    BY <2>1 DEF Range
  <2> QED BY <1>1, <1>2, <2>1, <2>2 DEF AnswerOf
<1>5. CASE scan.type = "plain"
  <2>1. s \in Server /\ ServerAttr[s].type = "plain"
    BY <1>3, <1>5 DEF General, Range
  <2> QED BY <2>1, ServersAssumption DEF LocalHasDomain
<1> QED
  BY <1>4, <1>5

(* In every list, a domain of literal addresses answers with one of a family
   that is asked for.                                                       *)
THEOREM SearchLiteral ==
    ASSUME list \in Seq(Server), Questions \subseteq Question
    PROVE  ClosestLiteralAnswers
<1> SUFFICES ASSUME NEW q \in Questions, KindOf(Proper(q)) = {"literal"},
                    NEW s \in Proper(q), ServerAttr[s].family \in q.families
             PROVE  LET found == SearchServers(list, q, Options) IN
                    /\ found.flags = "address" /\ found.addr \in Proper(q)
                    /\ ServerAttr[found.addr].family \in q.families
  BY DEF ClosestLiteralAnswers
<1> DEFINE scan == Scan(list, q)
<1>1. scan \in FoundRecord /\ AnswerOf(list, Len(list), scan, q)
  BY ScanKnows
<1>2. /\ scan.type # "plain" => Proper(q) = {x \in Range(list) : On(x, scan, q)}
      /\ scan.type = "plain" => Proper(q) = General
  BY ScanProper
<1>3. \A x \in Proper(q) : ServerAttr[x].kind = "literal"
  BY DEF KindOf
<1>4. scan.flags = "address" => SearchServers(list, q, Options).flags = "address"
      /\ SearchServers(list, q, Options).addr = scan.addr
  BY SearchKeeps
<1> HIDE DEF scan
<1>5. scan.type # "plain"
  <2> SUFFICES ASSUME scan.type = "plain" PROVE FALSE
    OBVIOUS
  <2>1. s \in Server /\ ServerAttr[s].type = "plain"
    BY <1>2 DEF General, Range
  <2> QED BY <1>3, <2>1, ServersAssumption
<1>6. \A j \in 1..Len(list) : list[j] \in Range(list)
  BY DEF Range
<1>7. \A j \in 1..Len(list) : On(list[j], scan, q) => ServerAttr[list[j]].kind = "literal"
  BY <1>2, <1>3, <1>5, <1>6
<1>8. \E j \in 1..Len(list) : Wanted(list[j], scan, q)
  <2>1. s \in Range(list) /\ On(s, scan, q)
    BY <1>2, <1>5
  <2>2. PICK j \in 1..Len(list) : s = list[j]
    BY <2>1 DEF Range
  <2> QED BY <2>1, <2>2 DEF Wanted
<1>9. PICK x \in 1..Len(list) : /\ scan.flags = "address" /\ scan.addr = list[x]
                                /\ Wanted(list[x], scan, q)
  BY <1>1, <1>7, <1>8 DEF AnswerOf
<1>10. list[x] \in Proper(q) /\ ServerAttr[list[x]].family \in q.families
  BY <1>2, <1>5, <1>6, <1>9 DEF Wanted
<1> QED
  BY <1>4, <1>9, <1>10

-----------------------------------------------------------------------------
(* Reloading *)

(* The command line's servers that are in l are in the order they were given
   in, or in the reverse of it.                                             *)
Ordered(l) == \/ Kept(l, CommandLine) = Kept(given, Range(l))
              \/ Kept(l, CommandLine) = Reverse(Kept(given, Range(l)))

GivenOK == given \in Seq(Server) /\ Range(given) \subseteq CommandLine /\ IsInjective(given)

ListOK(l) == l \in Seq(Server) /\ IsInjective(l) /\ Ordered(l)

(* Every server of the command line is in l, or is one of this machine's own
   addresses to send queries to.                                            *)
AllIn(l) == \A s \in Range(given) :
               s \in Range(l) \/ (ServerAttr[s].kind = "real" /\ ServerAttr[s].addr \in locals)

CInv ==
    /\ GivenOK /\ ListOK(list) /\ AllIn(list)
    /\ ~running => list = Reverse(given)

(* Keeping of a list that is in order what a set has is in order. *)
LEMMA KeptOrdered ==
    ASSUME GivenOK, NEW l \in Seq(Server), Ordered(l), NEW S
    PROVE  Ordered(Kept(l, S))
<1> DEFINE new == Kept(l, S)
           here == Kept(given, Range(l))
<1>1. Range(new) = Range(l) \cap S
  BY KeptRange
<1>2. Kept(new, CommandLine) = Kept(Kept(l, CommandLine), S)
  <2>1. Kept(new, CommandLine) = Kept(l, S \cap CommandLine)
    BY KeptTwice
  <2>2. Kept(Kept(l, CommandLine), S) = Kept(l, CommandLine \cap S)
    BY KeptTwice
  <2>3. S \cap CommandLine = CommandLine \cap S
    OBVIOUS
  <2> QED BY <2>1, <2>2, <2>3
<1>3. Kept(here, S) = Kept(given, Range(new))
  BY <1>1, KeptTwice DEF GivenOK
<1>4. here \in Seq(Server)
  <2>1. Kept(given, Range(l)) \in Seq(Server \cap Range(l))
    BY KeptType DEF GivenOK
  <2> HIDE DEF here
  <2> QED BY <2>1 DEF here
<1> HIDE DEF new, here
<1>5. CASE Kept(l, CommandLine) = here
  BY <1>2, <1>3, <1>5 DEF Ordered, new
<1>6. CASE Kept(l, CommandLine) = Reverse(here)
  <2>1. Kept(Reverse(here), S) = Reverse(Kept(here, S))
    BY <1>4, KeptReverse
  <2> QED BY <1>2, <1>3, <1>6, <2>1 DEF Ordered, new
<1> QED
  BY <1>5, <1>6 DEF Ordered, here

(* Reversing a list that is in order gives one. *)
LEMMA ReverseOrdered ==
    ASSUME GivenOK, NEW l \in Seq(Server), Ordered(l)
    PROVE  Ordered(Reverse(l))
<1> DEFINE new  == Reverse(l)
           here == Kept(given, Range(l))
<1>1. Range(new) = Range(l)
  BY ReverseRange
<1>2. Kept(new, CommandLine) = Reverse(Kept(l, CommandLine))
  BY KeptReverse
<1>3. Reverse(Reverse(here)) = here
  <2>1. Kept(given, Range(l)) \in Seq(Server \cap Range(l))
    BY KeptType DEF GivenOK
  <2> QED BY <2>1, ReverseTwice
<1> HIDE DEF new, here
<1> QED
  BY <1>1, <1>2, <1>3 DEF Ordered, new, here

(* reload_servers keeps the command line's servers, in order. *)
LEMMA ReloadOK ==
    ASSUME GivenOK, NEW l, ListOK(l), AllIn(l), NEW file \in ResolvFiles
    PROVE  ListOK(ReloadServers(l, file)) /\ AllIn(ReloadServers(l, file))
<1> SUFFICES ASSUME file # Unread
             PROVE  ListOK(ReloadServers(l, file)) /\ AllIn(ReloadServers(l, file))
  BY DEF ReloadServers
<1> DEFINE kept == Kept(l, CommandLine)
           old  == Reverse(kept)
           new  == Reverse(file)
<1>1. l \in Seq(Server) /\ file \in Seq(FromResolv) /\ IsInjective(file) /\ IsInjective(l)
  BY ServerConfigAssumption DEF ListOK
<1>2. kept \in Seq(Server) /\ Range(kept) = Range(l) \cap CommandLine /\ IsInjective(kept)
  <2>1. Kept(l, CommandLine) \in Seq(Server \cap CommandLine)
    BY <1>1, KeptType
  <2>2. Range(Kept(l, CommandLine)) = Range(l) \cap CommandLine
    BY <1>1, KeptRange
  <2>3. IsInjective(Kept(l, CommandLine))
    BY <1>1, KeptInjective
  <2> HIDE DEF kept
  <2> QED BY <2>1, <2>2, <2>3 DEF kept
<1> HIDE DEF kept
<1>3. old \in Seq(Server) /\ Range(old) = Range(l) \cap CommandLine /\ IsInjective(old)
  BY <1>2, ReverseType, ReverseRange, ReverseInjective
<1>4. new \in Seq(Server) /\ Range(new) \subseteq FromResolv /\ IsInjective(new)
      /\ Range(new) = Range(file)
  <2>1. new \in Seq(FromResolv) /\ Range(new) = Range(file) /\ IsInjective(new)
    BY <1>1, ReverseType, ReverseRange, ReverseInjective
  <2>2. Range(file) \subseteq FromResolv
    BY <1>1 DEF Range
  <2>3. FromResolv \subseteq Server
    BY DEF FromResolv
  <2> HIDE DEF new
  <2> QED BY <2>1, <2>2, <2>3
<1>5. ReloadServers(l, file) = new \o old
  BY DEF ReloadServers, old, new, kept
<1> HIDE DEF old, new
<1>6. Range(new) \cap CommandLine = {} /\ Range(old) \subseteq CommandLine
  BY <1>3, <1>4 DEF CommandLine
<1>7. new \o old \in Seq(Server) /\ IsInjective(new \o old)
  <2>1. Range(new) \cap Range(old) = {}
    BY <1>6
  <2> QED BY <1>3, <1>4, <2>1, JoinInjective
<1>8. Range(new \o old) = Range(file) \cup (Range(l) \cap CommandLine)
  BY <1>1, <1>5, ReloadServersRange
<1>9. Kept(new \o old, CommandLine) = old
  BY <1>3, <1>4, <1>6, KeptBehind
<1>10. Kept(given, Range(new \o old)) = Kept(given, Range(l))
  <2>1. \A s \in Range(given) : s \in Range(new \o old) <=> s \in Range(l)
    BY <1>4, <1>8 DEF GivenOK, CommandLine
  <2> QED BY <2>1, KeptSame DEF GivenOK
<1>11. Ordered(new \o old)
  <2> DEFINE here == Kept(given, Range(l))
  <2>1. Reverse(Reverse(here)) = here
    <3>1. Kept(given, Range(l)) \in Seq(Server \cap Range(l))
      BY KeptType DEF GivenOK
    <3> QED BY <3>1, ReverseTwice
  <2>2. kept = here \/ kept = Reverse(here)
    BY DEF ListOK, Ordered, kept
  <2>3. old = Reverse(here) \/ old = here
    BY <2>1, <2>2 DEF old
  <2> HIDE DEF here
  <2>4. Kept(given, Range(new \o old)) = here
    BY <1>10 DEF here
  <2> QED BY <1>9, <2>3, <2>4 DEF Ordered
<1>12. AllIn(new \o old)
  BY <1>8 DEF AllIn, GivenOK
<1> QED
  BY <1>5, <1>7, <1>11, <1>12 DEF ListOK

(* check_servers only drops servers at this machine's addresses. *)
LEMMA CheckOK ==
    ASSUME GivenOK, NEW l, ListOK(l), AllIn(l)
    PROVE  ListOK(CheckServers(l, locals)) /\ AllIn(CheckServers(l, locals))
<1> DEFINE usable == UsableServers(locals)
           kept   == Kept(l, usable)
           new    == Reverse(kept)
<1>1. l \in Seq(Server) /\ IsInjective(l) /\ Ordered(l)
  BY DEF ListOK
<1>2. kept \in Seq(Server) /\ IsInjective(kept) /\ Ordered(kept)
  <2>1. Kept(l, usable) \in Seq(Server \cap usable)
    BY <1>1, KeptType
  <2>2. IsInjective(Kept(l, usable)) /\ Ordered(Kept(l, usable))
    BY <1>1, KeptInjective, KeptOrdered
  <2> HIDE DEF kept, usable
  <2> QED BY <2>1, <2>2 DEF kept
<1>3. new = CheckServers(l, locals)
  BY DEF CheckServers
<1> HIDE DEF kept
<1>4. new \in Seq(Server) /\ IsInjective(new) /\ Ordered(new)
  BY <1>2, ReverseType, ReverseInjective, ReverseOrdered
<1> HIDE DEF new
<1>5. Range(new) = Range(l) \cap UsableServers(locals)
  BY <1>1, <1>3, CheckServersRange
<1>6. AllIn(new)
  <2> SUFFICES ASSUME NEW s \in Range(given), s \notin Range(new)
               PROVE  ServerAttr[s].kind = "real" /\ ServerAttr[s].addr \in locals
    BY DEF AllIn
  <2>1. CASE s \in Range(l)
    <3>1. s \in Server
      BY <1>1, <2>1 DEF Range
    <3>2. s \notin UsableServers(locals)
      BY <1>5, <2>1
    <3> QED BY <3>1, <3>2 DEF UsableServers
  <2>2. CASE s \notin Range(l)
    BY <2>2 DEF AllIn
  <2> QED BY <2>1, <2>2
<1> QED
  BY <1>3, <1>4, <1>6 DEF ListOK

(* Nothing is given before the first option. *)
LEMMA CInvInit == Init => CInv
<1> SUFFICES ASSUME Init PROVE CInv
  OBVIOUS
<1>1. given = <<>> /\ list = <<>> /\ Range(<<>>) = {}
  BY DEF Init, Range
<1>2. <<>> \in Seq(Server) /\ IsInjective(<<>>) /\ Reverse(<<>>) = <<>>
  BY DEF IsInjective, Reverse
<1>3. Kept(<<>>, CommandLine) = <<>> /\ Kept(<<>>, {}) = <<>>
  BY <1>1, <1>2, KeptAll
<1>4. GivenOK /\ AllIn(list)
  BY <1>1, <1>2 DEF GivenOK, AllIn
<1>5. ListOK(list)
  BY <1>1, <1>2, <1>3 DEF ListOK, Ordered
<1> QED
  BY <1>1, <1>2, <1>4, <1>5 DEF CInv

(* One more option. *)
LEMMA AddServerOK ==
    ASSUME CInv, NEW s \in CommandLine, AddServer(s)
    PROVE  CInv'
<1>1. /\ ~running /\ s \notin Range(given) /\ given' = Append(given, s)
      /\ list' = <<s>> \o list /\ locals' = locals /\ running' = running
      /\ list = Reverse(given)
  BY DEF CInv, AddServer
<1>2. s \in Server /\ given \in Seq(Server) /\ list \in Seq(Server)
      /\ Range(given) \subseteq CommandLine /\ IsInjective(given) /\ IsInjective(list)
  BY DEF CInv, GivenOK, ListOK, CommandLine
<1> DEFINE n == Len(given)
<1>3. n \in Nat /\ DOMAIN given = 1..n /\ list = [i \in 1..n |-> given[n - i + 1]]
      /\ Len(list) = n /\ given' \in Seq(Server) /\ list' \in Seq(Server)
  BY <1>1, <1>2 DEF Reverse
<1>4. /\ Len(given') = n + 1 /\ DOMAIN given' = 1..(n + 1)
      /\ \A i \in 1..n : given'[i] = given[i]
      /\ given'[n + 1] = s
  BY <1>1, <1>2
<1>5. /\ Len(list') = n + 1 /\ list'[1] = s /\ DOMAIN list' = 1..(n + 1)
      /\ \A i \in 2..(n + 1) : list'[i] = given[n + 1 - i + 1]
  <2>1. Len(list') = n + 1 /\ DOMAIN list' = 1..(n + 1)
    BY <1>1, <1>2, <1>3
  <2>2. list'[1] = s
    BY <1>1, <1>2
  <2>3. ASSUME NEW i \in 2..(n + 1) PROVE list'[i] = given[n + 1 - i + 1]
    <3>1. i - 1 \in 1..n /\ n - (i - 1) + 1 = n + 1 - i + 1
      BY <1>3
    <3>2. list'[i] = list[i - 1]
      BY <1>1, <1>2, <1>3, <3>1
    <3>3. list[i - 1] = given[n - (i - 1) + 1]
      BY <1>3, <3>1
    <3> QED BY <3>1, <3>2, <3>3
  <2> QED BY <2>1, <2>2, <2>3
<1>6. list' = Reverse(given')
  <2>1. Reverse(given') = [i \in 1..(n + 1) |-> given'[n + 1 - i + 1]]
    BY <1>4 DEF Reverse
  <2>2. list' = [i \in 1..(n + 1) |-> list'[i]]
    BY <1>3, <1>5
  <2>3. ASSUME NEW i \in 1..(n + 1) PROVE list'[i] = given'[n + 1 - i + 1]
    <3>1. CASE i = 1
      <4>1. n + 1 - 1 + 1 = n + 1
        BY <1>3
      <4> QED BY <1>4, <1>5, <3>1, <4>1
    <3>2. CASE i # 1
      <4>1. i \in 2..(n + 1) /\ n + 1 - i + 1 \in 1..n
        BY <1>3, <3>2
      <4> QED BY <1>4, <1>5, <4>1
    <3> QED BY <3>1, <3>2
  <2> QED BY <2>1, <2>2, <2>3
<1>7. \A i \in 1..n : given[i] \in Range(given)
  BY <1>3 DEF Range
<1>8. IsInjective(given')
  <2> SUFFICES ASSUME NEW i \in 1..(n + 1), NEW j \in 1..(n + 1), given'[i] = given'[j]
               PROVE  i = j
    BY <1>4 DEF IsInjective
  <2>1. CASE i \in 1..n /\ j \in 1..n
    <3>1. given[i] = given[j]
      BY <1>4, <2>1
    <3> QED BY <1>2, <1>3, <2>1, <3>1 DEF IsInjective
  <2>2. CASE i \notin 1..n
    <3>1. i = n + 1 /\ given'[j] = s
      BY <1>3, <1>4, <2>2
    <3>2. j \notin 1..n
      BY <1>1, <1>4, <1>7, <3>1
    <3> QED BY <1>3, <3>1, <3>2
  <2>3. CASE j \notin 1..n
    <3>1. j = n + 1 /\ given'[i] = s
      BY <1>3, <1>4, <2>3
    <3>2. i \notin 1..n
      BY <1>1, <1>4, <1>7, <3>1
    <3> QED BY <1>3, <3>1, <3>2
  <2> QED BY <2>1, <2>2, <2>3
<1>9. Range(given') \subseteq CommandLine
  <2> SUFFICES ASSUME NEW i \in 1..(n + 1) PROVE given'[i] \in CommandLine
    BY <1>4 DEF Range
  <2>1. i \in 1..n \/ i = n + 1
    BY <1>3
  <2> QED BY <1>2, <1>4, <1>7, <2>1
<1>10. GivenOK'
  BY <1>3, <1>8, <1>9 DEF GivenOK, Range
<1>11. Range(list') = Range(given') /\ IsInjective(list')
  BY <1>3, <1>6, <1>8, ReverseRange, ReverseInjective
<1>12. Kept(given', CommandLine) = given' /\ Kept(given', Range(given')) = given'
  BY <1>3, <1>9, KeptAll
<1>13. Kept(list', CommandLine) = Reverse(given')
  BY <1>3, <1>6, <1>12, KeptReverse
<1>14. (Ordered(list))'
  BY <1>11, <1>12, <1>13 DEF Ordered
<1>15. (ListOK(list))'
  BY <1>3, <1>11, <1>14 DEF ListOK
<1>16. (AllIn(list))'
  BY <1>11 DEF AllIn, Range
<1> QED
  BY <1>6, <1>10, <1>15, <1>16 DEF CInv

(* The invariant is inductive. *)
THEOREM ConfigStep == CInv /\ [Next]_vars => CInv'
<1> SUFFICES ASSUME CInv, [Next]_vars PROVE CInv'
  OBVIOUS
<1>1. ASSUME NEW s \in CommandLine, AddServer(s) PROVE CInv'
  BY <1>1, AddServerOK
<1>2. ASSUME NEW l, ListOK(l), AllIn(l), list' = l, running',
             UNCHANGED <<given, locals>>
      PROVE  CInv'
  <2>1. GivenOK'
    BY <1>2 DEF CInv, GivenOK, Range
  <2>2. (Ordered(list))' /\ (AllIn(list))'
    BY <1>2 DEF ListOK, Ordered, AllIn
  <2> QED BY <1>2, <2>1, <2>2 DEF CInv, ListOK
<1>3. GivenOK /\ ListOK(list) /\ AllIn(list)
  BY DEF CInv
<1>4. CASE Start
  <2>1. ListOK(CheckServers(list, locals)) /\ AllIn(CheckServers(list, locals))
    BY <1>3, CheckOK
  <2> QED BY <1>2, <1>4, <2>1 DEF Start
<1>5. ASSUME NEW file \in ResolvFiles, PollResolv(file) \/ HangUp(file) PROVE CInv'
  <2> DEFINE reloaded == ReloadServers(list, file)
             checked  == CheckServers(reloaded, locals)
  <2>1. ListOK(reloaded) /\ AllIn(reloaded)
    BY <1>3, ReloadOK
  <2>2. ListOK(checked) /\ AllIn(checked)
    <3> HIDE DEF reloaded
    <3> QED BY <1>3, <2>1, CheckOK
  <2>3. /\ list' = reloaded \/ list' = checked
        /\ running' /\ UNCHANGED <<given, locals>>
    BY <1>5 DEF PollResolv, HangUp
  <2> HIDE DEF reloaded, checked
  <2> QED BY <1>2, <2>1, <2>2, <2>3
<1>6. ASSUME NEW a \in Addr, NewInterface(a) PROVE CInv'
  <2>1. /\ running /\ locals' = locals \cup {a} /\ UNCHANGED <<given, list, running>>
    BY <1>6 DEF NewInterface
  <2>2. GivenOK' /\ (Ordered(list))' /\ (AllIn(list))'
    BY <1>3, <2>1 DEF GivenOK, ListOK, Ordered, AllIn
  <2> QED BY <1>3, <2>1, <2>2 DEF CInv, ListOK
<1>7. CASE UNCHANGED vars
  <2>1. GivenOK' /\ (Ordered(list))' /\ (AllIn(list))'
    BY <1>3, <1>7 DEF vars, GivenOK, ListOK, Ordered, AllIn
  <2> QED BY <1>3, <1>7, <2>1 DEF vars, CInv, ListOK
<1> QED
  BY <1>1, <1>4, <1>5, <1>6, <1>7 DEF Next

(* So it holds at all times. *)
THEOREM ConfigInvariant == Spec => []CInv
<1>1. Init => CInv
  BY CInvInit
<1>2. CInv /\ [Next]_vars => CInv'
  BY ConfigStep
<1> QED
  BY <1>1, <1>2, PTL DEF Spec

(* Whatever is reloaded, however often, the servers of the command line stay
   in the list, once each, and in order.                                    *)
THEOREM ConfigCommandLineKept == Spec => []CommandLineKept
<1>1. CInv => CommandLineKept
  BY DEF CInv, ListOK, Ordered, AllIn, CommandLineKept
<1> QED
  BY <1>1, ConfigInvariant, PTL

(* So what holds of the search in every list holds at all times: the longest
   domain that matches decides which servers are asked ...                  *)
THEOREM ConfigLongestMatch == Spec => []LongestMatchRoute
<1>1. CInv => LongestMatchRoute
  BY SearchLongest, ServerConfigAssumption DEF CInv, ListOK
<1> QED
  BY <1>1, ConfigInvariant, PTL

(* ... a name of a local domain is never asked for outside ...              *)
THEOREM ConfigLocal == ASSUME LocalHasDomain PROVE Spec => []LocalNeverForwarded
<1>1. CInv => LocalNeverForwarded
  BY SearchLocal, ServerConfigAssumption DEF CInv, ListOK
<1> QED
  BY <1>1, ConfigInvariant, PTL

(* ... and literal addresses of the closest domain are the answer.          *)
THEOREM ConfigLiteral == Spec => []ClosestLiteralAnswers
<1>1. CInv => ClosestLiteralAnswers
  BY SearchLiteral, ServerConfigAssumption DEF CInv, ListOK
<1> QED
  BY <1>1, ConfigInvariant, PTL

=============================================================================
