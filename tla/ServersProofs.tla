--------------------------- MODULE ServersProofs ---------------------------
(***************************************************************************)
(* What reload_servers and check_servers make of the list of servers, for  *)
(* every list: they keep the servers they are to keep, and no others.      *)
(***************************************************************************)
EXTENDS Servers, InductionLemmas

-----------------------------------------------------------------------------
(* Kept *)

(* Kept sifts some of the places of a list. *)
LEMMA KeptAtType ==
    ASSUME NEW list \in Seq(Server), NEW S
    PROVE  (\A x \in KeptAt(list, S) : x \in Nat) /\ IsFiniteSet(KeptAt(list, S))
<1> DEFINE n == Len(list)
<1>1. n \in Nat /\ KeptAt(list, S) \in SUBSET (1..n) /\ \A x \in KeptAt(list, S) : x \in Nat
  BY DEF KeptAt
<1> HIDE DEF n
<1>2. IsFiniteSet(1..n)
  BY <1>1, FS_Interval
<1> QED
  BY <1>1, <1>2, FS_Subset

(* p lists the places of list that are kept, in order. *)
Places(p, m, list, S) == Listed(p, m, KeptAt(list, S))

(* The places that are kept can be listed. *)
LEMMA PlacesListed ==
    ASSUME NEW list \in Seq(Server), NEW S
    PROVE  \E m \in Nat : \E p : Places(p, m, list, S)
BY KeptAtType, PlacesExist DEF Places

(* Kept takes the places in order, however they are listed. *)
LEMMA KeptPlaces ==
    ASSUME NEW list \in Seq(Server), NEW S, NEW m \in Nat, NEW p, Places(p, m, list, S)
    PROVE  Kept(list, S) = [j \in 1..m |-> list[p[j]]]
BY KeptAtType, SiftedPlaces DEF Places, Kept

(* Kept is a list of the servers it is to keep. *)
LEMMA KeptType ==
    ASSUME NEW list \in Seq(Server), NEW S
    PROVE  Kept(list, S) \in Seq(Server \cap S)
<1>1. PICK m \in Nat : \E p : Places(p, m, list, S)
  BY PlacesListed
<1>2. PICK p : Places(p, m, list, S)
  BY <1>1
<1>3. Kept(list, S) = [j \in 1..m |-> list[p[j]]]
  BY <1>2, KeptPlaces
<1>4. \A j \in 1..m : list[p[j]] \in Server \cap S
  BY <1>2 DEF Places, Listed, KeptAt
<1> QED
  BY <1>3, <1>4

(* Kept keeps every server it is to keep. *)
LEMMA KeptRange ==
    ASSUME NEW list \in Seq(Server), NEW S
    PROVE  Range(Kept(list, S)) = Range(list) \cap S
<1>1. PICK m \in Nat : \E p : Places(p, m, list, S)
  BY PlacesListed
<1>2. PICK p : Places(p, m, list, S)
  BY <1>1
<1>3. Kept(list, S) = [j \in 1..m |-> list[p[j]]]
  BY <1>2, KeptPlaces
<1>4. {p[j] : j \in 1..m} = {i \in 1..Len(list) : list[i] \in S}
  BY <1>2 DEF Places, Listed, KeptAt
<1>5. ASSUME NEW x \in Range(list) \cap S PROVE x \in Range(Kept(list, S))
  <2>1. PICK i \in 1..Len(list) : x = list[i]
    BY DEF Range
  <2>2. PICK j \in 1..m : i = p[j]
    BY <1>4, <2>1
  <2> QED BY <1>3, <2>1, <2>2 DEF Range
<1>6. ASSUME NEW x \in Range(Kept(list, S)) PROVE x \in Range(list) \cap S
  <2>1. PICK j \in 1..m : x = list[p[j]]
    BY <1>3 DEF Range
  <2>2. p[j] \in 1..Len(list) /\ list[p[j]] \in S
    BY <1>4
  <2> QED BY <2>1, <2>2 DEF Range
<1> QED
  BY <1>5, <1>6

(* reload_servers makes a list of servers of one list and a file. *)
THEOREM ReloadServersType ==
    ASSUME NEW list \in Seq(Server), NEW file \in Seq(FromResolv) \cup {Unread}
    PROVE  ReloadServers(list, file) \in Seq(Server)
<1> SUFFICES ASSUME file # Unread PROVE ReloadServers(list, file) \in Seq(Server)
  BY DEF ReloadServers
<1>1. Reverse(Kept(list, CommandLine)) \in Seq(Server)
  <2>1. Kept(list, CommandLine) \in Seq(Server)
    <3>1. Kept(list, CommandLine) \in Seq(Server \cap CommandLine)
      BY KeptType
    <3> QED BY <3>1
  <2> QED BY <2>1, ReverseType
<1>2. Reverse(file) \in Seq(Server)
  <2>1. file \in Seq(Server)
    BY DEF FromResolv
  <2> QED BY <2>1, ReverseType
<1> QED
  BY <1>1, <1>2 DEF ReloadServers

(* check_servers makes a list of usable servers: none is an address of this
   machine, if it is one to send queries to.                                *)
THEOREM CheckServersType ==
    ASSUME NEW list \in Seq(Server), NEW locals
    PROVE  CheckServers(list, locals) \in Seq(Server \cap UsableServers(locals))
BY KeptType, ReverseType DEF CheckServers

(* A file that cannot be opened leaves reload_servers' list as it was.  After
   one that was read, the list holds the servers of the file and exactly the
   command line's of those it held: none of them is lost with the others.   *)
THEOREM ReloadServersRange ==
    ASSUME NEW list \in Seq(Server), NEW file \in Seq(FromResolv) \cup {Unread}
    PROVE  IF file = Unread THEN ReloadServers(list, file) = list
           ELSE Range(ReloadServers(list, file)) = Range(file) \cup (Range(list) \cap CommandLine)
<1> SUFFICES ASSUME file # Unread
             PROVE  Range(ReloadServers(list, file))
                       = Range(file) \cup (Range(list) \cap CommandLine)
  BY DEF ReloadServers
<1> DEFINE old == Reverse(Kept(list, CommandLine))
           new == Reverse(file)
<1>1. Kept(list, CommandLine) \in Seq(Server \cap CommandLine)
  BY KeptType
<1>2. old \in Seq(Server \cap CommandLine) /\ Range(old) = Range(list) \cap CommandLine
  BY <1>1, ReverseType, ReverseRange, KeptRange
<1>3. new \in Seq(FromResolv) /\ Range(new) = Range(file)
  BY ReverseType, ReverseRange
<1> HIDE DEF old, new
<1>4. Range(new \o old) = Range(new) \cup Range(old)
  <2>1. new \in Seq(Server) /\ old \in Seq(Server)
    BY <1>2, <1>3 DEF FromResolv
  <2>2. /\ DOMAIN (new \o old) = 1..(Len(new) + Len(old))
        /\ \A i \in 1..Len(new) : (new \o old)[i] = new[i]
        /\ \A i \in 1..Len(old) : (new \o old)[Len(new) + i] = old[i]
        /\ Len(new) \in Nat /\ Len(old) \in Nat
        /\ DOMAIN new = 1..Len(new) /\ DOMAIN old = 1..Len(old)
    BY <2>1
  <2>3. ASSUME NEW x \in Range(new) PROVE x \in Range(new \o old)
    BY <2>2 DEF Range
  <2>4. ASSUME NEW x \in Range(old) PROVE x \in Range(new \o old)
    <3>1. PICK i \in 1..Len(old) : x = old[i]
      BY <2>2 DEF Range
    <3>2. Len(new) + i \in DOMAIN (new \o old) /\ (new \o old)[Len(new) + i] = x
      BY <2>2, <3>1
    <3> QED BY <3>2 DEF Range
  <2>5. ASSUME NEW x \in Range(new \o old) PROVE x \in Range(new) \cup Range(old)
    <3>1. PICK k \in 1..(Len(new) + Len(old)) : x = (new \o old)[k]
      BY <2>2 DEF Range
    <3>2. CASE k <= Len(new)
      BY <2>2, <3>1, <3>2 DEF Range
    <3>3. CASE k > Len(new)
      <4>1. k - Len(new) \in 1..Len(old) /\ x = old[k - Len(new)]
        <5>1. k - Len(new) \in 1..Len(old) /\ Len(new) + (k - Len(new)) = k
          BY <2>2, <3>3
        <5> QED BY <2>2, <3>1, <5>1
      <4> QED BY <2>2, <4>1 DEF Range
    <3> QED BY <2>2, <3>2, <3>3
  <2> QED
    BY <2>3, <2>4, <2>5
<1> QED
  BY <1>2, <1>3, <1>4 DEF ReloadServers, old, new

(* After check_servers the list holds exactly the usable of its servers. *)
THEOREM CheckServersRange ==
    ASSUME NEW list \in Seq(Server), NEW locals
    PROVE  Range(CheckServers(list, locals)) = Range(list) \cap UsableServers(locals)
<1>1. Kept(list, UsableServers(locals)) \in Seq(Server \cap UsableServers(locals))
  BY KeptType
<1> QED
  BY <1>1, ReverseRange, KeptRange DEF CheckServers

-----------------------------------------------------------------------------
(* The search *)

(* A local-only entry names a domain, or the unqualified names.  (--server=
   with neither leaves an entry with port 0, to which sendto never succeeds.) *)
LocalHasDomain ==
    \A s \in Server : ServerAttr[s].kind = "noaddr" => ServerAttr[s].type # "plain"

(* The pass over the list, without what is done with its result. *)
Scan(list, q) == FoldLeft(LAMBDA found, s : Consider(s, found, q), Unmatched, list)

FoundRecord == [flags : {"none", "nxdomain", "noerror", "address"},
                addr : Server \cup {NoServer}, type : {"plain", "nodots", "domain"},
                domain : Seq(Label), matchlen : Nat]

(* What a server does to what was found so far. *)
LEMMA ConsiderType ==
    ASSUME NEW s \in Server, NEW found \in FoundRecord, NEW q
    PROVE  Consider(s, found, q) \in FoundRecord
<1>1. ServerAttr[s] \in ServerRecord
  BY ServersAssumption
<1>2. Answered(s, found, q) \in FoundRecord
  BY <1>1 DEF Answered, FoundRecord, ServerRecord
<1>3. CASE NodotsMatch(s, found, q)
  BY <1>2, <1>3 DEF Consider, FoundRecord
<1>4. CASE ~NodotsMatch(s, found, q) /\ DomainMatch(s, found, q)
  <2>1. ServerAttr[s].domain \in Seq(Label) /\ Len(ServerAttr[s].domain) \in Nat
    BY <1>1 DEF ServerRecord
  <2> QED
    BY <1>2, <1>4, <2>1 DEF Consider, FoundRecord
<1>5. CASE ~NodotsMatch(s, found, q) /\ ~DomainMatch(s, found, q)
  BY <1>5 DEF Consider
<1> QED
  BY <1>3, <1>4, <1>5

(* The pass considers the servers one after the other. *)
LEMMA ScanRuns ==
    ASSUME NEW list \in Seq(Server), NEW q
    PROVE  \E run \in [0..Len(list) -> FoundRecord] :
              /\ run[0] = Unmatched
              /\ \A k \in 1..Len(list) : run[k] = Consider(list[k], run[k - 1], q)
              /\ Scan(list, q) = run[Len(list)]
<1> DEFINE n == Len(list)
           it == CHOOSE iter : iter = [S \in SUBSET DOMAIN list |->
                    IF S = {} THEN Unmatched
                    ELSE Consider(list[Max(S)], iter[S \ {Max(S)}], q)]
           run == [k \in 0..n |-> it[1..k]]
           step == [x \in (1..n) \X FoundRecord |-> Consider(list[x[1]], x[2], q)]
<1>1. n \in Nat /\ DOMAIN list = 1..n /\ \A k \in 1..n : list[k] \in Server
  OBVIOUS
<1>2. Unmatched \in FoundRecord
  BY DEF Unmatched, FoundRecord
<1>3. step \in [(1..n) \X FoundRecord -> FoundRecord]
  BY <1>1, ConsiderType
<1>4. it = [S \in SUBSET (1..n) |->
              IF S = {} THEN Unmatched
              ELSE Consider(list[Max(S)], it[S \ {Max(S)}], q)]
  <2>1. PICK some \in [SUBSET (1..n) -> FoundRecord] : Iterates(some, n, Unmatched, step)
    <3> HIDE DEF n, step
    <3> QED BY <1>1, <1>2, <1>3, IterateExists
  <2>2. ASSUME NEW S \in SUBSET (1..n)
        PROVE  some[S] = IF S = {} THEN Unmatched
                         ELSE Consider(list[Max(S)], some[S \ {Max(S)}], q)
    <3>1. some[S] = IF S = {} THEN Unmatched ELSE step[<<Max(S), some[S \ {Max(S)}]>>]
      BY <2>1 DEF Iterates
    <3>2. S # {} => Max(S) \in 1..n /\ some[S \ {Max(S)}] \in FoundRecord
      BY <1>1, MaxPlace
    <3> QED
      BY <3>1, <3>2
  <2>3. some = [S \in SUBSET DOMAIN list |->
                  IF S = {} THEN Unmatched
                  ELSE Consider(list[Max(S)], some[S \ {Max(S)}], q)]
    <3>1. some = [S \in SUBSET (1..n) |-> some[S]]
      OBVIOUS
    <3> QED
      BY <1>1, <2>2, <3>1
  <2> QED
    BY <1>1, <2>3
<1>5. Scan(list, q) = it[DOMAIN list]
  BY DEF Scan, FoldLeft, MapThenFoldSet
<1> HIDE DEF it, step
<1>6. it[1..0] = Unmatched
  BY <1>1, <1>4
<1>7. ASSUME NEW k \in 1..n PROVE it[1..k] = Consider(list[k], it[1..(k - 1)], q)
  <2> DEFINE S == 1..k
  <2>1. S \in SUBSET (1..n) /\ S # {} /\ Max(S) = k /\ S \ {Max(S)} = 1..(k - 1)
    <3> HIDE DEF n
    <3> QED BY <1>1, Segment
  <2> HIDE DEF S, n
  <2>2. it[S] = Consider(list[Max(S)], it[S \ {Max(S)}], q)
    BY <1>4, <2>1
  <2> QED BY <2>1, <2>2 DEF S
<1>8. \A k \in 0..n : it[1..k] \in FoundRecord
  <2> DEFINE P == {k \in 0..n : it[1..k] \in FoundRecord}
  <2>1. 0 \in P
    BY <1>1, <1>2, <1>6
  <2>2. \A k \in 1..n : k - 1 \in P => k \in P
    BY <1>1, <1>7, ConsiderType
  <2>3. \A k \in 0..n : k \in P
    <3> HIDE DEF P
    <3> QED BY <1>1, <2>1, <2>2, UpTo
  <2> QED
    BY <2>3
<1>9. run \in [0..n -> FoundRecord] /\ run[0] = Unmatched
  BY <1>1, <1>6, <1>8
<1>10. \A k \in 1..n : run[k] = Consider(list[k], run[k - 1], q)
  BY <1>1, <1>7
<1>11. Scan(list, q) = run[n]
  BY <1>1, <1>5
<1> HIDE DEF run
<1> QED
  BY <1>9, <1>10, <1>11

(* A server of a domain the name is in, or for unqualified names when it is one. *)
InDomain(s, q) == ServerAttr[s].type = "domain" /\ IsSuffix(ServerAttr[s].domain, q.name)
InNodots(s, q) == ServerAttr[s].type = "nodots" /\ Undotted(q.name)

(* As far as is known, the query is one for this server. *)
On(s, found, q) ==
    \/ InDomain(s, q) /\ Len(ServerAttr[s].domain) >= found.matchlen
    \/ InNodots(s, q) /\ found.type # "domain"

(* On, and of a family that is asked for. *)
Wanted(s, found, q) == On(s, found, q) /\ ServerAttr[s].family \in q.families

(* What is known after the first k servers: the longest domain among them, that
   a server on the way that is not to be asked leaves an answer, and that one
   of the literal addresses is the answer if there is nothing else.           *)
LongestOf(list, k, found, q) ==
    /\ found.type = "domain" =>
          \E j \in 1..k : /\ InDomain(list[j], q)
                          /\ found.domain = ServerAttr[list[j]].domain
                          /\ found.matchlen = Len(ServerAttr[list[j]].domain)
    /\ found.type = "nodots" => \E j \in 1..k : InNodots(list[j], q)
    /\ found.type # "domain" => found.matchlen = 0
    /\ \A j \in 1..k : InDomain(list[j], q) =>
          found.type = "domain" /\ Len(ServerAttr[list[j]].domain) <= found.matchlen
    /\ \A j \in 1..k : InNodots(list[j], q) => found.type # "plain"

AnswerOf(list, k, found, q) ==
    /\ \A j \in 1..k : On(list[j], found, q) /\ ServerAttr[list[j]].kind # "real" =>
          found.flags # "none"
    /\ (\A j \in 1..k : On(list[j], found, q) => ServerAttr[list[j]].kind = "literal") =>
       ((\E j \in 1..k : Wanted(list[j], found, q)) =>
          /\ found.flags = "address"
          /\ \E j \in 1..k : found.addr = list[j] /\ Wanted(list[j], found, q))

(* What Answered does to the flags. *)
LEMMA AnsweredFlags ==
    ASSUME NEW s \in Server, NEW found \in FoundRecord, NEW q
    PROVE  LET new == Answered(s, found, q) IN
           /\ new \in FoundRecord
           /\ found.flags # "none" \/ ServerAttr[s].kind # "real" => new.flags # "none"
           /\ ServerAttr[s].kind = "literal" =>
                IF ServerAttr[s].family \in q.families
                THEN new.flags = "address" /\ new.addr = s
                ELSE found.flags = "address" => new = found
<1>1. ServerAttr[s].kind \in {"real", "literal", "noaddr"}
  BY ServersAssumption DEF ServerRecord
<1>2. CASE ServerAttr[s].kind = "noaddr"
  <2>1. Answered(s, found, q) = [found EXCEPT !.flags = "nxdomain"]
    BY <1>2 DEF Answered
  <2> QED BY <1>2, <2>1 DEF FoundRecord
<1>3. CASE ServerAttr[s].kind = "real"
  <2>1. Answered(s, found, q) = found
    BY <1>3 DEF Answered
  <2> QED BY <1>3, <2>1
<1>4. CASE ServerAttr[s].kind = "literal" /\ ServerAttr[s].family \in q.families
  <2>1. Answered(s, found, q) = [found EXCEPT !.flags = "address", !.addr = s]
    BY <1>4 DEF Answered
  <2> QED BY <1>4, <2>1 DEF FoundRecord
<1>5. CASE ServerAttr[s].kind = "literal" /\ ServerAttr[s].family \notin q.families
  <2>1. found.flags \in {"none", "nxdomain"} =>
          Answered(s, found, q) = [found EXCEPT !.flags = "noerror"]
    BY <1>5 DEF Answered
  <2>2. found.flags \notin {"none", "nxdomain"} => Answered(s, found, q) = found
    BY <1>5 DEF Answered
  <2> QED BY <1>5, <2>1, <2>2 DEF FoundRecord
<1> QED
  BY <1>1, <1>2, <1>3, <1>4, <1>5

(* The three ways to consider a server. *)
LEMMA ConsiderCases ==
    ASSUME NEW s \in Server, NEW found \in FoundRecord, NEW q
    PROVE  LET new == Consider(s, found, q)
               ans == Answered(s, found, q)
           IN
           /\ ~On(s, found, q) => new = found
           /\ On(s, found, q) => new.flags = ans.flags /\ new.addr = ans.addr
           /\ On(s, found, q) /\ InNodots(s, q) =>
                /\ new.type = "nodots" /\ found.type # "domain"
                /\ new.matchlen = found.matchlen
           /\ On(s, found, q) /\ InDomain(s, q) =>
                /\ new.type = "domain" /\ new.domain = ServerAttr[s].domain
                /\ new.matchlen = Len(ServerAttr[s].domain)
                /\ Len(ServerAttr[s].domain) >= found.matchlen
<1> DEFINE ans == Answered(s, found, q)
<1>1. ans \in FoundRecord /\ (ServerAttr[s].type = "nodots" => ServerAttr[s].type # "domain")
  BY AnsweredFlags
<1>2. NodotsMatch(s, found, q) <=> InNodots(s, q) /\ found.type # "domain"
  BY DEF NodotsMatch, InNodots
<1>3. DomainMatch(s, found, q) <=> InDomain(s, q) /\ Len(ServerAttr[s].domain) >= found.matchlen
  BY DEF DomainMatch, InDomain
<1>4. On(s, found, q) <=> NodotsMatch(s, found, q) \/ DomainMatch(s, found, q)
  BY <1>2, <1>3 DEF On
<1>5. ~(InNodots(s, q) /\ InDomain(s, q))
  BY DEF InNodots, InDomain
<1>6. ans.matchlen = found.matchlen
  BY DEF Answered, FoundRecord
<1> HIDE DEF ans
<1>7. CASE NodotsMatch(s, found, q)
  <2>1. Consider(s, found, q) = [ans EXCEPT !.type = "nodots"]
    BY <1>7 DEF Consider, ans
  <2>2. /\ Consider(s, found, q).flags = ans.flags /\ Consider(s, found, q).addr = ans.addr
        /\ Consider(s, found, q).type = "nodots"
        /\ Consider(s, found, q).matchlen = ans.matchlen
    BY <1>1, <2>1 DEF FoundRecord
  <2> QED BY <1>2, <1>3, <1>4, <1>5, <1>6, <1>7, <2>2 DEF ans
<1>8. CASE ~NodotsMatch(s, found, q) /\ DomainMatch(s, found, q)
  <2>1. Consider(s, found, q) =
          [ans EXCEPT !.type = "domain", !.domain = ServerAttr[s].domain,
                      !.matchlen = Len(ServerAttr[s].domain)]
    BY <1>8 DEF Consider, ans
  <2>2. /\ Consider(s, found, q).flags = ans.flags /\ Consider(s, found, q).addr = ans.addr
        /\ Consider(s, found, q).type = "domain"
        /\ Consider(s, found, q).domain = ServerAttr[s].domain
        /\ Consider(s, found, q).matchlen = Len(ServerAttr[s].domain)
    BY <1>1, <2>1 DEF FoundRecord
  <2> QED BY <1>2, <1>3, <1>4, <1>5, <1>8, <2>2 DEF ans
<1>9. CASE ~NodotsMatch(s, found, q) /\ ~DomainMatch(s, found, q)
  BY <1>4, <1>9 DEF Consider
<1> QED
  BY <1>7, <1>8, <1>9

(* One more server: what is known of the longest domain. *)
LEMMA ConsiderLongest ==
    ASSUME NEW list \in Seq(Server), NEW k \in 1..Len(list), NEW found \in FoundRecord,
           NEW q, LongestOf(list, k - 1, found, q)
    PROVE  LongestOf(list, k, Consider(list[k], found, q), q)
<1> DEFINE s   == list[k]
           new == Consider(s, found, q)
           old(j) == Len(ServerAttr[list[j]].domain)
<1>1. s \in Server /\ new \in FoundRecord /\ ServerAttr[s].domain \in Seq(Label)
  BY ConsiderType, ServersAssumption DEF ServerRecord
<1>2. /\ \A j \in 1..k : j \in 1..(k - 1) \/ j = k
      /\ 1..(k - 1) \subseteq 1..k /\ k \in 1..k
  OBVIOUS
<1>3. found.matchlen \in Nat /\ Len(ServerAttr[s].domain) \in Nat
      /\ \A j \in 1..k : old(j) \in Nat
  <2>1. \A j \in 1..k : list[j] \in Server
    OBVIOUS
  <2> QED
    BY SMTT(30), <1>1, <2>1, ServersAssumption DEF ServerRecord, FoundRecord
<1>4. CASE ~On(s, found, q)
  <2>1. new = found
    BY <1>1, <1>4, ConsiderCases
  <2>2. InDomain(s, q) => Len(ServerAttr[s].domain) < found.matchlen
    BY <1>3, <1>4 DEF On
  <2>3. InDomain(s, q) => found.type = "domain" /\ Len(ServerAttr[s].domain) <= found.matchlen
    BY <1>3, <2>2 DEF LongestOf
  <2>4. InNodots(s, q) => found.type # "plain"
    BY <1>4 DEF On
  <2> HIDE DEF new
  <2> QED
    BY <1>2, <2>1, <2>3, <2>4 DEF LongestOf, new
<1>5. CASE On(s, found, q) /\ InNodots(s, q)
  <2>1. new.type = "nodots" /\ found.type # "domain" /\ new.matchlen = found.matchlen
    BY <1>1, <1>5, ConsiderCases
  <2>2. ~InDomain(s, q)
    BY <1>5 DEF InDomain, InNodots
  <2> HIDE DEF new
  <2> QED
    BY <1>2, <1>5, <2>1, <2>2 DEF LongestOf, new
<1>6. CASE On(s, found, q) /\ InDomain(s, q)
  <2>1. /\ new.type = "domain" /\ new.domain = ServerAttr[s].domain
        /\ new.matchlen = Len(ServerAttr[s].domain)
        /\ Len(ServerAttr[s].domain) >= found.matchlen
    BY <1>1, <1>6, ConsiderCases
  <2> HIDE DEF new
  <2>2. \A j \in 1..k : InDomain(list[j], q) => Len(ServerAttr[list[j]].domain) <= new.matchlen
    <3> SUFFICES ASSUME NEW j \in 1..k, InDomain(list[j], q)
                 PROVE  old(j) <= new.matchlen
      OBVIOUS
    <3>1. CASE j = k
      BY <1>3, <2>1, <3>1
    <3>2. CASE j \in 1..(k - 1)
      <4>1. old(j) <= found.matchlen
        BY <3>2 DEF LongestOf
      <4> QED BY SMTT(30), <1>3, <2>1, <4>1
    <3> QED BY <1>2, <3>1, <3>2
  <2> QED
    BY <1>2, <1>6, <2>1, <2>2 DEF LongestOf, new
<1> QED
  BY <1>4, <1>5, <1>6 DEF On

(* One more server: what is known of the answer. *)
LEMMA ConsiderAnswer ==
    ASSUME NEW list \in Seq(Server), NEW k \in 1..Len(list), NEW found \in FoundRecord,
           NEW q, LongestOf(list, k - 1, found, q), AnswerOf(list, k - 1, found, q)
    PROVE  AnswerOf(list, k, Consider(list[k], found, q), q)
<1> DEFINE s   == list[k]
           new == Consider(s, found, q)
           ans == Answered(s, found, q)
           len(j) == Len(ServerAttr[list[j]].domain)
<1>1. s \in Server /\ new \in FoundRecord
  BY ConsiderType
<1>2. /\ \A j \in 1..k : j \in 1..(k - 1) \/ j = k
      /\ 1..(k - 1) \subseteq 1..k /\ k \in 1..k
  OBVIOUS
<1>3. found.matchlen \in Nat /\ \A j \in 1..k : len(j) \in Nat
  <2>1. \A j \in 1..k : list[j] \in Server
    OBVIOUS
  <2> QED
    BY <1>1, <2>1, ServersAssumption DEF ServerRecord, FoundRecord
<1>4. CASE ~On(s, found, q)
  <2>1. new = found
    BY <1>1, <1>4, ConsiderCases
  <2> HIDE DEF new
  <2> QED
    BY <1>2, <1>4, <2>1 DEF AnswerOf, Wanted, new
<1>5. CASE On(s, found, q)
  <2>1. new.flags = ans.flags /\ new.addr = ans.addr
    BY <1>1, <1>5, ConsiderCases
  <2>2. \/ \A j \in 1..(k - 1) : ~On(list[j], new, q)
        \/ \A j \in 1..(k - 1) : On(list[j], new, q) <=> On(list[j], found, q)
    <3>1. CASE InNodots(s, q)
      <4>1. new.type = "nodots" /\ found.type # "domain" /\ new.matchlen = found.matchlen
        BY <1>1, <1>5, <3>1, ConsiderCases
      <4> HIDE DEF new
      <4> QED BY <4>1 DEF On
    <3>2. CASE InDomain(s, q)
      <4>1. new.type = "domain" /\ new.matchlen = len(k) /\ len(k) >= found.matchlen
        BY <1>1, <1>5, <3>2, ConsiderCases
      <4>2. \A j \in 1..(k - 1) : InDomain(list[j], q) =>
              found.type = "domain" /\ len(j) <= found.matchlen
        BY DEF LongestOf
      <4> HIDE DEF new
      <4>3. CASE len(k) > found.matchlen
        <5>1. \A j \in 1..(k - 1) : ~On(list[j], new, q)
          BY SMTT(30), <1>2, <1>3, <4>1, <4>2, <4>3 DEF On
        <5> QED BY <5>1
      <4>4. CASE len(k) = found.matchlen /\ found.type = "domain"
        <5>1. \A j \in 1..(k - 1) : On(list[j], new, q) <=> On(list[j], found, q)
          BY <4>1, <4>4 DEF On
        <5> QED BY <5>1
      <4>5. CASE len(k) = found.matchlen /\ found.type # "domain"
        <5>1. \A j \in 1..(k - 1) : ~On(list[j], new, q)
          BY <4>1, <4>2, <4>5 DEF On
        <5> QED BY <5>1
      <4> QED BY <1>2, <1>3, <4>1, <4>3, <4>4, <4>5
    <3> QED BY <1>5, <3>1, <3>2 DEF On
  <2>3. On(s, new, q)
    <3>1. CASE InNodots(s, q)
      <4>1. new.type = "nodots"
        BY <1>1, <1>5, <3>1, ConsiderCases
      <4> HIDE DEF new
      <4> QED BY <3>1, <4>1 DEF On
    <3>2. CASE InDomain(s, q)
      <4>1. new.matchlen = len(k)
        BY <1>1, <1>5, <3>2, ConsiderCases
      <4>2. len(k) >= len(k)
        BY <1>2, <1>3
      <4> HIDE DEF new
      <4> QED BY <3>2, <4>1, <4>2 DEF On
    <3> QED BY <1>5, <3>1, <3>2 DEF On
  <2>4. /\ found.flags # "none" \/ ServerAttr[s].kind # "real" => new.flags # "none"
        /\ ServerAttr[s].kind = "literal" /\ ServerAttr[s].family \in q.families =>
              new.flags = "address" /\ new.addr = s
        /\ ServerAttr[s].kind = "literal" /\ ServerAttr[s].family \notin q.families =>
              (found.flags = "address" => new.flags = "address" /\ new.addr = found.addr)
    <3>1. /\ found.flags # "none" \/ ServerAttr[s].kind # "real" => ans.flags # "none"
          /\ ServerAttr[s].kind = "literal" =>
                IF ServerAttr[s].family \in q.families
                THEN ans.flags = "address" /\ ans.addr = s
                ELSE found.flags = "address" => ans = found
      BY <1>1, AnsweredFlags
    <3> HIDE DEF new, ans
    <3> QED BY <2>1, <3>1
  <2> HIDE DEF new, ans
  <2>5. ASSUME NEW j \in 1..k, On(list[j], new, q), ServerAttr[list[j]].kind # "real"
        PROVE  new.flags # "none"
    <3>1. CASE j = k
      BY <2>4, <2>5, <3>1
    <3>2. CASE j \in 1..(k - 1)
      <4>1. On(list[j], found, q)
        BY <2>2, <2>5, <3>2
      <4>2. found.flags # "none"
        BY <2>5, <3>2, <4>1 DEF AnswerOf
      <4> QED BY <2>4, <4>2
    <3> QED BY <1>2, <3>1, <3>2
  <2>6. ASSUME \A j \in 1..k : On(list[j], new, q) => ServerAttr[list[j]].kind = "literal",
               NEW j \in 1..k, Wanted(list[j], new, q)
        PROVE  /\ new.flags = "address"
               /\ \E x \in 1..k : new.addr = list[x] /\ Wanted(list[x], new, q)
    <3>1. ServerAttr[s].kind = "literal"
      BY <1>2, <2>3, <2>6
    <3>2. CASE ServerAttr[s].family \in q.families
      <4>1. new.flags = "address" /\ new.addr = list[k] /\ Wanted(list[k], new, q)
        BY <2>3, <2>4, <3>1, <3>2 DEF Wanted
      <4> QED BY <1>2, <4>1
    <3>3. CASE ServerAttr[s].family \notin q.families
      <4>1. j \in 1..(k - 1) /\ On(list[j], new, q)
        BY <1>2, <2>6, <3>3 DEF Wanted
      <4>2. \A x \in 1..(k - 1) : On(list[x], new, q) <=> On(list[x], found, q)
        BY <2>2, <4>1
      <4>3. /\ \A x \in 1..(k - 1) : On(list[x], found, q) => ServerAttr[list[x]].kind = "literal"
            /\ Wanted(list[j], found, q)
        BY <1>2, <2>6, <4>1, <4>2 DEF Wanted
      <4>4. PICK x \in 1..(k - 1) : found.flags = "address" /\ found.addr = list[x]
                                    /\ Wanted(list[x], found, q)
        BY <4>1, <4>3 DEF AnswerOf
      <4>5. new.flags = "address" /\ new.addr = list[x] /\ Wanted(list[x], new, q)
        BY <2>4, <3>1, <3>3, <4>2, <4>4 DEF Wanted
      <4> QED BY <1>2, <4>5
    <3> QED BY <3>2, <3>3
  <2> QED
    BY <2>5, <2>6 DEF AnswerOf, new
<1> QED
  BY <1>4, <1>5

(* What the whole pass knows. *)
LEMMA ScanKnows ==
    ASSUME NEW list \in Seq(Server), NEW q
    PROVE  /\ Scan(list, q) \in FoundRecord
           /\ LongestOf(list, Len(list), Scan(list, q), q)
           /\ AnswerOf(list, Len(list), Scan(list, q), q)
<1> DEFINE n == Len(list)
<1>1. PICK run \in [0..n -> FoundRecord] :
         /\ run[0] = Unmatched
         /\ \A k \in 1..n : run[k] = Consider(list[k], run[k - 1], q)
         /\ Scan(list, q) = run[n]
  BY ScanRuns
<1> DEFINE P == {k \in 0..n : LongestOf(list, k, run[k], q) /\ AnswerOf(list, k, run[k], q)}
<1>2. n \in Nat /\ n \in 0..n
  OBVIOUS
<1>3. 0 \in P
  <2>1. 1..0 = {}
    OBVIOUS
  <2>2. LongestOf(list, 0, Unmatched, q) /\ AnswerOf(list, 0, Unmatched, q)
    BY <2>1 DEF LongestOf, AnswerOf, Unmatched
  <2> QED BY <1>1, <1>2, <2>2
<1>4. ASSUME NEW k \in 1..n, k - 1 \in P PROVE k \in P
  <2>1. run[k - 1] \in FoundRecord /\ k \in 0..n
    OBVIOUS
  <2>2. LongestOf(list, k - 1, run[k - 1], q) /\ AnswerOf(list, k - 1, run[k - 1], q)
    BY <1>4
  <2>3. run[k] = Consider(list[k], run[k - 1], q)
    BY <1>1
  <2>4. LongestOf(list, k, run[k], q) /\ AnswerOf(list, k, run[k], q)
    BY <2>1, <2>2, <2>3, ConsiderLongest, ConsiderAnswer
  <2> QED BY <2>1, <2>4
<1>5. \A k \in 0..n : k \in P
  <2> HIDE DEF P, n
  <2> QED BY <1>2, <1>3, <1>4, UpTo
<1> QED
  BY <1>1, <1>2, <1>5

(* What search_servers does after the pass: it never forgets an answer, nor
   which servers it found.                                                  *)
LEMMA SearchKeeps ==
    ASSUME NEW list \in Seq(Server), NEW q, NEW options
    PROVE  LET found == SearchServers(list, q, options)
               scan  == Scan(list, q)
           IN  /\ found.type = scan.type /\ found.domain = scan.domain
               /\ found.addr = scan.addr
               /\ found.flags = "none" => scan.flags = "none"
               /\ scan.flags = "address" => found.flags = "address"
<1> DEFINE scan   == Scan(list, q)
           needed == IF /\ scan.flags = "none" /\ ~q.ns
                        /\ "nodots_local" \in options /\ Undotted(q.name)
                     THEN [scan EXCEPT !.flags = "nxdomain"] ELSE scan
           found  == IF needed.flags = "nxdomain" /\ q.name \in LocalName
                     THEN [needed EXCEPT !.flags = "noerror"] ELSE needed
<1>1. SearchServers(list, q, options) = found
  BY DEF SearchServers, Scan
<1>2. scan \in FoundRecord
  BY ScanKnows
<1> HIDE DEF scan
<1>3. /\ needed \in FoundRecord /\ needed.type = scan.type
      /\ needed.domain = scan.domain /\ needed.addr = scan.addr
      /\ needed.flags = scan.flags \/ (scan.flags = "none" /\ needed.flags = "nxdomain")
  BY <1>2 DEF FoundRecord
<1> HIDE DEF needed
<1>4. /\ found.type = needed.type
      /\ found.domain = needed.domain /\ found.addr = needed.addr
      /\ found.flags = needed.flags \/ (needed.flags = "nxdomain" /\ found.flags = "noerror")
  BY <1>3 DEF FoundRecord
<1> HIDE DEF found
<1> QED
  BY <1>1, <1>3, <1>4 DEF scan

(* Two domains of one length that a name ends in are the same. *)
LEMMA SuffixSame ==
    ASSUME NEW a \in Seq(Label), NEW b \in Seq(Label), NEW name \in Seq(Label),
           IsSuffix(a, name), IsSuffix(b, name), Len(a) = Len(b)
    PROVE  a = b
<1> DEFINE n == Len(a)
<1>1. /\ n \in Nat /\ Len(b) = n /\ Len(name) \in Nat
      /\ Reverse(a) = [i \in 1..n |-> a[n - i + 1]]
      /\ Reverse(b) = [i \in 1..n |-> b[n - i + 1]]
  BY DEF Reverse
<1>2. Reverse(a) \in Seq(Label) /\ Reverse(b) \in Seq(Label) /\ Reverse(name) \in Seq(Label)
      /\ Len(Reverse(a)) = n /\ Len(Reverse(b)) = n
  BY DEF Reverse
<1>3. Reverse(a) = Reverse(b)
  BY <1>1, <1>2 DEF IsSuffix, IsPrefix
<1>4. ASSUME NEW i \in 1..n PROVE a[i] = b[i]
  <2>1. n - i + 1 \in 1..n /\ n - (n - i + 1) + 1 = i
    BY <1>1
  <2>2. Reverse(a)[n - i + 1] = a[i] /\ Reverse(b)[n - i + 1] = b[i]
    BY <1>1, <2>1
  <2> QED BY <1>3, <2>2
<1> QED
  BY SMTT(30), <1>1, <1>4

-----------------------------------------------------------------------------
(* The order in which servers are kept *)

(* What is kept only depends on which of the list's servers S has. *)
LEMMA KeptSame ==
    ASSUME NEW list \in Seq(Server), NEW S, NEW T,
           \A s \in Range(list) : s \in S <=> s \in T
    PROVE  Kept(list, S) = Kept(list, T)
<1>1. KeptAt(list, S) = KeptAt(list, T)
  BY DEF KeptAt, Range
<1> QED
  BY <1>1 DEF Kept

(* A list that is all kept is kept as it is. *)
LEMMA KeptAll ==
    ASSUME NEW list \in Seq(Server), NEW S, Range(list) \subseteq S
    PROVE  Kept(list, S) = list
<1> DEFINE n == Len(list)
           p == [j \in 1..n |-> j]
<1>1. n \in Nat /\ list = [j \in 1..n |-> list[j]] /\ DOMAIN list = 1..n
  OBVIOUS
<1>2. KeptAt(list, S) = 1..n
  BY <1>1 DEF KeptAt, Range
<1>3. {p[j] : j \in 1..n} = 1..n /\ p \in [1..n -> Nat]
      /\ \A i, j \in 1..n : i < j => p[i] < p[j]
  OBVIOUS
<1>4. Places(p, n, list, S)
  <2> HIDE DEF p, n
  <2> QED BY <1>2, <1>3 DEF Places, Listed
<1>5. Kept(list, S) = [j \in 1..n |-> list[p[j]]]
  <2>1. n \in Nat
    BY <1>1
  <2> HIDE DEF p, n
  <2> QED BY <1>4, <2>1, KeptPlaces
<1> QED
  BY <1>1, <1>5

(* Keeping of a reversed list is reversing what is kept. *)
LEMMA KeptReverse ==
    ASSUME NEW list \in Seq(Server), NEW S
    PROVE  Kept(Reverse(list), S) = Reverse(Kept(list, S))
<1> DEFINE n   == Len(list)
           rev == Reverse(list)
<1>1. n \in Nat /\ rev = [i \in 1..n |-> list[n - i + 1]] /\ rev \in Seq(Server)
      /\ Len(rev) = n
  BY ReverseType DEF Reverse
<1>2. PICK m \in Nat : \E p : Places(p, m, list, S)
  BY PlacesListed
<1>3. PICK p : Places(p, m, list, S)
  BY <1>2
<1>4. /\ p \in [1..m -> Nat] /\ \A i, j \in 1..m : i < j => p[i] < p[j]
      /\ {p[j] : j \in 1..m} = KeptAt(list, S)
  BY <1>3 DEF Places, Listed
<1>5. \A j \in 1..m : p[j] \in 1..n /\ list[p[j]] \in S
  BY <1>4 DEF KeptAt
<1> DEFINE q == [j \in 1..m |-> n - p[m - j + 1] + 1]
<1>6. \A j \in 1..m : m - j + 1 \in 1..m /\ m - (m - j + 1) + 1 = j
  OBVIOUS
<1> HIDE DEF n, rev
<1>7. \A j \in 1..m : /\ q[j] \in 1..n /\ n - q[j] + 1 = p[m - j + 1]
                      /\ rev[q[j]] = list[p[m - j + 1]]
  <2> SUFFICES ASSUME NEW j \in 1..m
               PROVE  /\ q[j] \in 1..n /\ n - q[j] + 1 = p[m - j + 1]
                      /\ rev[q[j]] = list[p[m - j + 1]]
    OBVIOUS
  <2>1. p[m - j + 1] \in 1..n
    BY <1>5, <1>6
  <2>2. q[j] = n - p[m - j + 1] + 1
    OBVIOUS
  <2> HIDE DEF q
  <2>3. q[j] \in 1..n /\ n - q[j] + 1 = p[m - j + 1]
    BY <1>1, <2>1, <2>2
  <2> QED BY <1>1, <2>3
<1>8. q \in [1..m -> Nat]
  <2>1. \A j \in 1..m : q[j] \in Nat
    <3> HIDE DEF q
    <3> QED BY <1>7
  <2> QED BY <2>1
<1>9. \A i, j \in 1..m : i < j => q[i] < q[j]
  <2> SUFFICES ASSUME NEW i \in 1..m, NEW j \in 1..m, i < j PROVE q[i] < q[j]
    OBVIOUS
  <2>1. m - j + 1 \in 1..m /\ m - i + 1 \in 1..m /\ m - j + 1 < m - i + 1
    OBVIOUS
  <2>2. p[m - j + 1] < p[m - i + 1]
    BY <1>4, <2>1
  <2>3. p[m - j + 1] \in Nat /\ p[m - i + 1] \in Nat
    BY <1>4, <2>1
  <2>4. q[i] = n - p[m - i + 1] + 1 /\ q[j] = n - p[m - j + 1] + 1
    OBVIOUS
  <2> HIDE DEF q
  <2> QED BY <1>1, <2>2, <2>3, <2>4
<1> HIDE DEF q
<1>10. {q[j] : j \in 1..m} = KeptAt(rev, S)
  <2>1. ASSUME NEW j \in 1..m PROVE q[j] \in KeptAt(rev, S)
    BY <1>1, <1>5, <1>6, <1>7 DEF KeptAt
  <2>2. ASSUME NEW i \in KeptAt(rev, S) PROVE i \in {q[j] : j \in 1..m}
    <3>1. i \in 1..n /\ rev[i] = list[n - i + 1] /\ rev[i] \in S
      BY <1>1, <2>2 DEF KeptAt
    <3>2. n - i + 1 \in 1..n
      BY <1>1, <3>1
    <3>3. n - i + 1 \in KeptAt(list, S)
      BY <3>1, <3>2 DEF KeptAt, n
    <3>4. PICK j \in 1..m : p[j] = n - i + 1
      BY <1>4, <3>3
    <3>5. m - j + 1 \in 1..m /\ m - (m - j + 1) + 1 = j
      BY <1>6
    <3>6. n - q[m - j + 1] + 1 = n - i + 1 /\ q[m - j + 1] \in 1..n
      BY <1>7, <3>4, <3>5
    <3>7. q[m - j + 1] = i
      BY <1>1, <3>1, <3>6
    <3> QED BY <3>5, <3>7
  <2> QED BY <2>1, <2>2
<1>11. Kept(rev, S) = [j \in 1..m |-> rev[q[j]]]
  <2>1. Places(q, m, rev, S)
    BY <1>8, <1>9, <1>10 DEF Places, Listed
  <2>2. rev \in Seq(Server)
    BY <1>1
  <2> QED BY <2>1, <2>2, KeptPlaces
<1>12. Kept(list, S) = [j \in 1..m |-> list[p[j]]]
  BY <1>3, KeptPlaces
<1>13. Len(Kept(list, S)) = m
  BY <1>12
<1>14. Reverse(Kept(list, S)) = [j \in 1..m |-> Kept(list, S)[m - j + 1]]
  BY <1>13 DEF Reverse
<1>15. \A j \in 1..m : Kept(list, S)[m - j + 1] = rev[q[j]]
  BY <1>6, <1>7, <1>12
<1> QED
  BY <1>11, <1>14, <1>15 DEF rev

(* Keeping twice is keeping what both keep. *)
LEMMA KeptTwice ==
    ASSUME NEW list \in Seq(Server), NEW S, NEW T
    PROVE  Kept(Kept(list, S), T) = Kept(list, S \cap T)
<1> DEFINE kept == Kept(list, S)
<1>1. kept \in Seq(Server)
  <2>1. kept \in Seq(Server \cap S)
    BY KeptType
  <2> HIDE DEF kept
  <2> QED BY <2>1
<1>2. PICK m \in Nat : \E p : Places(p, m, list, S)
  BY PlacesListed
<1>3. PICK p : Places(p, m, list, S)
  BY <1>2
<1>4. kept = [j \in 1..m |-> list[p[j]]]
  BY <1>3, KeptPlaces
<1> HIDE DEF kept
<1>5. PICK l \in Nat : \E r : Places(r, l, kept, T)
  BY <1>1, PlacesListed
<1>6. PICK r : Places(r, l, kept, T)
  BY <1>5
<1>7. /\ \A i, j \in 1..m : i < j => p[i] < p[j]
      /\ \A j \in 1..m : p[j] \in Nat
      /\ {p[j] : j \in 1..m} = KeptAt(list, S)
  BY <1>3 DEF Places, Listed
<1>8. /\ \A i, j \in 1..l : i < j => r[i] < r[j]
      /\ {r[j] : j \in 1..l} = KeptAt(kept, T)
  BY <1>6 DEF Places, Listed
<1>9. Len(kept) = m /\ \A j \in 1..m : kept[j] = list[p[j]]
  BY <1>4
<1>10. \A j \in 1..l : r[j] \in 1..m /\ kept[r[j]] \in T
  BY <1>8, <1>9 DEF KeptAt
<1> DEFINE both == [j \in 1..l |-> p[r[j]]]
<1>11. both \in [1..l -> Nat]
  BY <1>7, <1>10
<1>12. \A i, j \in 1..l : i < j => both[i] < both[j]
  BY <1>7, <1>8, <1>10
<1>13. {both[j] : j \in 1..l} = KeptAt(list, S \cap T)
  <2>1. ASSUME NEW j \in 1..l PROVE both[j] \in KeptAt(list, S \cap T)
    <3>1. p[r[j]] \in KeptAt(list, S) /\ list[p[r[j]]] \in T
      BY <1>7, <1>9, <1>10
    <3> QED BY <3>1 DEF KeptAt
  <2>2. ASSUME NEW i \in KeptAt(list, S \cap T) PROVE i \in {both[j] : j \in 1..l}
    <3>1. i \in KeptAt(list, S) /\ list[i] \in T
      BY <2>2 DEF KeptAt
    <3>2. PICK k \in 1..m : p[k] = i
      BY <1>7, <3>1
    <3>3. k \in KeptAt(kept, T)
      BY <1>9, <3>1, <3>2 DEF KeptAt
    <3>4. PICK j \in 1..l : r[j] = k
      BY <1>8, <3>3
    <3> QED BY <3>2, <3>4
  <2> HIDE DEF both
  <2> QED BY <2>1, <2>2
<1>14. Kept(list, S \cap T) = [j \in 1..l |-> list[both[j]]]
  <2> HIDE DEF both
  <2>1. Places(both, l, list, S \cap T)
    BY <1>11, <1>12, <1>13 DEF Places, Listed
  <2> QED BY <2>1, KeptPlaces
<1>15. Kept(kept, T) = [j \in 1..l |-> kept[r[j]]]
  BY <1>1, <1>6, KeptPlaces
<1>16. \A j \in 1..l : kept[r[j]] = list[both[j]]
  BY <1>9, <1>10
<1> HIDE DEF both
<1> QED
  BY <1>14, <1>15, <1>16 DEF kept

(* The servers kept of two lists, when the first has none of them. *)
LEMMA KeptBehind ==
    ASSUME NEW new \in Seq(Server), NEW old \in Seq(Server), NEW S,
           Range(new) \cap S = {}, Range(old) \subseteq S
    PROVE  Kept(new \o old, S) = old
<1> DEFINE a == Len(new)
           b == Len(old)
           p == [j \in 1..b |-> a + j]
           all == new \o old
<1>1. /\ a \in Nat /\ b \in Nat /\ Len(all) = a + b /\ all \in Seq(Server)
      /\ \A i \in 1..a : all[i] = new[i] /\ new[i] \in Range(new)
      /\ \A i \in 1..b : all[a + i] = old[i] /\ old[i] \in Range(old)
      /\ old = [j \in 1..b |-> old[j]]
  BY DEF Range
<1> HIDE DEF a, b, all
<1>2. {p[j] : j \in 1..b} = KeptAt(all, S)
  <2>1. ASSUME NEW j \in 1..b PROVE p[j] \in KeptAt(all, S)
    <3>1. p[j] \in 1..(a + b) /\ p[j] = a + j
      BY <1>1
    <3>2. all[a + j] \in S
      BY <1>1
    <3> HIDE DEF p
    <3> QED BY <1>1, <3>1, <3>2 DEF KeptAt
  <2>2. ASSUME NEW i \in KeptAt(all, S) PROVE i \in {p[j] : j \in 1..b}
    <3>1. i \in 1..(a + b) /\ all[i] \in S
      BY <1>1 DEF KeptAt
    <3>2. i \notin 1..a
      BY <1>1, <3>1
    <3>3. i - a \in 1..b /\ a + (i - a) = i
      BY <1>1, <3>1, <3>2
    <3>4. p[i - a] = i
      BY <3>3
    <3> HIDE DEF p
    <3> QED BY <3>3, <3>4
  <2> HIDE DEF p
  <2> QED BY <2>1, <2>2
<1>3. p \in [1..b -> Nat] /\ \A i, j \in 1..b : i < j => p[i] < p[j]
  BY <1>1
<1>4. Places(p, b, all, S)
  <2> HIDE DEF p
  <2> QED BY <1>2, <1>3 DEF Places, Listed
<1>5. Kept(all, S) = [j \in 1..b |-> all[p[j]]]
  <2> HIDE DEF p
  <2> QED BY <1>1, <1>4, KeptPlaces
<1>6. \A j \in 1..b : all[p[j]] = old[j]
  BY <1>1
<1>7. [j \in 1..b |-> all[p[j]]] = [j \in 1..b |-> old[j]]
  BY <1>6
<1> HIDE DEF p
<1> QED
  BY <1>1, <1>5, <1>7 DEF all

(* Reversing twice. *)
LEMMA ReverseTwice ==
    ASSUME NEW T, NEW list \in Seq(T)
    PROVE  Reverse(Reverse(list)) = list
<1> DEFINE n == Len(list)
           rev == Reverse(list)
<1>1. n \in Nat /\ rev = [i \in 1..n |-> list[n - i + 1]] /\ Len(rev) = n
      /\ list = [i \in 1..n |-> list[i]]
  BY DEF Reverse
<1>2. Reverse(rev) = [i \in 1..n |-> rev[n - i + 1]]
  BY <1>1 DEF Reverse
<1> HIDE DEF rev, n
<1>3. \A i \in 1..n : rev[n - i + 1] = list[i]
  <2> SUFFICES ASSUME NEW i \in 1..n PROVE rev[n - i + 1] = list[i]
    OBVIOUS
  <2>1. n - i + 1 \in 1..n /\ n - (n - i + 1) + 1 = i
    BY <1>1
  <2>2. rev[n - i + 1] = list[n - (n - i + 1) + 1]
    BY <1>1, <2>1
  <2> QED BY <2>1, <2>2
<1> QED
  BY <1>1, <1>2, <1>3 DEF rev

(* Reversing, keeping and joining lists of different servers give such lists. *)
LEMMA ReverseInjective ==
    ASSUME NEW T, NEW list \in Seq(T), IsInjective(list)
    PROVE  IsInjective(Reverse(list))
<1> DEFINE n == Len(list)
           rev == Reverse(list)
<1>1. n \in Nat /\ rev = [i \in 1..n |-> list[n - i + 1]] /\ DOMAIN list = 1..n
  BY DEF Reverse
<1>2. DOMAIN rev = 1..n
  BY <1>1
<1> HIDE DEF n, rev
<1> SUFFICES ASSUME NEW i \in 1..n, NEW j \in 1..n, rev[i] = rev[j] PROVE i = j
  BY <1>2 DEF IsInjective, rev
<1>3. n - i + 1 \in 1..n /\ n - j + 1 \in 1..n
  BY <1>1
<1>4. n - i + 1 = n - j + 1
  <2>1. list[n - i + 1] = list[n - j + 1]
    BY <1>1
  <2> QED BY <1>1, <1>3, <2>1 DEF IsInjective
<1> QED
  BY <1>1, <1>4

LEMMA KeptInjective ==
    ASSUME NEW list \in Seq(Server), NEW S, IsInjective(list)
    PROVE  IsInjective(Kept(list, S))
<1>1. PICK m \in Nat : \E p : Places(p, m, list, S)
  BY PlacesListed
<1>2. PICK p : Places(p, m, list, S)
  BY <1>1
<1>3. Kept(list, S) = [j \in 1..m |-> list[p[j]]]
  BY <1>2, KeptPlaces
<1>4. /\ \A i, j \in 1..m : i < j => p[i] < p[j]
      /\ \A j \in 1..m : p[j] \in Nat /\ p[j] \in DOMAIN list
  <2>1. {p[j] : j \in 1..m} = KeptAt(list, S) /\ \A i, j \in 1..m : i < j => p[i] < p[j]
        /\ p \in [1..m -> Nat]
    BY <1>2 DEF Places, Listed
  <2> QED BY <2>1 DEF KeptAt
<1> SUFFICES ASSUME NEW i \in 1..m, NEW j \in 1..m, list[p[i]] = list[p[j]] PROVE i = j
  BY <1>3 DEF IsInjective
<1>5. p[i] = p[j]
  BY <1>4 DEF IsInjective
<1>6. ~(p[i] < p[j]) /\ ~(p[j] < p[i])
  BY <1>4, <1>5
<1>7. ~(i < j) /\ ~(j < i)
  BY <1>4, <1>6
<1> QED
  BY <1>7

LEMMA JoinInjective ==
    ASSUME NEW new \in Seq(Server), NEW old \in Seq(Server), Range(new) \cap Range(old) = {},
           IsInjective(new), IsInjective(old)
    PROVE  IsInjective(new \o old)
<1> DEFINE a == Len(new)
           b == Len(old)
           all == new \o old
<1>1. /\ a \in Nat /\ b \in Nat /\ DOMAIN all = 1..(a + b)
      /\ DOMAIN new = 1..a /\ DOMAIN old = 1..b
      /\ \A i \in 1..a : all[i] = new[i] /\ new[i] \in Range(new)
      /\ \A i \in 1..b : all[a + i] = old[i] /\ old[i] \in Range(old)
  BY DEF Range
<1> HIDE DEF a, b, all
<1>2. \A i \in 1..(a + b) : \/ i \in 1..a /\ all[i] = new[i] /\ all[i] \in Range(new)
                            \/ i - a \in 1..b /\ all[i] = old[i - a] /\ all[i] \in Range(old)
  <2> SUFFICES ASSUME NEW i \in 1..(a + b), i \notin 1..a
               PROVE  i - a \in 1..b /\ all[i] = old[i - a] /\ all[i] \in Range(old)
    BY <1>1
  <2>1. i - a \in 1..b /\ a + (i - a) = i
    BY <1>1
  <2>2. all[a + (i - a)] = old[i - a] /\ old[i - a] \in Range(old)
    BY <1>1, <2>1
  <2> QED BY <2>1, <2>2
<1> SUFFICES ASSUME NEW i \in 1..(a + b), NEW j \in 1..(a + b), all[i] = all[j] PROVE i = j
  BY <1>1 DEF IsInjective, all
<1>3. CASE i \in 1..a /\ j \in 1..a
  BY <1>1, <1>3 DEF IsInjective
<1>4. CASE i \notin 1..a /\ j \notin 1..a
  <2>1. i - a \in 1..b /\ j - a \in 1..b /\ old[i - a] = old[j - a]
    BY <1>2, <1>4
  <2>2. i - a = j - a
    BY <1>1, <2>1 DEF IsInjective
  <2> QED BY <1>1, <2>2
<1>5. CASE (i \in 1..a /\ j \notin 1..a) \/ (i \notin 1..a /\ j \in 1..a)
  BY <1>2, <1>5, <1>1
<1> QED
  BY <1>3, <1>4, <1>5

(* A search that lets a query through finds real servers for it only: a
   local-only or literal entry for the same domain would have answered.     *)
LEMMA SearchOnlyReal ==
    ASSUME LocalHasDomain, NEW list \in Seq(Server), NEW q, NEW options,
           SearchServers(list, q, options).flags = "none", NEW s \in Range(list),
           Eligible(s, SearchServers(list, q, options).type,
                    SearchServers(list, q, options).domain)
    PROVE  s \in RealServer
<1> DEFINE scan == Scan(list, q)
<1>1. scan.flags = "none" /\ Eligible(s, scan.type, scan.domain)
  BY SearchKeeps
<1>2. /\ scan \in FoundRecord /\ LongestOf(list, Len(list), scan, q)
      /\ AnswerOf(list, Len(list), scan, q)
  BY ScanKnows
<1> HIDE DEF scan
<1>3. PICK j \in 1..Len(list) : s = list[j]
  BY DEF Range
<1>4. s \in Server /\ ServerAttr[s] \in ServerRecord
  BY <1>3, ServersAssumption
<1>5. On(s, scan, q) => ServerAttr[s].kind = "real"
  BY <1>1, <1>2, <1>3 DEF AnswerOf
<1>6. CASE scan.type = "plain"
  BY <1>1, <1>4, <1>6 DEF Eligible, LocalHasDomain, ServerRecord, RealServer
<1>7. CASE scan.type = "nodots"
  <2>1. InNodots(s, q)
    BY <1>1, <1>2, <1>7 DEF LongestOf, InNodots, Eligible
  <2> QED BY <1>4, <1>5, <1>7, <2>1 DEF On, RealServer
<1>8. CASE scan.type = "domain"
  <2>1. PICK k \in 1..Len(list) : /\ InDomain(list[k], q)
                                  /\ scan.domain = ServerAttr[list[k]].domain
                                  /\ scan.matchlen = Len(ServerAttr[list[k]].domain)
    BY <1>2, <1>8 DEF LongestOf
  <2>2. InDomain(s, q) /\ Len(ServerAttr[s].domain) = scan.matchlen
    BY <1>1, <1>8, <2>1 DEF InDomain, Eligible
  <2>3. scan.matchlen \in Nat
    BY <1>2 DEF FoundRecord
  <2> QED BY <1>4, <1>5, <2>2, <2>3 DEF On, RealServer
<1> QED
  BY <1>2, <1>6, <1>7, <1>8 DEF FoundRecord

=============================================================================
