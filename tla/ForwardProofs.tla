--------------------------- MODULE ForwardProofs ---------------------------
(***************************************************************************)
(* The forwarding table, for every number of records, servers, clients,    *)
(* sockets and requests: it keeps its types, never refers to a server that *)
(* left the list, never has two records under one id and question or for   *)
(* one query of a client, passes no young record on to another query,      *)
(* answers no client twice, waits for no local-only entry, and counts its  *)
(* random sockets exactly.                                                 *)
(***************************************************************************)
EXTENDS Forward, ServersProofs

(* Forwarding tables with their sockets, as Table is one.  How many records
   use a socket is the business of SockInv, below.                          *)
TableType == [frecs : [Frec -> FrecRecord], count : 0..(FtabSize + 1),
              socks : [Slot -> RandFd]]

TableOK(t) == t \in TableType /\ InUse(t) \subseteq 1..t.count

(* t2 is t1 but for the records of F, which are no longer in use. *)
Freed(t1, t2, F) ==
    \A j \in Frec : t2.frecs[j] = IF j \in F THEN FreeFrec ELSE t1.frecs[j]

(* Each record of t2 is as it was in t1, or is not in use. *)
Fewer(t1, t2) == \A j \in InUse(t2) : j \in InUse(t1) /\ t2.frecs[j] = t1.frecs[j]

-----------------------------------------------------------------------------
(* Lemmas about the functions on the table *)

(* The constants, as the assumptions of Servers and Forward have them. *)
LEMMA Constants ==
    /\ FtabSize \in Nat /\ TIMEOUT \in Nat /\ TIMEOUT # 0
    /\ Frec \subseteq Nat /\ 0 \notin Frec /\ IsFiniteSet(Frec) /\ IsFiniteSet(Family)
    /\ NoServer \notin Server /\ NoSlot \notin Slot
<1>1. FtabSize \in Nat /\ TIMEOUT \in Nat \ {0} /\ IsFiniteSet(Family)
      /\ NoServer \notin Server /\ NoSlot \notin Slot
  BY ForwardAssumption, ServersAssumption
<1>2. IsFiniteSet(Frec)
  BY <1>1, FS_Interval DEF Frec
<1> QED
  BY <1>1, <1>2 DEF Frec

(* A record that is not in use is a record. *)
LEMMA FreeFrecType == FreeFrec \in FrecRecord /\ FreeFrec.sentto = NoServer
<1>1. Client # {} /\ MsgId # {} /\ Crc # {} /\ TIMEOUT \in Nat
  BY ForwardAssumption
<1>2. NoRfd \in [Family -> Slot \cup {NoSlot}]
  BY DEF NoRfd
<1> QED
  BY <1>1, <1>2 DEF FreeFrec, FrecRecord

(* What free_frec does to a table: nothing but to the records it frees and
   their sockets.                                                           *)
LEMMA FreeFrecsOK ==
    ASSUME NEW t, TableOK(t), NEW F \in SUBSET Frec
    PROVE  /\ TableOK(FreeFrecs(t, F))
           /\ FreeFrecs(t, F).count = t.count
           /\ Freed(t, FreeFrecs(t, F), F)
           /\ InUse(FreeFrecs(t, F)) = InUse(t) \ F
<1> DEFINE n == FreeFrecs(t, F)
           left(s) == t.socks[s].refcount - Cardinality(Releases(t, F, s))
<1>1. t \in TableType
  BY DEF TableOK
<1>2. /\ n.count = t.count
      /\ n.frecs = [i \in Frec |-> IF i \in F THEN FreeFrec ELSE t.frecs[i]]
      /\ n.socks = [s \in Slot |->
                      [refcount |-> left(s), family |-> t.socks[s].family,
                       open |-> IF left(s) = 0 THEN FALSE ELSE t.socks[s].open]]
      /\ n = [frecs |-> n.frecs, count |-> n.count, socks |-> n.socks]
  BY DEF FreeFrecs
<1>3. n.frecs \in [Frec -> FrecRecord]
  BY <1>1, <1>2, FreeFrecType DEF TableType
<1>4. ASSUME NEW s \in Slot PROVE left(s) \in Int
  <2>1. IsFiniteSet(F \X Family)
    BY Constants, FS_Subset, FS_Product
  <2>2. IsFiniteSet(Releases(t, F, s))
    <3>1. Releases(t, F, s) \subseteq F \X Family
      BY DEF Releases
    <3> QED BY <2>1, <3>1, FS_Subset
  <2>3. t.socks[s].refcount \in Int
    BY <1>1 DEF TableType, RandFd
  <2> QED
    BY <2>2, <2>3, FS_CardinalityType
<1>5. n.socks \in [Slot -> RandFd]
  <2>1. ASSUME NEW s \in Slot, NEW k \in Int
        PROVE  [refcount |-> k, family |-> t.socks[s].family,
                open |-> IF k = 0 THEN FALSE ELSE t.socks[s].open] \in RandFd
    BY <1>1 DEF TableType, RandFd
  <2> HIDE DEF left, n
  <2> QED BY <1>2, <1>4, <2>1
<1>6. Freed(t, n, F)
  BY <1>2 DEF Freed
<1>7. InUse(n) = InUse(t) \ F
  BY <1>6, FreeFrecType DEF Freed, InUse
<1> HIDE DEF n
<1>8. n \in TableType
  BY <1>1, <1>2, <1>3, <1>5 DEF TableType
<1> QED
  BY <1>2, <1>6, <1>7, <1>8 DEF TableOK, n

(* A record in use is one of the table and waits for a server. *)
LEMMA InUseType ==
    ASSUME NEW t, TableOK(t), NEW i \in InUse(t)
    PROVE  /\ i \in Frec /\ i \in Nat /\ i # 0 /\ i <= FtabSize + 1
           /\ t.frecs[i] \in FrecRecord /\ t.frecs[i].sentto \in Server
<1>1. i \in Frec /\ t.frecs[i] \in FrecRecord /\ t.frecs[i].sentto # NoServer
  BY DEF TableOK, TableType, InUse
<1> QED
  BY <1>1, Constants DEF FrecRecord, Frec

(* When records are in use, one of them is the oldest. *)
LEMMA OldestInUse ==
    ASSUME NEW t, TableOK(t), InUse(t) # {}
    PROVE  Oldest(t) \in InUse(t) /\ t.frecs[Oldest(t)].age \in Nat
<1> DEFINE ages  == {t.frecs[i].age : i \in InUse(t)}
           olds  == {i \in InUse(t) : t.frecs[i].age = Max(ages)}
<1>1. ages \in SUBSET Nat /\ ages # {} /\ \A x \in ages : x <= 4 * TIMEOUT
  <2>1. \A i \in InUse(t) : t.frecs[i].age \in 0..(4 * TIMEOUT)
    BY InUseType DEF FrecRecord
  <2> QED
    BY <2>1, Constants
<1>2. Max(ages) \in ages /\ \A x \in ages : x <= Max(ages)
  <2> HIDE DEF ages
  <2>1. 4 * TIMEOUT \in Nat
    BY Constants
  <2> QED
    BY <1>1, <2>1, MaxInSet
<1>3. olds \in SUBSET Nat /\ olds # {}
  BY <1>2, InUseType
<1>4. Min(olds) \in olds /\ \A i \in olds : Min(olds) <= i
  <2> HIDE DEF olds
  <2> QED BY <1>3, MinInSet
<1>5. \A j \in InUse(t) :
         \/ t.frecs[j].age < t.frecs[Min(olds)].age
         \/ t.frecs[j].age = t.frecs[Min(olds)].age /\ Min(olds) <= j
  <2> SUFFICES ASSUME NEW j \in InUse(t)
               PROVE  \/ t.frecs[j].age < t.frecs[Min(olds)].age
                      \/ t.frecs[j].age = t.frecs[Min(olds)].age /\ Min(olds) <= j
    OBVIOUS
  <2>1. t.frecs[Min(olds)].age = Max(ages) /\ Max(ages) \in Nat
    BY <1>1, <1>2, <1>4
  <2>2. t.frecs[j].age \in Nat /\ t.frecs[j].age <= Max(ages)
    BY <1>1, <1>2
  <2>3. t.frecs[j].age = Max(ages) => Min(olds) <= j
    BY <1>4
  <2> QED
    BY <2>1, <2>2, <2>3
<1>6. Min(olds) \in InUse(t)
  BY <1>4
<1>7. Oldest(t) \in InUse(t)
  <2> HIDE DEF olds
  <2> QED BY <1>5, <1>6 DEF Oldest
<1> QED
  BY <1>1, <1>7

(* get_new_frec gives a record that is not in use, unless it is only asked
   whether there is one; it disturbs no other record that stays in use, and
   takes none that was used for less than TIMEOUT.                          *)
LEMMA GetNewFrecOK ==
    ASSUME NEW t, TableOK(t), NEW waiting \in BOOLEAN
    PROVE  LET new == GetNewFrec(t, waiting) IN
           /\ TableOK(new.table) /\ Fewer(t, new.table)
           /\ new.frec # NoFrec =>
                /\ new.frec \in Frec /\ new.frec <= new.table.count
                /\ ~waiting => new.frec \notin InUse(new.table)
                /\ new.frec \in InUse(t) => t.frecs[new.frec].age >= TIMEOUT
<1> DEFINE new == GetNewFrec(t, waiting)
           good == /\ TableOK(new.table) /\ Fewer(t, new.table)
                   /\ new.frec # NoFrec =>
                        /\ new.frec \in Frec /\ new.frec <= new.table.count
                        /\ ~waiting => new.frec \notin InUse(new.table)
                        /\ new.frec \in InUse(t) => t.frecs[new.frec].age >= TIMEOUT
           oldAge   == t.frecs[Oldest(t)].age
           enlarges == Room(t) /\ (Reusable(t) => oldAge < 2 * TIMEOUT)
<1>0. t \in TableType /\ InUse(t) \subseteq 1..t.count /\ t.count \in 0..(FtabSize + 1)
  BY DEF TableOK, TableType
<1>1. \A F \in SUBSET Frec : /\ TableOK(FreeFrecs(t, F)) /\ Fewer(t, FreeFrecs(t, F))
                             /\ FreeFrecs(t, F).count = t.count
                             /\ InUse(FreeFrecs(t, F)) = InUse(t) \ F
  BY FreeFrecsOK DEF Freed, Fewer, InUse
<1>2. TableOK(t) /\ Fewer(t, t)
  BY DEF Fewer
<1>3. CASE Vacant(t) # {}
  <2>1. new.table = FreeFrecs(t, Expired(t)) /\ new.frec = Min(Vacant(t))
    BY <1>3 DEF GetNewFrec
  <2>2. Vacant(t) \in SUBSET Nat
    BY <1>0, Constants DEF Vacant
  <2>3. Min(Vacant(t)) \in Vacant(t)
    BY <1>3, <2>2, MinInSet
  <2>4. Expired(t) \in SUBSET Frec
    BY DEF Expired, InUse
  <2>5. Min(Vacant(t)) \in Frec /\ Min(Vacant(t)) <= t.count
        /\ Min(Vacant(t)) \notin InUse(t) \ Expired(t)
    BY <1>0, <2>3, Constants DEF Vacant, Frec
  <2>6. Min(Vacant(t)) \in InUse(t) => t.frecs[Min(Vacant(t))].age >= TIMEOUT
    <3> SUFFICES ASSUME Min(Vacant(t)) \in InUse(t)
                 PROVE  t.frecs[Min(Vacant(t))].age >= TIMEOUT
      OBVIOUS
    <3>1. t.frecs[Min(Vacant(t))].age >= 4 * TIMEOUT
      BY <2>3 DEF Vacant, Expired
    <3>2. t.frecs[Min(Vacant(t))].age \in Nat
      BY InUseType DEF FrecRecord
    <3> QED BY <3>1, <3>2, Constants
  <2> QED
    BY <1>1, <2>1, <2>4, <2>5, <2>6
<1>4. CASE Vacant(t) = {} /\ enlarges
  <2>1. new.table = Enlarged(t) /\ new.frec = t.count + 1
    BY <1>4 DEF GetNewFrec
  <2>2. /\ Enlarged(t) = [t EXCEPT !.count = t.count + 1]
        /\ t.count + 1 \in 0..(FtabSize + 1) /\ t.count + 1 \in Frec
    BY <1>0, <1>4, Constants DEF Enlarged, Room, Frec
  <2>3. Enlarged(t) \in TableType /\ Enlarged(t).count = t.count + 1
        /\ Enlarged(t).frecs = t.frecs
    BY <1>0, <2>2 DEF TableType
  <2>4. InUse(Enlarged(t)) = InUse(t) /\ t.count + 1 \notin InUse(t)
    BY <1>0, <2>3 DEF InUse
  <2>5. TableOK(Enlarged(t)) /\ Fewer(t, Enlarged(t))
    BY <1>0, <2>3, <2>4 DEF TableOK, Fewer
  <2> QED
    BY <1>0, <2>1, <2>2, <2>3, <2>4, <2>5
<1>5. CASE Vacant(t) = {} /\ ~enlarges /\ Reusable(t)
  <2>1. /\ new.table = IF waiting THEN t ELSE FreeFrecs(t, {Oldest(t)})
        /\ new.frec = Oldest(t)
    BY <1>5 DEF GetNewFrec
  <2>2. Oldest(t) \in InUse(t)
    BY <1>5, OldestInUse DEF Reusable
  <2>3. Oldest(t) \in Frec /\ Oldest(t) <= t.count /\ t.frecs[Oldest(t)].age >= TIMEOUT
    BY <1>0, <1>5, <2>2, InUseType DEF Reusable
  <2> QED
    BY <1>1, <1>2, <2>1, <2>3
<1>6. CASE Vacant(t) = {} /\ ~enlarges /\ ~Reusable(t)
  <2>1. new.table = t /\ new.frec = NoFrec
    BY <1>6 DEF GetNewFrec
  <2> QED
    BY <1>2, <2>1
<1> QED
  BY <1>3, <1>4, <1>5, <1>6

(* lookup_frec finds a record that matches, if there is one. *)
LEMMA LookupFrecOK ==
    ASSUME NEW t, TableOK(t), NEW id, NEW crc
    PROVE  /\ LookupFrec(t, id, crc) # NoFrec => LookupFrec(t, id, crc) \in Matching(t, id, crc)
           /\ LookupFrec(t, id, crc) = NoFrec => Matching(t, id, crc) = {}
<1> DEFINE M == Matching(t, id, crc)
<1>1. CASE M = {}
  BY <1>1 DEF LookupFrec, NoFrec
<1>2. CASE M # {}
  <2>1. M \in SUBSET Nat /\ 0 \notin M /\ \A i \in M : i <= FtabSize + 1
    BY InUseType DEF Matching
  <2>2. FtabSize + 1 \in Nat
    BY Constants
  <2>3. Max(M) \in M
    <3> HIDE DEF M
    <3> QED BY <1>2, <2>1, <2>2, MaxInSet
  <2> QED
    BY <1>2, <2>1, <2>3 DEF LookupFrec, NoFrec
<1> QED
  BY <1>1, <1>2

(* UniqueIds and UniqueSender of any table. *)
UniqueIdsIn(t) ==
    \A i, j \in InUse(t) :
        /\ t.frecs[i].new_id = t.frecs[j].new_id /\ t.frecs[i].crc = t.frecs[j].crc
        /\ t.frecs[i].crc # UnknownCrc
        => i = j
UniqueSenderIn(t) ==
    \A i, j \in InUse(t) : SenderOf(t.frecs[i]) = SenderOf(t.frecs[j]) => i = j

(* Freeing records leaves the others as they were. *)
LEMMA FreeFrecsFewer ==
    ASSUME NEW t, TableOK(t), NEW F \in SUBSET Frec
    PROVE  Fewer(t, FreeFrecs(t, F))
BY FreeFrecsOK DEF Freed, Fewer, InUse

(* get_id gives an id under which no record with the same question is in use,
   if the question can be read: of a signed query's at most one is, and it is
   freed; any other query gets an id that is not found.                     *)
LEMMA GetIdOK ==
    ASSUME NEW t, TableOK(t), UniqueIdsIn(t), NEW r \in RequestRecord,
           NEW got \in GetId(t, r)
    PROVE  /\ TableOK(got.table) /\ Fewer(t, got.table) /\ got.id \in MsgId
           /\ got.table.count = t.count
           /\ r.crc # UnknownCrc => Matching(got.table, got.id, r.crc) = {}
<1> DEFINE hit == LookupFrec(t, r.id, r.crc)
<1>1. CASE ~r.signed
  <2>1. got.table = t /\ got.id \in MsgId /\ Matching(t, got.id, r.crc) = {}
    BY <1>1 DEF GetId
  <2> QED
    BY <2>1 DEF Fewer
<1>2. CASE r.signed /\ hit = NoFrec
  <2>1. got.table = t /\ got.id = r.id
    BY <1>2 DEF GetId
  <2>2. Matching(t, r.id, r.crc) = {}
    BY <1>2, LookupFrecOK
  <2> QED
    BY <2>1, <2>2 DEF Fewer, RequestRecord
<1>3. CASE r.signed /\ hit # NoFrec
  <2>1. got.table = FreeFrecs(t, {hit}) /\ got.id = r.id
    BY <1>3 DEF GetId
  <2>2. hit \in Matching(t, r.id, r.crc)
    BY <1>3, LookupFrecOK
  <2> HIDE DEF hit
  <2>3. hit \in Frec
    BY <2>2, InUseType DEF Matching
  <2>4. TableOK(got.table) /\ Fewer(t, got.table) /\ got.table.count = t.count
        /\ InUse(got.table) = InUse(t) \ {hit}
    BY <2>1, <2>3, FreeFrecsOK, FreeFrecsFewer
  <2>5. ASSUME r.crc # UnknownCrc, NEW j \in Matching(got.table, r.id, r.crc) PROVE FALSE
    <3>1. j \in InUse(t) /\ j # hit /\ got.table.frecs[j] = t.frecs[j]
      BY <2>4 DEF Matching, Fewer
    <3>2. t.frecs[j].new_id = r.id /\ t.frecs[j].crc = r.crc
      BY <2>5, <3>1 DEF Matching
    <3>3. hit \in InUse(t) /\ t.frecs[hit].new_id = r.id /\ t.frecs[hit].crc = r.crc
      BY <2>2, <2>5 DEF Matching
    <3> QED
      BY <2>5, <3>1, <3>2, <3>3 DEF UniqueIdsIn
  <2> QED
    BY <2>1, <2>4, <2>5 DEF RequestRecord
<1> QED
  BY <1>1, <1>2, <1>3

-----------------------------------------------------------------------------
(* Lemmas about the send loop *)

(* One turn round the list visits servers of the list. *)
LEMMA RingOK ==
    ASSUME servers \in Seq(Server), NEW start \in Range(servers)
    PROVE  /\ Len(servers) \in Nat /\ Len(servers) # 0
           /\ DOMAIN Ring(start) = 1..Len(servers)
           /\ \A k \in 1..Len(servers) :
                 Ring(start)[k] \in Range(servers) /\ Ring(start)[k] \in Server
<1> DEFINE n     == Len(servers)
           first == CHOOSE p \in 1..n : servers[p] = start
<1>1. n \in Nat /\ DOMAIN servers = 1..n
  OBVIOUS
<1>2. PICK p \in 1..n : servers[p] = start
  BY <1>1 DEF Range
<1>3. first \in 1..n
  BY <1>2
<1>4. Ring(start) = [k \in 1..n |-> servers[((first + k - 2) % n) + 1]]
  BY DEF Ring
<1> HIDE DEF first
<1>5. ASSUME NEW k \in 1..n PROVE ((first + k - 2) % n) + 1 \in 1..n
  <2> HIDE DEF n
  <2>1. n # 0
    BY <1>1, <1>3
  <2> QED BY <1>1, <1>3, <2>1
<1>6. ASSUME NEW k \in 1..n PROVE servers[k] \in Range(servers) /\ servers[k] \in Server
  BY <1>1 DEF Range
<1>7. n # 0
  BY <1>1, <1>3
<1> QED
  BY <1>1, <1>4, <1>5, <1>6, <1>7

(* The loop sends at places of the ring, to servers that take the query. *)
LEMMA LoopSent ==
    ASSUME NEW t, NEW rec, NEW ring, NEW type, NEW domain, NEW attempt
    PROVE  /\ Loop(t, rec, ring, type, domain, attempt).sent \subseteq DOMAIN ring
           /\ \A k \in Loop(t, rec, ring, type, domain, attempt).sent :
                 Eligible(ring[k], type, domain)
BY DEF Loop

(* allocate_rfd gives sockets and counts them; it touches no record. *)
LEMMA WithSocketsOK ==
    ASSUME NEW t, TableOK(t), NEW attempt, NEW families \in SUBSET Family
    PROVE  /\ TableOK(WithSockets(t, attempt, families))
           /\ WithSockets(t, attempt, families).frecs = t.frecs
           /\ WithSockets(t, attempt, families).count = t.count
<1> DEFINE n         == WithSockets(t, attempt, families)
           takers(s) == {f \in families : attempt.got[f] = s}
           sock(s)   == IF takers(s) = {} THEN t.socks[s]
                        ELSE [refcount |-> t.socks[s].refcount + Cardinality(takers(s)),
                              family   |-> CHOOSE f \in takers(s) : TRUE,
                              open     |-> IF takers(s) \cap attempt.opened # {} THEN TRUE
                                           ELSE t.socks[s].open]
<1>1. t \in TableType
  BY DEF TableOK
<1>2. n = [t EXCEPT !.socks = [s \in Slot |-> sock(s)]]
  BY DEF WithSockets
<1>3. ASSUME NEW s \in Slot PROVE sock(s) \in RandFd
  <2>1. t.socks[s] \in RandFd
    BY <1>1 DEF TableType
  <2>2. takers(s) \in SUBSET Family
    OBVIOUS
  <2>3. Cardinality(takers(s)) \in Nat
    <3> HIDE DEF takers
    <3> QED BY <2>2, Constants, FS_Subset, FS_CardinalityType
  <2>4. takers(s) # {} => (CHOOSE f \in takers(s) : TRUE) \in Family
    BY <2>2
  <2>5. CASE takers(s) = {}
    BY <2>1, <2>5
  <2>6. CASE takers(s) # {}
    <3> DEFINE fam == CHOOSE f \in takers(s) : TRUE
               now == IF takers(s) \cap attempt.opened # {} THEN TRUE ELSE t.socks[s].open
    <3>1. sock(s) = [refcount |-> t.socks[s].refcount + Cardinality(takers(s)),
                     family |-> fam, open |-> now]
      BY <2>6
    <3>2. fam \in Family
      BY <2>4, <2>6
    <3>3. now \in BOOLEAN
      BY <2>1 DEF RandFd
    <3> HIDE DEF fam, now, takers, sock
    <3> QED
      BY <2>1, <2>3, <3>1, <3>2, <3>3 DEF RandFd
  <2> QED
    BY <2>5, <2>6
<1> HIDE DEF sock, n
<1>4. n.frecs = t.frecs /\ n.count = t.count /\ n \in TableType
  BY <1>1, <1>2, <1>3 DEF TableType
<1>5. InUse(n) = InUse(t)
  BY <1>4 DEF InUse
<1> QED
  BY <1>4, <1>5 DEF TableOK, n

SameQuery(a, b) == /\ a.source = b.source /\ a.orig_id = b.orig_id
                   /\ a.new_id = b.new_id /\ a.crc = b.crc

(* A record that waits for all servers counts the replies to come from 2. *)
Counts(old, new) == IF old.forwardall = 0 THEN new.forwardall = 0
                    ELSE new.forwardall > old.forwardall

(* A record that was sent stays the record of the same query, holds the sockets
   it got, and waits for a server it was sent to, or for one more than before. *)
LEMMA SentRecordOK ==
    ASSUME NEW rec, rec \in FrecRecord, NEW ring, NEW attempt, NEW sent,
           servers \in Seq(Server), sent \subseteq 1..Len(servers),
           NEW T \in SUBSET Server, \A k \in sent : ring[k] \in T,
           attempt.got \in [Family -> Slot \cup {NoSlot}]
    PROVE  /\ SentRecord(rec, ring, attempt, sent) \in FrecRecord
           /\ SameQuery(SentRecord(rec, ring, attempt, sent), rec)
           /\ SentRecord(rec, ring, attempt, sent).rfd = attempt.got
           /\ sent # {} => /\ SentRecord(rec, ring, attempt, sent).sentto \in T
                           /\ Counts(rec, SentRecord(rec, ring, attempt, sent))
<1> DEFINE n == Len(servers)
<1>0. n \in Nat
  OBVIOUS
<1> DEFINE new      == SentRecord(rec, ring, attempt, sent)
           to       == IF sent = {} THEN rec.sentto ELSE ring[Max(sent)]
           all      == IF rec.forwardall = 0 THEN 0 ELSE rec.forwardall + Cardinality(sent)
<1>1. new = [rec EXCEPT !.rfd = attempt.got, !.sentto = to, !.forwardall = all]
  BY DEF SentRecord
<1>2. IsFiniteSet(sent)
  <2>1. IsFiniteSet(1..n)
    BY <1>0, FS_Interval
  <2> QED BY <2>1, FS_Subset
<1>4. /\ all \in Nat
      /\ sent # {} => IF rec.forwardall = 0 THEN all = 0 ELSE all > rec.forwardall
  <2>1. Cardinality(sent) \in Nat /\ (sent # {} => Cardinality(sent) # 0)
    BY <1>2, FS_CardinalityType, FS_EmptySet
  <2>2. rec.forwardall \in Nat
    BY DEF FrecRecord
  <2> QED BY <2>1, <2>2
<1>5. sent # {} => to \in T
  <2> SUFFICES ASSUME sent # {} PROVE to \in T
    OBVIOUS
  <2>1. Max(sent) \in sent
    <3>1. sent \in SUBSET Nat /\ \A k \in sent : k <= n
      BY <1>0
    <3> QED BY <1>0, <3>1, MaxInSet
  <2> QED
    BY <2>1
<1>6. to \in Server \cup {NoServer}
  BY <1>5 DEF FrecRecord
<1> HIDE DEF to, all, new
<1>7. /\ new \in FrecRecord /\ SameQuery(new, rec) /\ new.sentto = to
      /\ new.rfd = attempt.got /\ new.forwardall = all
  BY <1>1, <1>4, <1>6 DEF FrecRecord, SameQuery
<1>8. sent # {} => Counts(rec, new)
  BY <1>4, <1>7 DEF Counts
<1> QED
  BY <1>5, <1>7, <1>8 DEF new

(* What the send loop leaves: the other records are as they were; this one
   waits for a server of the list that takes the query if it was sent, else it
   is free.                                                                 *)
LEMMA TransmitOK ==
    ASSUME NEW t, TableOK(t), NEW i \in Frec, i <= t.count, NEW rec \in FrecRecord,
           servers \in Seq(Server), NEW start \in Range(servers),
           NEW type, NEW domain, NEW out \in Transmit(t, i, rec, start, type, domain)
    PROVE  /\ TableOK(out.table) /\ out.sent \in BOOLEAN
           /\ \A j \in Frec \ {i} : out.table.frecs[j] = t.frecs[j]
           /\ out.sent => /\ SameQuery(out.table.frecs[i], rec)
                          /\ out.table.frecs[i].sentto \in Range(servers)
                          /\ Eligible(out.table.frecs[i].sentto, type, domain)
                          /\ Counts(rec, out.table.frecs[i])
                          /\ out.srv_save \in Range(servers)
           /\ ~out.sent => i \notin InUse(out.table)
<1> DEFINE ring == Ring(start)
<1>1. PICK a \in Attempts(rec) :
         out = Outcome(t, i, rec, ring, a, Loop(t, rec, ring, type, domain, a))
  BY DEF Transmit
<1> DEFINE loop == Loop(t, rec, ring, type, domain, a)
           sent == loop.sent
           base == WithSockets(t, a, {f \in Family : loop.needs[f] # 0})
           new  == SentRecord(rec, ring, a, sent)
           held == [base EXCEPT !.frecs[i] = new]
<1>2. a.got \in [Family -> Slot \cup {NoSlot}]
  BY DEF Attempts
<1>3. /\ Len(servers) \in Nat /\ sent \in SUBSET (1..Len(servers))
      /\ \A k \in 1..Len(servers) : ring[k] \in Range(servers) /\ ring[k] \in Server
      /\ \A k \in sent : Eligible(ring[k], type, domain)
  BY RingOK, LoopSent
<1>4. /\ TableOK(base) /\ base.frecs = t.frecs /\ base.count = t.count
  BY WithSocketsOK
<1>5. /\ new \in FrecRecord /\ SameQuery(new, rec)
      /\ sent # {} => /\ new.sentto \in Range(servers)
                      /\ Eligible(new.sentto, type, domain) /\ Counts(rec, new)
  <2> DEFINE T == {s \in Range(servers) : Eligible(s, type, domain)}
  <2>1. T \in SUBSET Server
    BY DEF Range
  <2> HIDE DEF sent, ring
  <2>2. \A k \in sent : ring[k] \in T
    BY <1>3
  <2>3. /\ new \in FrecRecord /\ SameQuery(new, rec)
        /\ sent # {} => new.sentto \in T /\ Counts(rec, new)
    <3> HIDE DEF T
    <3> QED BY <1>2, <1>3, <2>1, <2>2, SentRecordOK DEF new
  <2> QED
    BY <2>3
<1>6. out.sent = (sent # {}) /\ out.srv_save = new.sentto
      /\ out.table = IF sent = {} THEN FreeFrecs(held, {i}) ELSE held
  BY <1>1 DEF Outcome
<1> HIDE DEF base, new, sent, ring
<1>7. /\ TableOK(held) /\ held.frecs[i] = new
      /\ \A j \in Frec \ {i} : held.frecs[j] = t.frecs[j]
  <2>1. base \in TableType
    BY <1>4 DEF TableOK
  <2>2. held \in TableType /\ held.count = base.count
        /\ held.frecs = [base.frecs EXCEPT ![i] = new]
    BY <1>5, <2>1 DEF TableType
  <2>3. InUse(held) \subseteq InUse(base) \cup {i}
    BY <2>1, <2>2 DEF InUse, TableType
  <2>4. i \in 1..t.count
    BY Constants, TableOK(t) DEF Frec, TableOK, TableType
  <2> HIDE DEF held
  <2>5. TableOK(held)
    BY <1>4, <2>2, <2>3, <2>4 DEF TableOK
  <2> QED
    BY <1>4, <2>1, <2>2, <2>5 DEF TableType
<1> HIDE DEF held
<1>8. CASE sent = {}
  <2>1. out.table = FreeFrecs(held, {i}) /\ out.sent = FALSE
    BY <1>6, <1>8
  <2>2. /\ TableOK(out.table) /\ i \notin InUse(out.table)
        /\ \A j \in Frec \ {i} : out.table.frecs[j] = held.frecs[j]
    BY <1>7, <2>1, FreeFrecsOK DEF Freed
  <2> QED
    BY <1>7, <2>1, <2>2
<1>9. CASE sent # {}
  <2>1. out.table = held /\ out.sent = TRUE
    BY <1>6, <1>9
  <2> QED
    BY <1>5, <1>6, <1>7, <1>9, <2>1
<1> QED
  BY <1>8, <1>9

-----------------------------------------------------------------------------
(* The inductive invariant *)

(* Of the table: its types, and the three properties of the records in use.  *)
TableInv(t) ==
    /\ TableOK(t)
    /\ UniqueIdsIn(t) /\ UniqueSenderIn(t)
    /\ \A j \in InUse(t) : t.frecs[j].sentto \in Range(servers)

IInv ==
    /\ options \in OptionSets
    /\ servers \in Seq(Server) /\ locals \subseteq Interfaces
    /\ TableInv(Table)
    /\ last_server \in Range(servers) \cup {NoServer}
    /\ srv_save \in Range(servers) \cup {NoServer}
    /\ toRead \in 0..Listeners /\ awaiting \subseteq Senders

(* The records of t2 wait for the same servers, with the same queries, as they
   did in t1, or are not in use.                                            *)
Alike(t1, t2) ==
    \A j \in InUse(t2) : /\ j \in InUse(t1)
                         /\ SameQuery(t2.frecs[j], t1.frecs[j])
                         /\ t2.frecs[j].sentto = t1.frecs[j].sentto

(* The invariant of the table does not depend on ages, counts and sockets. *)
LEMMA AlikeInv ==
    ASSUME NEW t1, TableInv(t1), NEW t2, TableOK(t2), Alike(t1, t2)
    PROVE  TableInv(t2)
<1>1. UniqueIdsIn(t2)
  BY DEF TableInv, Alike, SameQuery, UniqueIdsIn
<1>2. UniqueSenderIn(t2)
  BY DEF TableInv, Alike, SameQuery, UniqueSenderIn, SenderOf
<1>3. \A j \in InUse(t2) : t2.frecs[j].sentto \in Range(servers)
  BY DEF TableInv, Alike
<1> QED
  BY <1>1, <1>2, <1>3 DEF TableInv

(* A table that has fewer records in use keeps the invariant. *)
LEMMA FewerInv ==
    ASSUME NEW t1, TableInv(t1), NEW t2, TableOK(t2), Fewer(t1, t2)
    PROVE  TableInv(t2)
<1>1. Alike(t1, t2)
  BY DEF Fewer, Alike, SameQuery
<1> QED
  BY <1>1, AlikeInv

(* Freeing records keeps the invariant. *)
LEMMA FreeFrecsInv ==
    ASSUME NEW t, TableInv(t), NEW F \in SUBSET Frec
    PROVE  TableInv(FreeFrecs(t, F))
<1>1. TableOK(t)
  BY DEF TableInv
<1>2. TableOK(FreeFrecs(t, F)) /\ Fewer(t, FreeFrecs(t, F))
  BY <1>1, FreeFrecsOK, FreeFrecsFewer
<1> QED
  BY <1>2, FewerInv

(* Changing how long a record has waited, and for whom, keeps the invariant. *)
LEMMA RecordInv ==
    ASSUME NEW t, TableInv(t), NEW n, n.frecs \in [Frec -> FrecRecord],
           n = [frecs |-> n.frecs, count |-> t.count, socks |-> t.socks],
           \A j \in Frec : /\ SameQuery(n.frecs[j], t.frecs[j])
                           /\ n.frecs[j].sentto = t.frecs[j].sentto
    PROVE  TableInv(n) /\ InUse(n) = InUse(t)
<1>1. t \in TableType /\ InUse(t) \subseteq 1..t.count
  BY DEF TableInv, TableOK
<1>2. n \in TableType /\ n.count = t.count
  BY <1>1 DEF TableType
<1>3. InUse(n) = InUse(t)
  BY DEF InUse
<1>4. TableOK(n)
  BY <1>1, <1>2, <1>3 DEF TableOK
<1>5. Alike(t, n)
  BY <1>3 DEF Alike, InUse
<1> QED
  BY <1>3, <1>4, <1>5, AlikeInv

(* Waiting in select keeps the invariant. *)
LEMMA AgedInv ==
    ASSUME NEW t, TableInv(t), NEW seconds \in Nat
    PROVE  TableInv(Aged(t, seconds))
<1> DEFINE age(i) == Min({t.frecs[i].age + seconds, 4 * TIMEOUT})
           n      == Aged(t, seconds)
<1>0. t \in TableType
  BY DEF TableInv, TableOK
<1>1. \A i \in Frec : t.frecs[i] \in FrecRecord
  BY <1>0 DEF TableType
<1>2. ASSUME NEW i \in Frec PROVE age(i) \in 0..(4 * TIMEOUT)
  <2> DEFINE S == {t.frecs[i].age + seconds, 4 * TIMEOUT}
  <2>1. t.frecs[i].age \in Nat /\ 4 * TIMEOUT \in Nat
    BY <1>1, Constants DEF FrecRecord
  <2>2. S \in SUBSET Nat /\ S # {} /\ 4 * TIMEOUT \in S
    BY <2>1
  <2>3. Min(S) \in S /\ \A x \in S : Min(S) <= x
    <3> HIDE DEF S
    <3> QED BY <2>2, MinInSet
  <2> HIDE DEF S
  <2>4. Min(S) \in Nat /\ Min(S) <= 4 * TIMEOUT
    BY <2>2, <2>3
  <2> QED
    BY <2>1, <2>4 DEF S
<1>3. n = [t EXCEPT !.frecs = [i \in Frec |->
              IF i \in InUse(t) THEN [t.frecs[i] EXCEPT !.age = age(i)] ELSE t.frecs[i]]]
  BY DEF Aged
<1> HIDE DEF age, n
<1>4. /\ n.frecs = [i \in Frec |->
              IF i \in InUse(t) THEN [t.frecs[i] EXCEPT !.age = age(i)] ELSE t.frecs[i]]
      /\ n = [frecs |-> n.frecs, count |-> t.count, socks |-> t.socks]
  BY <1>0, <1>3 DEF TableType
<1>5. ASSUME NEW i \in Frec
      PROVE  /\ n.frecs[i] \in FrecRecord
             /\ SameQuery(n.frecs[i], t.frecs[i])
             /\ n.frecs[i].sentto = t.frecs[i].sentto
  BY <1>1, <1>2, <1>4 DEF FrecRecord, SameQuery
<1>6. n.frecs \in [Frec -> FrecRecord]
  BY <1>4, <1>5
<1> QED
  BY <1>4, <1>5, <1>6, RecordInv DEF n

(* Nothing in t but record i is the query of rec, nor has its id and question. *)
NoConflict(t, i, rec) ==
    \A j \in InUse(t) \ {i} :
        /\ SenderOf(t.frecs[j]) # SenderOf(rec)
        /\ t.frecs[j].new_id = rec.new_id /\ t.frecs[j].crc = rec.crc =>
              rec.crc = UnknownCrc

(* Sending a query that conflicts with no other keeps the invariant, and the
   server it was last sent to is in the list.                               *)
LEMMA TransmitInv ==
    ASSUME NEW t, TableInv(t), NEW i \in Frec, i <= t.count,
           NEW rec \in FrecRecord, NoConflict(t, i, rec),
           servers \in Seq(Server), NEW start \in Range(servers),
           NEW type, NEW domain, NEW out \in Transmit(t, i, rec, start, type, domain)
    PROVE  /\ TableInv(out.table) /\ out.sent \in BOOLEAN
           /\ out.sent => out.srv_save \in Range(servers)
<1> DEFINE n == out.table
<1>0. TableOK(t)
  BY DEF TableInv
<1>1. /\ TableOK(n) /\ out.sent \in BOOLEAN
      /\ \A j \in Frec \ {i} : n.frecs[j] = t.frecs[j]
      /\ out.sent => /\ SameQuery(n.frecs[i], rec)
                     /\ n.frecs[i].sentto \in Range(servers)
                     /\ out.srv_save \in Range(servers)
      /\ ~out.sent => i \notin InUse(n)
  BY <1>0, TransmitOK
<1> HIDE DEF n
<1>2. \A j \in InUse(n) : j # i => j \in InUse(t) /\ n.frecs[j] = t.frecs[j]
  BY <1>1 DEF InUse
<1>3. CASE ~out.sent
  <2>1. Fewer(t, n)
    BY <1>1, <1>2, <1>3 DEF Fewer
  <2> QED
    BY <1>1, <1>3, <2>1, FewerInv DEF n
<1>4. CASE out.sent
  <2>1. SameQuery(n.frecs[i], rec) /\ n.frecs[i].sentto \in Range(servers)
    BY <1>1, <1>4
  <2>2. UniqueIdsIn(n)
    <3> SUFFICES ASSUME NEW j \in InUse(n), NEW k \in InUse(n), j # k,
                        n.frecs[j].new_id = n.frecs[k].new_id,
                        n.frecs[j].crc = n.frecs[k].crc, n.frecs[j].crc # UnknownCrc
                 PROVE  FALSE
      BY DEF UniqueIdsIn
    <3>1. CASE j # i /\ k # i
      BY <1>2, <3>1 DEF TableInv, UniqueIdsIn
    <3>2. CASE j = i \/ k = i
      BY <1>2, <2>1, <3>2 DEF NoConflict, SameQuery
    <3> QED
      BY <3>1, <3>2
  <2>3. UniqueSenderIn(n)
    <3> SUFFICES ASSUME NEW j \in InUse(n), NEW k \in InUse(n), j # k,
                        SenderOf(n.frecs[j]) = SenderOf(n.frecs[k])
                 PROVE  FALSE
      BY DEF UniqueSenderIn
    <3>1. SenderOf(n.frecs[i]) = SenderOf(rec)
      BY <2>1 DEF SameQuery, SenderOf
    <3>2. CASE j # i /\ k # i
      BY <1>2, <3>2 DEF TableInv, UniqueSenderIn
    <3>3. CASE j = i
      BY <1>2, <3>1, <3>3 DEF NoConflict
    <3>4. CASE k = i
      BY <1>2, <3>1, <3>4 DEF NoConflict
    <3> QED
      BY <3>2, <3>3, <3>4
  <2>4. \A j \in InUse(n) : n.frecs[j].sentto \in Range(servers)
    BY <1>2, <2>1 DEF TableInv
  <2> QED
    BY <1>1, <1>4, <2>2, <2>3, <2>4 DEF TableInv, n
<1> QED
  BY <1>1, <1>3, <1>4

(* The record that is sent again, and the server from which the loop starts. *)
Again(rec) == [rec EXCEPT !.forwardall = IF "order" \in options THEN @ ELSE 1]
SendsTo(s) == [type |-> ServerAttr[s].type, domain |-> ServerAttr[s].domain]

LEMMA ResendIs ==
    ASSUME NEW t, TableInv(t), NEW i \in InUse(t), servers \in Seq(Server)
    PROVE  LET old == t.frecs[i]
               rec == Again(old)
           IN  /\ Resend(t, i) = Transmit(t, i, rec, NextServer(old.sentto),
                                          SendsTo(old.sentto).type, SendsTo(old.sentto).domain)
               /\ TableOK(t) /\ i \in Frec /\ i <= t.count
               /\ old \in FrecRecord /\ old.sentto \in Range(servers)
               /\ rec \in FrecRecord /\ SameQuery(rec, old) /\ rec.rfd = old.rfd
               /\ rec.forwardall \in {old.forwardall, 1}
               /\ NextServer(old.sentto) \in Range(servers)
<1> DEFINE old   == t.frecs[i]
           waits == IF "order" \in options THEN old.forwardall ELSE 1
           rec   == Again(old)
           start == NextServer(old.sentto)
<1>1. Resend(t, i) = Transmit(t, i, rec, start, SendsTo(old.sentto).type,
                              SendsTo(old.sentto).domain)
  BY DEF Resend, Again, SendsTo
<1>2. TableOK(t) /\ old.sentto \in Range(servers)
  BY DEF TableInv
<1>3. i \in Frec /\ i <= t.count /\ old \in FrecRecord
  BY <1>2, InUseType DEF TableOK
<1>4. /\ rec \in FrecRecord /\ SameQuery(rec, old) /\ rec.rfd = old.rfd
      /\ rec.forwardall \in {old.forwardall, 1}
  <2>1. waits \in Nat /\ waits \in {old.forwardall, 1}
    BY <1>3 DEF FrecRecord
  <2>2. rec = [old EXCEPT !.forwardall = waits]
    BY DEF Again
  <2> HIDE DEF old, waits, rec
  <2> QED BY <1>3, <2>1, <2>2 DEF FrecRecord, SameQuery
<1>5. start \in Range(servers)
  <2>1. /\ Len(servers) \in Nat /\ Len(servers) # 0
        /\ \A k \in 1..Len(servers) : Ring(old.sentto)[k] \in Range(servers)
    BY <1>2, RingOK
  <2>2. (IF Len(servers) = 1 THEN 1 ELSE 2) \in 1..Len(servers)
    <3>1. \A n \in Nat : n # 0 => (IF n = 1 THEN 1 ELSE 2) \in 1..n
      OBVIOUS
    <3> QED BY <2>1, <3>1
  <2> QED
    BY <2>1, <2>2 DEF NextServer
<1> QED
  BY <1>1, <1>2, <1>3, <1>4, <1>5

(* A server of the list asked again, or another one after it: the record has
   the query it had, so it conflicts with none.                             *)
LEMMA ResendInv ==
    ASSUME NEW t, TableInv(t), NEW i \in InUse(t), servers \in Seq(Server),
           NEW out \in Resend(t, i)
    PROVE  /\ TableInv(out.table) /\ out.sent \in BOOLEAN
           /\ out.sent => out.srv_save \in Range(servers)
<1> DEFINE old == t.frecs[i]
           rec == Again(old)
<1>1. /\ out \in Transmit(t, i, rec, NextServer(old.sentto), SendsTo(old.sentto).type,
                          SendsTo(old.sentto).domain)
      /\ i \in Frec /\ i <= t.count /\ rec \in FrecRecord /\ SameQuery(rec, old)
      /\ NextServer(old.sentto) \in Range(servers)
  BY ResendIs
<1>2. NoConflict(t, i, rec)
  <2>1. SenderOf(rec) = SenderOf(old) /\ rec.new_id = old.new_id /\ rec.crc = old.crc
    BY <1>1 DEF SameQuery, SenderOf
  <2> HIDE DEF rec
  <2> SUFFICES ASSUME NEW j \in InUse(t) \ {i}
               PROVE  /\ SenderOf(t.frecs[j]) # SenderOf(rec)
                      /\ t.frecs[j].new_id = rec.new_id /\ t.frecs[j].crc = rec.crc =>
                            rec.crc = UnknownCrc
    BY DEF NoConflict
  <2>2. SenderOf(t.frecs[j]) # SenderOf(old)
    BY DEF TableInv, UniqueSenderIn
  <2>3. t.frecs[j].new_id = old.new_id /\ t.frecs[j].crc = old.crc => old.crc = UnknownCrc
    BY DEF TableInv, UniqueIdsIn
  <2> QED
    BY <2>1, <2>2, <2>3
<1> HIDE DEF rec, old
<1> QED
  BY <1>1, <1>2, TransmitInv

-----------------------------------------------------------------------------
(* The steps *)

(* No server is, or becomes, an address of this machine: check_servers drops
   one that is, without server_gone, and then NoDangling fails.             *)
NoLocalServer == \A s \in RealServer : ServerAttr[s].addr \notin Interfaces

(* The table the state has is one. *)
LEMMA TableNow ==
    /\ Table.frecs = frecs /\ Table.count = count /\ Table.socks = socks
    /\ Table.frecs' = frecs' /\ Table.count' = count' /\ Table.socks' = socks'
BY DEF Table

(* A step that leaves the servers and sets the table to one with the invariant
   has it afterwards.                                                       *)
LEMMA SetTableInv ==
    ASSUME NEW t, TableInv(t), SetTable(t), servers' = servers
    PROVE  TableInv(Table)'
<1>1. Table' = [frecs |-> t.frecs, count |-> t.count, socks |-> t.socks]
  BY DEF Table, SetTable
<1>2. t \in TableType
  BY DEF TableInv, TableOK
<1>3. Table' = t
  BY <1>1, <1>2 DEF TableType
<1>4. TableOK(t) /\ TableOK(Table)' = TableOK(Table')
  BY DEF TableInv, TableOK, InUse
<1>5. TableOK(Table)'
  BY <1>3, <1>4
<1>6. UniqueIdsIn(Table)'
  BY <1>3 DEF TableInv, UniqueIdsIn, InUse
<1>7. UniqueSenderIn(Table)'
  BY <1>3 DEF TableInv, UniqueSenderIn, InUse, SenderOf
<1>8. (\A j \in InUse(Table) : Table.frecs[j].sentto \in Range(servers))'
  BY <1>3 DEF TableInv, InUse, Range
<1> QED
  BY <1>5, <1>6, <1>7, <1>8 DEF TableInv

(* Before the first turn of the loop no record is in use. *)
LEMMA InitInv == Init => IInv
<1> SUFFICES ASSUME Init PROVE IInv
  OBVIOUS
<1>1. servers \in Seq(Server) /\ options \in OptionSets /\ locals \subseteq Interfaces
  BY ForwardAssumption DEF Init
<1>2. InUse(Table) = {}
  BY FreeFrecType DEF Init, InUse, Table
<1>3. frecs \in [Frec -> FrecRecord] /\ count \in 0..(FtabSize + 1)
  BY FreeFrecType, Constants DEF Init
<1>4. socks \in [Slot -> RandFd]
  <2>1. [refcount |-> 0, family |-> "unspec", open |-> FALSE] \in RandFd
    BY DEF RandFd
  <2> QED
    BY <2>1 DEF Init
<1>5. TableOK(Table)
  <2>1. Table \in TableType
    BY <1>3, <1>4 DEF Table, TableType
  <2> QED
    BY <1>2, <2>1 DEF TableOK
<1>6. TableInv(Table)
  BY <1>2, <1>5 DEF TableInv, UniqueIdsIn, UniqueSenderIn
<1>7. toRead \in 0..Listeners /\ awaiting \subseteq Senders
  BY ForwardAssumption DEF Init
<1>8. last_server = NoServer /\ srv_save = NoServer
  BY DEF Init
<1> QED
  BY <1>1, <1>6, <1>7, <1>8 DEF IInv

(* A turn of the loop. *)
LEMMA SelectInv ==
    ASSUME IInv, NEW seconds \in 0..(4 * TIMEOUT), Select(seconds)
    PROVE  IInv'
<1> DEFINE new == GetNewFrec(Table, TRUE)
<1>1. TableInv(Table) /\ TableOK(Table)
  BY DEF IInv, TableInv
<1>2. TableOK(new.table) /\ Fewer(Table, new.table)
  BY <1>1, GetNewFrecOK
<1>3. TableInv(new.table)
  BY <1>1, <1>2, FewerInv
<1>4. seconds \in Nat
  BY Constants
<1>5. TableInv(Aged(new.table, seconds))
  BY <1>3, <1>4, AgedInv
<1>6. /\ SetTable(Aged(new.table, seconds))
      /\ toRead' = IF new.delay = 0 THEN Listeners ELSE 0
      /\ UNCHANGED <<options, servers, locals, last_server, srv_save, awaiting>>
  BY DEF Select
<1> HIDE DEF new
<1>7. TableInv(Table)'
  BY <1>5, <1>6, SetTableInv
<1>8. toRead' \in 0..Listeners
  BY <1>6, ForwardAssumption
<1> QED
  BY <1>6, <1>7, <1>8 DEF IInv, Range, Senders

(* A new interface. *)
LEMMA NewInterfaceInv ==
    ASSUME IInv, NEW a \in Interfaces, NewInterface(a)
    PROVE  IInv'
<1>1. /\ locals' = locals \cup {a}
      /\ UNCHANGED <<options, servers, frecs, count, socks, last_server, srv_save,
                     toRead, awaiting>>
  BY DEF NewInterface
<1>2. SetTable(Table) /\ TableInv(Table)
  BY <1>1 DEF SetTable, Table, IInv
<1>3. TableInv(Table)'
  BY <1>1, <1>2, SetTableInv
<1> QED
  BY <1>1, <1>3 DEF IInv, Range, Senders

(* Servers that leave the list take the records that wait for them along. *)
LEMMA ServersGoneInv ==
    ASSUME IInv, NEW gone, ServersGone(gone), NEW list \in Seq(Server), servers' = list,
           Range(servers) \ gone \subseteq Range(list),
           UNCHANGED <<options, locals, toRead, awaiting>>
    PROVE  IInv'
<1> DEFINE F == {i \in InUse(Table) : frecs[i].sentto \in gone}
           n == FreeFrecs(Table, F)
<1>1. TableInv(Table) /\ TableOK(Table)
  BY DEF IInv, TableInv
<1>2. F \in SUBSET Frec
  BY DEF InUse
<1>3. /\ TableOK(n) /\ TableInv(n) /\ Freed(Table, n, F) /\ InUse(n) = InUse(Table) \ F
  <2> HIDE DEF F
  <2> QED BY <1>1, <1>2, FreeFrecsOK, FreeFrecsInv
<1>4. ASSUME NEW j \in InUse(n) PROVE n.frecs[j].sentto \in Range(list)
  <2>1. j \in InUse(Table) /\ j \notin F /\ j \in Frec
    BY <1>3 DEF InUse
  <2>2. n.frecs[j] = frecs[j]
    BY <1>3, <2>1, TableNow DEF Freed
  <2>3. frecs[j].sentto \in Range(servers) \ gone
    BY <1>1, <2>1, TableNow DEF TableInv
  <2> QED
    BY <2>2, <2>3
<1>5. SetTable(n)
  BY DEF ServersGone
<1> HIDE DEF n
<1>6. Table' = n
  <2>1. Table' = [frecs |-> n.frecs, count |-> n.count, socks |-> n.socks]
    BY <1>5 DEF Table, SetTable
  <2> QED
    BY <1>3, <2>1 DEF TableOK, TableType
<1>7. TableOK(Table)' /\ UniqueIdsIn(Table)' /\ UniqueSenderIn(Table)'
  <2>1. TableOK(n) /\ UniqueIdsIn(n) /\ UniqueSenderIn(n)
    BY <1>3 DEF TableInv
  <2>2. TableOK(Table)'
    BY <1>6, <2>1 DEF TableOK, InUse
  <2>3. UniqueIdsIn(Table)'
    BY <1>6, <2>1 DEF UniqueIdsIn, InUse
  <2>4. UniqueSenderIn(Table)'
    BY <1>6, <2>1 DEF UniqueSenderIn, InUse, SenderOf
  <2> QED
    BY <2>2, <2>3, <2>4
<1>8. (\A j \in InUse(Table) : Table.frecs[j].sentto \in Range(servers))'
  BY <1>4, <1>6 DEF InUse, Range
<1>9. TableInv(Table)'
  BY <1>7, <1>8 DEF TableInv
<1>10. Range(list) = Range(servers)'
  BY DEF Range
<1>11. last_server' \in Range(list) \cup {NoServer}
  BY DEF ServersGone, IInv
<1>12. srv_save' \in Range(list) \cup {NoServer}
  BY DEF ServersGone, IInv
<1> QED
  BY <1>9, <1>10, <1>11, <1>12 DEF IInv, Senders

(* What a reload leaves of the list: the servers that are not gone, if none is
   an address of this machine.                                              *)
LEMMA ReloadKeeps ==
    ASSUME NoLocalServer, servers \in Seq(Server), locals \subseteq Interfaces,
           NEW file \in ResolvFiles
    PROVE  LET reloaded == ReloadServers(servers, file)
               checked  == CheckServers(reloaded, locals)
               stay     == Range(servers) \ Replaced(servers, file)
           IN  /\ reloaded \in Seq(Server) /\ checked \in Seq(Server)
               /\ stay \subseteq Range(reloaded) /\ stay \subseteq Range(checked)
<1> DEFINE reloaded == ReloadServers(servers, file)
           checked  == CheckServers(reloaded, locals)
           stay     == Range(servers) \ Replaced(servers, file)
<1>1. file \in Seq(FromResolv) \cup {Unread}
  BY ForwardAssumption
<1>2. reloaded \in Seq(Server)
  BY <1>1, ReloadServersType
<1>3. stay \subseteq Range(reloaded)
  <2>1. CASE file = Unread
    BY <2>1 DEF ReloadServers
  <2>2. CASE file # Unread
    <3>1. Range(servers) \cap CommandLine \subseteq Range(reloaded)
      BY <1>1, <2>2, ReloadServersRange
    <3>2. stay \subseteq Range(servers) \cap CommandLine
      BY <2>2 DEF Replaced, Range, CommandLine
    <3> QED
      BY <3>1, <3>2
  <2> QED
    BY <2>1, <2>2
<1> HIDE DEF reloaded
<1>4. checked \in Seq(Server)
  <2>1. checked \in Seq(Server \cap UsableServers(locals))
    BY <1>2, CheckServersType
  <2> HIDE DEF checked
  <2> QED BY <2>1
<1>5. Range(checked) = Range(reloaded) \cap UsableServers(locals)
  BY <1>2, CheckServersRange
<1> HIDE DEF checked
<1>6. Server \subseteq UsableServers(locals) /\ stay \subseteq Server
  BY DEF NoLocalServer, RealServer, UsableServers, Range
<1> QED
  BY <1>2, <1>3, <1>4, <1>5, <1>6 DEF reloaded, checked

(* /etc/resolv.conf changed. *)
LEMMA PollResolvInv ==
    ASSUME NoLocalServer, IInv, NEW file \in ResolvFiles, PollResolv(file)
    PROVE  IInv'
<1> DEFINE gone == Replaced(servers, file)
           reloaded == ReloadServers(servers, file)
           list == IF GotOne(file) THEN CheckServers(reloaded, locals) ELSE reloaded
<1>1. servers \in Seq(Server) /\ locals \subseteq Interfaces
  BY DEF IInv
<1>2. list \in Seq(Server) /\ Range(servers) \ gone \subseteq Range(list)
  BY <1>1, ReloadKeeps
<1>3. ServersGone(gone) /\ servers' = list /\ UNCHANGED <<options, locals, toRead, awaiting>>
  BY DEF PollResolv
<1> HIDE DEF gone, list
<1> QED
  BY <1>2, <1>3, ServersGoneInv

(* SIGHUP with --no-poll. *)
LEMMA HangUpInv ==
    ASSUME NoLocalServer, IInv, NEW file \in ResolvFiles, HangUp(file)
    PROVE  IInv'
<1> DEFINE gone == Replaced(servers, file)
           list == CheckServers(ReloadServers(servers, file), locals)
<1>1. servers \in Seq(Server) /\ locals \subseteq Interfaces
  BY DEF IInv
<1>2. list \in Seq(Server) /\ Range(servers) \ gone \subseteq Range(list)
  BY <1>1, ReloadKeeps
<1>3. ServersGone(gone) /\ servers' = list /\ UNCHANGED <<options, locals, toRead, awaiting>>
  BY DEF HangUp
<1> HIDE DEF gone, list
<1> QED
  BY <1>2, <1>3, ServersGoneInv

(* What a handler does to the rest of the state: it sets the table to one with
   the invariant, and remembers servers of the list only.                   *)
LEMMA HandlerInv ==
    ASSUME IInv, NEW t, TableInv(t), SetTable(t),
           last_server' \in Range(servers) \cup {NoServer},
           srv_save' \in Range(servers) \cup {NoServer},
           toRead' \in 0..Listeners, awaiting' \subseteq Senders,
           UNCHANGED <<options, servers, locals>>
    PROVE  IInv'
<1>1. TableInv(Table)'
  BY SetTableInv
<1>2. Range(servers)' = Range(servers) /\ Senders' = Senders
  BY DEF Range, Senders
<1> QED
  BY <1>1, <1>2 DEF IInv

(* The table as it is has the invariant. *)
LEMMA Here ==
    ASSUME IInv
    PROVE  /\ TableInv(Table) /\ TableOK(Table) /\ servers \in Seq(Server)
           /\ UNCHANGED <<frecs, count, socks>> => SetTable(Table)
BY DEF IInv, TableInv, SetTable, Table

(* Reading a query takes one listening socket. *)
LEMMA ReadsInv ==
    ASSUME IInv, NEW r \in Request, Reads(r)
    PROVE  /\ toRead' \in 0..Listeners /\ UNCHANGED <<options, servers, locals>>
           /\ (Awaits(r) \/ AnsweredNow) => awaiting' \subseteq Senders
<1>1. toRead \in 0..Listeners /\ Listeners \in Nat
  BY ForwardAssumption DEF IInv
<1>2. toRead' \in 0..Listeners
  BY <1>1 DEF Reads
<1>3. Sender(r) \in Senders
  BY DEF Senders
<1>4. (Awaits(r) \/ AnsweredNow) => awaiting' \subseteq Senders
  BY <1>3 DEF IInv, Awaits, AnsweredNow
<1> QED
  BY <1>2, <1>4 DEF Reads

(* A query that is answered at once. *)
LEMMA AnswerLocallyInv ==
    ASSUME IInv, NEW r \in Request, AnswerLocally(r)
    PROVE  IInv'
<1>1. Reads(r) /\ AnsweredNow /\ srv_save' = NoServer /\ SetTable(Table)
      /\ last_server' = last_server
  BY Here DEF AnswerLocally
<1>2. last_server \in Range(servers) \cup {NoServer} /\ TableInv(Table)
  BY DEF IInv
<1> QED
  BY <1>1, <1>2, ReadsInv, HandlerInv

(* A client's retry. *)
LEMMA RetryQueryInv ==
    ASSUME IInv, NEW r \in Request, RetryQuery(r)
    PROVE  IInv'
<1>1. PICK i \in BySender(Table, r) : \E out \in Resend(Table, i) :
         Sent(out) /\ (Awaits(r) \/ AnsweredNow)
  BY DEF RetryQuery
<1>2. PICK out \in Resend(Table, i) : Sent(out) /\ (Awaits(r) \/ AnsweredNow)
  BY <1>1
<1>3. Reads(r) /\ last_server' = ForgetLastServer
  BY DEF RetryQuery
<1>4. i \in InUse(Table)
  BY DEF BySender
<1>5. TableInv(out.table) /\ (out.sent => out.srv_save \in Range(servers))
  BY <1>4, Here, ResendInv
<1>6. SetTable(out.table) /\ srv_save' \in Range(servers) \cup {NoServer}
  BY <1>2, <1>5 DEF Sent
<1>7. last_server' \in Range(servers) \cup {NoServer}
  BY <1>3 DEF ForgetLastServer, IInv
<1> QED
  BY <1>2, <1>3, <1>5, <1>6, <1>7, ReadsInv, HandlerInv

(* The record of a new query. *)
LEMMA NewFrecOK ==
    ASSUME NEW r \in RequestRecord, NEW id \in MsgId, NEW found
    PROVE  LET rec == NewFrec(r, id, found) IN
           /\ rec \in FrecRecord /\ rec.forwardall \in {0, 1} /\ rec.rfd = NoRfd
           /\ SenderOf(rec) = Sender(r) /\ rec.new_id = id /\ rec.crc = r.crc
<1> DEFINE all == IF /\ found.type = "plain" /\ "order" \notin options
                     /\ last_server = NoServer THEN 1 ELSE 0
           rec == NewFrec(r, id, found)
<1>1. TIMEOUT \in Nat
  BY Constants
<1>2. 0 \in 0..(4 * TIMEOUT) /\ NoRfd \in [Family -> Slot \cup {NoSlot}]
  BY <1>1 DEF NoRfd
<1>3. r.client \in Client /\ r.id \in MsgId /\ r.crc \in Crc
  BY DEF RequestRecord
<1>4. all \in {0, 1}
  OBVIOUS
<1>5. rec = [sentto |-> NoServer, source |-> r.client, orig_id |-> r.id, new_id |-> id,
             crc |-> r.crc, forwardall |-> all, age |-> 0, rfd |-> NoRfd]
  BY DEF NewFrec
<1> HIDE DEF all, rec
<1>6. /\ rec \in FrecRecord /\ rec.forwardall \in {0, 1} /\ rec.rfd = NoRfd
      /\ SenderOf(rec) = Sender(r) /\ rec.new_id = id /\ rec.crc = r.crc
  BY <1>2, <1>3, <1>4, <1>5 DEF FrecRecord, SenderOf, Sender
<1> QED
  BY <1>6 DEF rec

(* What a new query that is forwarded finds: a record and an id for it, in a
   table that has no more records in use than the state's, and a place to start. *)
LEMMA ForwardNewIs ==
    ASSUME IInv, NEW r \in Request, ForwardNew(r)
    PROVE  LET found == Search(r)
               new   == GetNewFrec(Table, FALSE)
               start == StartServer(found)
           IN
           /\ Reads(r) /\ last_server' = last_server
           /\ BySender(Table, r) = {} /\ found.flags = "none"
           /\ TableInv(new.table) /\ new.frec \in Frec
           /\ new.frec \in InUse(Table) => frecs[new.frec].age >= TIMEOUT
           /\ start \in Range(servers)
           /\ \E got \in GetId(new.table, r) :
                /\ TableInv(got.table) /\ got.id \in MsgId
                /\ \A j \in InUse(got.table) : /\ j \in InUse(Table) /\ j # new.frec
                                              /\ got.table.frecs[j] = frecs[j]
                /\ new.frec <= got.table.count
                /\ r.crc # UnknownCrc => Matching(got.table, got.id, r.crc) = {}
                /\ \E out \in Transmit(got.table, new.frec, NewFrec(r, got.id, found), start,
                                        found.type, found.domain) :
                     Sent(out) /\ IF out.sent THEN Awaits(r) ELSE AnsweredNow
<1> DEFINE found == Search(r)
           new   == GetNewFrec(Table, FALSE)
           start == StartServer(found)
<1>1. /\ Reads(r) /\ servers # <<>> /\ BySender(Table, r) = {} /\ new.frec # NoFrec
      /\ last_server' = last_server /\ found.flags = "none"
  BY DEF ForwardNew
<1>2. PICK got \in GetId(new.table, r) :
        \E out \in Transmit(got.table, new.frec, NewFrec(r, got.id, found), start,
                            found.type, found.domain) :
           Sent(out) /\ IF out.sent THEN Awaits(r) ELSE AnsweredNow
  BY DEF ForwardNew
<1>3. r \in RequestRecord /\ servers \in Seq(Server)
  BY Here, ForwardAssumption
<1>4. /\ TableOK(new.table) /\ Fewer(Table, new.table)
      /\ new.frec \in Frec /\ new.frec <= new.table.count
      /\ new.frec \notin InUse(new.table)
      /\ new.frec \in InUse(Table) => Table.frecs[new.frec].age >= TIMEOUT
  BY <1>1, Here, GetNewFrecOK
<1>5. TableInv(new.table)
  BY <1>4, Here, FewerInv
<1> HIDE DEF new, found
<1>6. /\ TableOK(got.table) /\ Fewer(new.table, got.table) /\ got.id \in MsgId
      /\ got.table.count = new.table.count
      /\ r.crc # UnknownCrc => Matching(got.table, got.id, r.crc) = {}
  BY <1>3, <1>5, GetIdOK DEF TableInv
<1>7. TableInv(got.table)
  BY <1>5, <1>6, FewerInv
<1>8. \A j \in InUse(got.table) : /\ j \in InUse(Table) /\ j # new.frec
                                 /\ got.table.frecs[j] = frecs[j]
  BY <1>4, <1>6, TableNow DEF Fewer
<1>9. start \in Range(servers)
  <2>1. servers[1] \in Range(servers)
    BY <1>1, <1>3 DEF Range
  <2> QED
    BY <2>1 DEF StartServer, IInv
<1>10. new.frec \in InUse(Table) => frecs[new.frec].age >= TIMEOUT
  BY <1>4, TableNow
<1> HIDE DEF start
<1>11. new.frec <= got.table.count
  BY <1>4, <1>6
<1> QED
  BY <1>1, <1>2, <1>4, <1>5, <1>6, <1>7, <1>8, <1>9, <1>10, <1>11 DEF new, found, start

(* A new query that is forwarded: the record is vacant, no record is the
   client's query, and its id is taken by none with the same question.      *)
LEMMA ForwardNewInv ==
    ASSUME IInv, NEW r \in Request, ForwardNew(r)
    PROVE  IInv'
<1> DEFINE found == Search(r)
           new   == GetNewFrec(Table, FALSE)
           start == StartServer(found)
<1>1. /\ Reads(r) /\ last_server' = last_server /\ BySender(Table, r) = {}
      /\ new.frec \in Frec /\ start \in Range(servers)
  BY ForwardNewIs
<1>2. PICK got \in GetId(new.table, r) :
        /\ TableInv(got.table) /\ got.id \in MsgId
        /\ \A j \in InUse(got.table) : j \in InUse(Table) /\ got.table.frecs[j] = frecs[j]
        /\ new.frec <= got.table.count
        /\ r.crc # UnknownCrc => Matching(got.table, got.id, r.crc) = {}
        /\ \E out \in Transmit(got.table, new.frec, NewFrec(r, got.id, found), start,
                                found.type, found.domain) :
             Sent(out) /\ IF out.sent THEN Awaits(r) ELSE AnsweredNow
  BY ForwardNewIs
<1> DEFINE rec == NewFrec(r, got.id, found)
<1>3. PICK out \in Transmit(got.table, new.frec, rec, start, found.type, found.domain) :
         Sent(out) /\ (Awaits(r) \/ AnsweredNow)
  BY <1>2
<1>4. r \in RequestRecord /\ servers \in Seq(Server)
  BY Here, ForwardAssumption
<1>5. /\ rec \in FrecRecord
      /\ SenderOf(rec) = Sender(r) /\ rec.new_id = got.id /\ rec.crc = r.crc
  BY <1>2, <1>4, NewFrecOK
<1> HIDE DEF rec, new, found, start
<1>6. NoConflict(got.table, new.frec, rec)
  <2> SUFFICES ASSUME NEW j \in InUse(got.table)
               PROVE  /\ SenderOf(got.table.frecs[j]) # SenderOf(rec)
                      /\ got.table.frecs[j].new_id = rec.new_id
                         /\ got.table.frecs[j].crc = rec.crc => rec.crc = UnknownCrc
    BY DEF NoConflict
  <2>1. j \in InUse(Table) /\ got.table.frecs[j] = Table.frecs[j]
    BY <1>2, TableNow
  <2>2. SenderOf(Table.frecs[j]) # Sender(r)
    BY <1>1, <2>1 DEF BySender
  <2>3. r.crc # UnknownCrc =>
          ~ (got.table.frecs[j].new_id = got.id /\ got.table.frecs[j].crc = r.crc)
    BY <1>2 DEF Matching
  <2> QED
    BY <1>5, <2>1, <2>2, <2>3
<1>7. TableInv(out.table) /\ (out.sent => out.srv_save \in Range(servers))
  BY <1>1, <1>2, <1>3, <1>4, <1>5, <1>6, TransmitInv
<1>8. SetTable(out.table) /\ srv_save' \in Range(servers) \cup {NoServer}
  BY <1>3, <1>7 DEF Sent
<1>9. last_server' \in Range(servers) \cup {NoServer}
  BY <1>1 DEF IInv
<1> QED
  BY <1>1, <1>3, <1>7, <1>8, <1>9, ReadsInv, HandlerInv

(* A new query that is refused. *)
LEMMA RefuseNewInv ==
    ASSUME IInv, NEW r \in Request, RefuseNew(r)
    PROVE  IInv'
<1> DEFINE new == GetNewFrec(Table, FALSE)
           t   == IF Search(r).flags # "none" THEN Table ELSE new.table
<1>1. /\ Reads(r) /\ AnsweredNow /\ SetTable(t)
      /\ srv_save' = NoServer /\ last_server' = last_server
  BY DEF RefuseNew
<1>2. TableInv(Table) /\ TableInv(new.table)
  <2>1. TableOK(new.table) /\ Fewer(Table, new.table)
    BY Here, GetNewFrecOK
  <2> QED
    BY <2>1, Here, FewerInv
<1>3. TableInv(t)
  BY <1>2
<1>4. last_server \in Range(servers) \cup {NoServer}
  BY DEF IInv
<1> HIDE DEF t
<1> QED
  BY <1>1, <1>3, <1>4, ReadsInv, HandlerInv

(* A reply finds a record in use. *)
LEMMA FoundInUse ==
    ASSUME IInv, NEW i \in Found \ {NoFrec}
    PROVE  i \in InUse(Table)
<1>1. PICK id \in MsgId, crc \in Crc : i = LookupFrec(Table, id, crc)
  BY DEF Found
<1>2. i \in Matching(Table, id, crc)
  BY <1>1, Here, LookupFrecOK
<1> QED
  BY <1>2 DEF Matching

(* The table as it is, in the form the lemmas on tables use. *)
LEMMA TableHolds ==
    ASSUME IInv
    PROVE  /\ TableInv(Table)
           /\ \A j \in Frec : Table.frecs[j] \in FrecRecord
           /\ Table = [frecs |-> Table.frecs, count |-> count, socks |-> socks]
  BY Here, TableNow DEF TableOK, TableType, Table

(* An error turned back into the query. *)
LEMMA ReplyTurnedBackInv ==
    ASSUME IInv, NEW from, NEW i \in Found \ {NoFrec}, ReplyTurnedBack(from, i)
    PROVE  IInv'
<1> DEFINE t == Table
<1>1. PICK out \in Resend(t, i) : Sent(out)
  BY DEF ReplyTurnedBack
<1>2. /\ last_server' = ForgetLastServer
      /\ UNCHANGED <<options, servers, locals, toRead, awaiting>>
  BY DEF ReplyTurnedBack, Arrives
<1>3. i \in InUse(Table)
  BY FoundInUse
<1>4. TableInv(t) /\ i \in InUse(t)
  BY <1>3, TableHolds
<1> HIDE DEF t
<1>5. TableInv(out.table) /\ (out.sent => out.srv_save \in Range(servers))
  BY <1>4, Here, ResendInv
<1>6. SetTable(out.table) /\ srv_save' \in Range(servers) \cup {NoServer}
  BY <1>1, <1>5 DEF Sent
<1>7. last_server' \in Range(servers) \cup {NoServer}
  BY <1>2 DEF ForgetLastServer, IInv
<1>8. toRead' \in 0..Listeners /\ awaiting' \subseteq Senders
  BY <1>2 DEF IInv
<1> QED
  BY <1>2, <1>5, <1>6, <1>7, <1>8, HandlerInv

(* The preferred server is one of the list. *)
LEMMA PreferredInList ==
    ASSUME IInv, NEW from, NEW i \in InUse(Table), NEW error \in BOOLEAN
    PROVE  Preferred(from, i, error) \in Range(servers) \cup {NoServer}
<1> DEFINE at == {k \in 1..Len(servers) :
                    /\ ServerAttr[servers[k]].type = "plain"
                    /\ servers[k] \in RealServer \cap SameAddress(from)}
<1>1. servers \in Seq(Server) /\ frecs[i].sentto \in Range(servers)
      /\ last_server \in Range(servers) \cup {NoServer}
  BY TableNow DEF IInv, TableInv
<1>2. at # {} => Min(at) \in at
  <2>1. at \in SUBSET Nat
    BY <1>1
  <2> HIDE DEF at
  <2> QED BY <2>1, MinInSet
<1>3. GoodServer(from, i) = IF at = {} THEN frecs[i].sentto ELSE servers[Min(at)]
  BY DEF GoodServer
<1>4. \A k \in 1..Len(servers) : servers[k] \in Range(servers)
  BY <1>1 DEF Range
<1>5. at \subseteq 1..Len(servers)
  OBVIOUS
<1> HIDE DEF at
<1>6. GoodServer(from, i) \in Range(servers)
  BY <1>1, <1>2, <1>3, <1>4, <1>5
<1> QED
  BY <1>1, <1>6 DEF Preferred

(* Any other reply to a record. *)
LEMMA ReplyInv ==
    ASSUME IInv, NEW from, NEW i \in Found \ {NoFrec}, NEW error \in BOOLEAN,
           NEW sound \in BOOLEAN, Reply(from, i, error, sound)
    PROVE  IInv'
<1> DEFINE t == Table
           n == [t EXCEPT !.frecs[i].forwardall = t.frecs[i].forwardall - 1]
<1>1. /\ last_server' = Preferred(from, i, error)
      /\ srv_save' = NoServer
      /\ UNCHANGED <<options, servers, locals, toRead>>
  BY DEF Reply, Arrives
<1>2. i \in InUse(Table) /\ i \in Frec
  BY FoundInUse DEF InUse
<1>3. /\ TableInv(t) /\ InUse(t) = InUse(Table)
      /\ \A j \in Frec : t.frecs[j] \in FrecRecord
      /\ t.frecs[i].forwardall = frecs[i].forwardall
      /\ t = [frecs |-> t.frecs, count |-> count, socks |-> socks]
  BY TableHolds DEF Table
<1>4. last_server' \in Range(servers) \cup {NoServer}
  BY <1>1, <1>2, PreferredInList
<1>5. toRead' \in 0..Listeners
  BY <1>1 DEF IInv
<1>6. CASE Final(i, error)
  <2>1. SetTable(FreeFrecs(t, {i})) /\ awaiting' \subseteq awaiting
    BY <1>6 DEF Reply
  <2> HIDE DEF t
  <2>2. TableInv(FreeFrecs(t, {i}))
    BY <1>2, <1>3, FreeFrecsInv
  <2>3. awaiting' \subseteq Senders
    BY <2>1 DEF IInv
  <2> QED
    BY <1>1, <1>4, <1>5, <2>1, <2>2, <2>3, HandlerInv
<1>7. CASE ~Final(i, error)
  <2>1. SetTable(n) /\ awaiting' = awaiting
    BY <1>7 DEF Reply
  <2>2. frecs[i].forwardall \notin {0, 2}
    BY <1>7 DEF Final
  <2> HIDE DEF t
  <2> DEFINE old == t.frecs[i]
             rec == [old EXCEPT !.forwardall = old.forwardall - 1]
  <2>3. old \in FrecRecord /\ old.forwardall \in Nat /\ old.forwardall # 0
    BY <1>2, <1>3, <2>2 DEF FrecRecord
  <2>4. rec \in FrecRecord /\ SameQuery(rec, old) /\ rec.sentto = old.sentto
    <3> HIDE DEF old
    <3> QED BY <2>3 DEF FrecRecord, SameQuery
  <2>5. t.frecs \in [Frec -> FrecRecord]
    BY <1>3 DEF TableInv, TableOK, TableType
  <2>6. n = [t EXCEPT !.frecs = [t.frecs EXCEPT ![i] = rec]]
    OBVIOUS
  <2> HIDE DEF n, rec
  <2>7. /\ n.frecs = [t.frecs EXCEPT ![i] = rec]
        /\ n = [frecs |-> n.frecs, count |-> t.count, socks |-> t.socks]
    BY <1>3, <2>6
  <2>8. n.frecs \in [Frec -> FrecRecord]
    BY <2>4, <2>5, <2>7
  <2>9. \A j \in Frec : /\ SameQuery(n.frecs[j], t.frecs[j])
                        /\ n.frecs[j].sentto = t.frecs[j].sentto
    BY <1>2, <2>4, <2>5, <2>7 DEF SameQuery
  <2>10. TableInv(n)
    BY <1>3, <2>7, <2>8, <2>9, RecordInv
  <2>11. awaiting' \subseteq Senders
    BY <2>1 DEF IInv
  <2> QED
    BY <1>1, <1>4, <1>5, <2>1, <2>10, <2>11, HandlerInv
<1> QED
  BY <1>6, <1>7

(* A reply that matches nothing. *)
LEMMA StrayReplyInv ==
    ASSUME IInv, NEW from, StrayReply(from)
    PROVE  IInv'
<1>1. /\ srv_save' = NoServer /\ last_server' = last_server /\ SetTable(Table)
      /\ UNCHANGED <<options, servers, locals, toRead, awaiting>>
  BY Here DEF StrayReply, Arrives
<1>2. /\ last_server \in Range(servers) \cup {NoServer} /\ TableInv(Table)
      /\ toRead' \in 0..Listeners /\ awaiting' \subseteq Senders
  BY <1>1 DEF IInv
<1> QED
  BY <1>1, <1>2, HandlerInv

-----------------------------------------------------------------------------
(* The theorems *)

(* The invariant is inductive: every step of the program preserves it. *)
THEOREM StepInv == ASSUME NoLocalServer PROVE IInv /\ [Next]_vars => IInv'
<1> SUFFICES ASSUME IInv, [Next]_vars PROVE IInv'
  OBVIOUS
<1>1. ASSUME NEW seconds \in 0..(4 * TIMEOUT), Select(seconds) PROVE IInv'
  BY <1>1, SelectInv
<1>2. ASSUME NEW file \in ResolvFiles, PollResolv(file) PROVE IInv'
  BY <1>2, PollResolvInv
<1>3. ASSUME NEW file \in ResolvFiles, HangUp(file) PROVE IInv'
  BY <1>3, HangUpInv
<1>4. ASSUME NEW a \in Interfaces, NewInterface(a) PROVE IInv'
  BY <1>4, NewInterfaceInv
<1>5. CASE ReceiveQuery
  <2>1. PICK r \in Request :
           AnswerLocally(r) \/ RetryQuery(r) \/ ForwardNew(r) \/ RefuseNew(r)
    BY <1>5 DEF ReceiveQuery
  <2> QED
    BY <2>1, AnswerLocallyInv, RetryQueryInv, ForwardNewInv, RefuseNewInv
<1>6. CASE ReplyQuery
  <2>1. PICK from \in RealServer \cap Range(servers) :
           \/ \E i \in Found \ {NoFrec} :
                 \/ ReplyTurnedBack(from, i)
                 \/ \E error, sound \in BOOLEAN : Reply(from, i, error, sound)
           \/ StrayReply(from)
    BY <1>6 DEF ReplyQuery
  <2> QED
    BY <2>1, ReplyTurnedBackInv, ReplyInv, StrayReplyInv
<1>7. CASE UNCHANGED vars
  <2>1. SetTable(Table) /\ UNCHANGED <<options, servers, locals, toRead, awaiting>>
        /\ UNCHANGED <<last_server, srv_save>>
    BY <1>7, Here DEF vars
  <2>2. /\ TableInv(Table) /\ toRead' \in 0..Listeners /\ awaiting' \subseteq Senders
        /\ last_server' \in Range(servers) \cup {NoServer}
        /\ srv_save' \in Range(servers) \cup {NoServer}
    BY <2>1 DEF IInv
  <2> QED
    BY <2>1, <2>2, HandlerInv
<1> QED
  BY <1>1, <1>2, <1>3, <1>4, <1>5, <1>6, <1>7 DEF Next

(* So it holds at all times. *)
THEOREM Invariant == ASSUME NoLocalServer PROVE Spec => []IInv
<1>1. Init => IInv
  BY InitInv
<1>2. IInv /\ [Next]_vars => IInv'
  BY StepInv
<1> QED
  BY <1>1, <1>2, PTL DEF Spec

(* The state keeps its types, and no record was in use that was never
   allocated.                                                               *)
THEOREM ForwardTypeOK == ASSUME NoLocalServer PROVE Spec => []TypeOK
<1>1. IInv => TypeOK
  <2> SUFFICES ASSUME IInv PROVE TypeOK
    OBVIOUS
  <2>1. Range(servers) \subseteq Server
    BY DEF IInv, Range
  <2>2. /\ frecs \in [Frec -> FrecRecord] /\ count \in 0..(FtabSize + 1)
        /\ socks \in [Slot -> RandFd] /\ InUse(Table) \subseteq 1..count
    BY Here, TableNow DEF TableOK, TableType
  <2> QED
    BY <2>1, <2>2 DEF IInv, TypeOK
<1> QED
  BY <1>1, Invariant, PTL

(* No record, nor the preferred server nor the saved one, ever refers to a
   server that left the list (server_gone).                                 *)
THEOREM ForwardNoDangling == ASSUME NoLocalServer PROVE Spec => []NoDangling
<1>1. IInv => NoDangling
  BY TableNow DEF IInv, TableInv, NoDangling
<1> QED
  BY <1>1, Invariant, PTL

(* Two records never wait under one id for one question (get_id). *)
THEOREM ForwardUniqueIds == ASSUME NoLocalServer PROVE Spec => []UniqueIds
<1>1. IInv => UniqueIds
  BY TableNow DEF IInv, TableInv, UniqueIdsIn, UniqueIds
<1> QED
  BY <1>1, Invariant, PTL

(* A client's query is never in two records (lookup_frec_by_sender). *)
THEOREM ForwardUniqueSender == ASSUME NoLocalServer PROVE Spec => []UniqueSender
<1>1. IInv => UniqueSender
  BY TableNow DEF IInv, TableInv, UniqueSenderIn, UniqueSender
<1> QED
  BY <1>1, Invariant, PTL

-----------------------------------------------------------------------------
(* What a step does to a record *)

(* A record in use after the step was in use before it, for the same query,
   which still waits if it did, and at a server that takes what the one before
   took.                                                                    *)
Carried(j) ==
    /\ j \in InUse(Table) /\ SameQuery(frecs'[j], frecs[j])
    /\ SenderOf(frecs[j]) \in awaiting => SenderOf(frecs[j]) \in awaiting'
    /\ frecs[j].forwardall # 1 => frecs'[j].forwardall # 1
    /\ \/ frecs'[j].sentto = frecs[j].sentto
       \/ /\ frecs'[j].sentto \in Range(servers)
          /\ Eligible(frecs'[j].sentto, ServerAttr[frecs[j].sentto].type,
                      ServerAttr[frecs[j].sentto].domain)

(* A record is given to a query that was let through by the search and that
   now waits; if it was in use, that was TIMEOUT ago.                       *)
Taken(j, r) ==
    /\ j \in InUse(Table) => frecs[j].age >= TIMEOUT
    /\ SenderOf(frecs'[j]) = Sender(r) /\ Sender(r) \in awaiting'
    /\ frecs'[j].forwardall # 1
    /\ frecs'[j].sentto \in Range(servers)
    /\ Eligible(frecs'[j].sentto, Search(r).type, Search(r).domain)
    /\ Search(r).flags = "none"

EachRecord ==
    \A j \in InUse(Table)' : Carried(j) \/ \E r \in Request : Taken(j, r)

(* The table after a step that sets it to t. *)
LEMMA SetTableNow ==
    ASSUME NEW t, TableOK(t), SetTable(t)
    PROVE  frecs' = t.frecs /\ InUse(Table)' = InUse(t)
BY TableNow DEF SetTable, InUse

(* A step that leaves every record that is still in use as it was, but for its
   age, and no client waiting for nothing.                                   *)
LEMMA CalmStep ==
    ASSUME NEW t, TableOK(t), SetTable(t),
           \A j \in InUse(t) :
              /\ j \in InUse(Table) /\ SameQuery(t.frecs[j], frecs[j])
              /\ t.frecs[j].sentto = frecs[j].sentto
              /\ t.frecs[j].forwardall = frecs[j].forwardall
              /\ SenderOf(frecs[j]) \in awaiting => SenderOf(frecs[j]) \in awaiting'
    PROVE  EachRecord
BY SetTableNow DEF EachRecord, Carried

(* The same, of records that are as they were. *)
LEMMA FewerStep ==
    ASSUME NEW t, TableOK(t), SetTable(t), Fewer(Table, t), awaiting \subseteq awaiting'
    PROVE  EachRecord
<1>1. \A j \in InUse(t) : j \in InUse(Table) /\ t.frecs[j] = frecs[j]
  BY TableNow DEF Fewer
<1>2. \A j \in InUse(t) :
         /\ j \in InUse(Table) /\ SameQuery(t.frecs[j], frecs[j])
         /\ t.frecs[j].sentto = frecs[j].sentto
         /\ t.frecs[j].forwardall = frecs[j].forwardall
         /\ SenderOf(frecs[j]) \in awaiting => SenderOf(frecs[j]) \in awaiting'
  BY <1>1 DEF SameQuery
<1> QED
  BY <1>2, CalmStep

(* ... and of a step that does nothing to the table. *)
LEMMA IdleStep ==
    ASSUME IInv, UNCHANGED <<frecs, count, socks>>, awaiting \subseteq awaiting'
    PROVE  EachRecord
<1>1. TableOK(Table) /\ SetTable(Table) /\ Fewer(Table, Table)
  BY Here DEF Fewer
<1> QED
  BY <1>1, FewerStep

(* A turn of the loop. *)
LEMMA SelectRecords ==
    ASSUME IInv, NEW seconds \in 0..(4 * TIMEOUT), Select(seconds)
    PROVE  EachRecord
<1> DEFINE new == GetNewFrec(Table, TRUE)
           t   == Aged(new.table, seconds)
<1>1. TableOK(new.table) /\ Fewer(Table, new.table)
  BY Here, GetNewFrecOK
<1>2. TableInv(new.table)
  BY <1>1, Here, FewerInv
<1>3. TableOK(t)
  <2>1. seconds \in Nat
    BY Constants
  <2>2. TableInv(t)
    <3> HIDE DEF new
    <3> QED BY <1>2, <2>1, AgedInv
  <2> QED
    BY <2>2 DEF TableInv
<1>4. SetTable(t) /\ awaiting' = awaiting
  BY DEF Select
<1> HIDE DEF new
<1>5. ASSUME NEW j \in InUse(t)
      PROVE  /\ j \in InUse(new.table)
             /\ SameQuery(t.frecs[j], new.table.frecs[j])
             /\ t.frecs[j].sentto = new.table.frecs[j].sentto
             /\ t.frecs[j].forwardall = new.table.frecs[j].forwardall
  <2> DEFINE old == new.table.frecs[j]
             age == Min({old.age + seconds, 4 * TIMEOUT})
  <2>1. j \in Frec /\ new.table.frecs \in [Frec -> FrecRecord] /\ new.table \in TableType
    BY <1>1 DEF InUse, TableOK, TableType
  <2>2. t.frecs[j] = IF j \in InUse(new.table) THEN [old EXCEPT !.age = age] ELSE old
    <3>1. t.frecs = [i \in Frec |->
              IF i \in InUse(new.table)
              THEN [new.table.frecs[i] EXCEPT !.age = Min({@ + seconds, 4 * TIMEOUT})]
              ELSE new.table.frecs[i]]
      BY <2>1 DEF Aged, TableType
    <3> QED BY <2>1, <3>1
  <2>3. old \in FrecRecord
    BY <2>1
  <2> HIDE DEF old, age
  <2>4. SameQuery(t.frecs[j], old) /\ t.frecs[j].sentto = old.sentto
        /\ t.frecs[j].forwardall = old.forwardall
    BY <2>2, <2>3 DEF FrecRecord, SameQuery
  <2>5. j \in InUse(new.table)
    BY <2>1, <2>4 DEF InUse, old
  <2> QED
    BY <2>4, <2>5 DEF old
<1> HIDE DEF t
<1>6. \A j \in InUse(t) :
         /\ j \in InUse(Table) /\ SameQuery(t.frecs[j], frecs[j])
         /\ t.frecs[j].sentto = frecs[j].sentto
         /\ t.frecs[j].forwardall = frecs[j].forwardall
         /\ SenderOf(frecs[j]) \in awaiting => SenderOf(frecs[j]) \in awaiting'
  BY <1>1, <1>4, <1>5, TableNow DEF Fewer
<1> QED
  BY <1>3, <1>4, <1>6, CalmStep

(* Servers that leave the list take records along and change no other. *)
LEMMA GoneRecords ==
    ASSUME IInv, NEW gone, ServersGone(gone), awaiting' = awaiting
    PROVE  EachRecord
<1> DEFINE F == {i \in InUse(Table) : frecs[i].sentto \in gone}
<1>1. F \in SUBSET Frec /\ TableOK(Table)
  BY Here DEF InUse
<1>2. SetTable(FreeFrecs(Table, F))
  BY DEF ServersGone
<1> HIDE DEF F
<1>3. TableOK(FreeFrecs(Table, F)) /\ Fewer(Table, FreeFrecs(Table, F))
  BY <1>1, FreeFrecsOK, FreeFrecsFewer
<1> QED
  BY <1>2, <1>3, FewerStep

(* A record that is sent again. *)
LEMMA ResendRecords ==
    ASSUME IInv, NEW i \in InUse(Table), NEW out \in Resend(Table, i), SetTable(out.table),
           awaiting \subseteq awaiting'
    PROVE  EachRecord
<1> DEFINE old  == Table.frecs[i]
           rec  == Again(old)
           type == SendsTo(old.sentto).type
           dom  == SendsTo(old.sentto).domain
           n    == out.table
<1>1. /\ out \in Transmit(Table, i, rec, NextServer(old.sentto), type, dom)
      /\ TableOK(Table) /\ i \in Frec /\ i <= Table.count
      /\ old \in FrecRecord /\ old.sentto \in Range(servers) /\ servers \in Seq(Server)
      /\ rec \in FrecRecord /\ SameQuery(rec, old)
      /\ rec.forwardall \in {old.forwardall, 1}
      /\ NextServer(old.sentto) \in Range(servers)
  BY Here, ResendIs
<1>2. /\ old = frecs[i]
      /\ type = ServerAttr[old.sentto].type /\ dom = ServerAttr[old.sentto].domain
  BY TableNow DEF SendsTo
<1> HIDE DEF rec, type, dom, n
<1>3. /\ TableOK(n)
      /\ \A j \in Frec \ {i} : n.frecs[j] = Table.frecs[j]
      /\ out.sent => /\ SameQuery(n.frecs[i], rec) /\ Counts(rec, n.frecs[i])
                     /\ n.frecs[i].sentto \in Range(servers)
                     /\ Eligible(n.frecs[i].sentto, type, dom)
      /\ ~out.sent => i \notin InUse(n)
  BY <1>1, TransmitOK DEF n
<1>4. frecs' = n.frecs /\ InUse(Table)' = InUse(n)
  BY <1>3, SetTableNow DEF n
<1>5. ASSUME NEW j \in InUse(n), j # i PROVE Carried(j)
  <2>1. j \in Frec /\ n.frecs[j] = frecs[j] /\ j \in InUse(Table)
    BY <1>3, <1>5, TableNow DEF InUse
  <2> QED
    BY <1>4, <2>1 DEF Carried, SameQuery
<1>6. ASSUME i \in InUse(n) PROVE Carried(i)
  <2>1. /\ SameQuery(n.frecs[i], old) /\ Counts(rec, n.frecs[i])
        /\ n.frecs[i].sentto \in Range(servers) /\ Eligible(n.frecs[i].sentto, type, dom)
    BY <1>1, <1>3, <1>6 DEF SameQuery
  <2>2. old.forwardall # 1 => n.frecs[i].forwardall # 1
    <3>1. n.frecs[i].forwardall \in Nat /\ old.forwardall \in Nat
      BY <1>1, <1>3, <1>6, InUseType DEF FrecRecord
    <3> HIDE DEF old
    <3> QED BY <1>1, <2>1, <3>1 DEF Counts
  <2> QED
    BY <1>2, <1>4, <2>1, <2>2 DEF Carried
<1> QED
  BY <1>4, <1>5, <1>6 DEF EachRecord

(* A new query that is forwarded. *)
LEMMA ForwardNewRecords ==
    ASSUME IInv, NEW r \in Request, ForwardNew(r)
    PROVE  EachRecord
<1> DEFINE found == Search(r)
           new   == GetNewFrec(Table, FALSE)
           start == StartServer(found)
           i     == new.frec
<1>1. /\ found.flags = "none" /\ i \in Frec /\ start \in Range(servers)
      /\ i \in InUse(Table) => frecs[i].age >= TIMEOUT
  BY ForwardNewIs
<1>2. PICK got \in GetId(new.table, r) :
        /\ TableInv(got.table) /\ got.id \in MsgId /\ i <= got.table.count
        /\ \A j \in InUse(got.table) : j \in InUse(Table) /\ got.table.frecs[j] = frecs[j]
        /\ \E out \in Transmit(got.table, i, NewFrec(r, got.id, found), start,
                                found.type, found.domain) :
             Sent(out) /\ IF out.sent THEN Awaits(r) ELSE AnsweredNow
  BY ForwardNewIs
<1> DEFINE rec == NewFrec(r, got.id, found)
<1>3. PICK out \in Transmit(got.table, i, rec, start, found.type, found.domain) :
         Sent(out) /\ IF out.sent THEN Awaits(r) ELSE AnsweredNow
  BY <1>2
<1>4. r \in RequestRecord /\ servers \in Seq(Server) /\ TableOK(got.table)
  BY <1>2, Here, ForwardAssumption DEF TableInv
<1>5. rec \in FrecRecord /\ rec.forwardall \in {0, 1} /\ SenderOf(rec) = Sender(r)
  BY <1>2, <1>4, NewFrecOK
<1> DEFINE n == out.table
<1> HIDE DEF rec, found, start, i
<1>6. /\ TableOK(n)
      /\ \A j \in Frec \ {i} : n.frecs[j] = got.table.frecs[j]
      /\ out.sent => /\ SameQuery(n.frecs[i], rec) /\ Counts(rec, n.frecs[i])
                     /\ n.frecs[i].sentto \in Range(servers)
                     /\ Eligible(n.frecs[i].sentto, found.type, found.domain)
      /\ ~out.sent => i \notin InUse(n)
  BY <1>1, <1>2, <1>3, <1>4, <1>5, TransmitOK
<1> HIDE DEF n
<1>7. frecs' = n.frecs /\ InUse(Table)' = InUse(n)
  BY <1>3, <1>6, SetTableNow DEF Sent, n
<1>8. awaiting \subseteq awaiting' /\ (out.sent => Sender(r) \in awaiting')
  BY <1>3 DEF Awaits, AnsweredNow
<1>9. ASSUME NEW j \in InUse(n), j # i PROVE Carried(j)
  <2>1. j \in InUse(got.table) /\ n.frecs[j] = got.table.frecs[j]
    BY <1>6, <1>9 DEF InUse
  <2>2. j \in InUse(Table) /\ n.frecs[j] = frecs[j]
    BY <1>2, <2>1
  <2> QED
    BY <1>7, <1>8, <2>2 DEF Carried, SameQuery
<1>10. ASSUME i \in InUse(n) PROVE Taken(i, r)
  <2>1. /\ SameQuery(n.frecs[i], rec) /\ Counts(rec, n.frecs[i])
        /\ n.frecs[i].sentto \in Range(servers)
        /\ Eligible(n.frecs[i].sentto, found.type, found.domain) /\ out.sent
    BY <1>6, <1>10
  <2>2. n.frecs[i].forwardall # 1
    BY <1>5, <2>1 DEF Counts
  <2>3. SenderOf(n.frecs[i]) = Sender(r)
    BY <1>5, <2>1 DEF SameQuery, SenderOf
  <2> QED
    BY <1>1, <1>7, <1>8, <2>1, <2>2, <2>3 DEF Taken, found
<1> QED
  BY <1>7, <1>9, <1>10 DEF EachRecord

(* Any other reply: the last one waited for frees its record, and the client no
   longer waits; no other record is for the same query.                       *)
LEMMA ReplyRecords ==
    ASSUME IInv, NEW from, NEW i \in Found \ {NoFrec}, NEW error \in BOOLEAN,
           NEW sound \in BOOLEAN, Reply(from, i, error, sound)
    PROVE  EachRecord
<1>1. i \in InUse(Table) /\ i \in Frec
  BY FoundInUse DEF InUse
<1>2. TableOK(Table) /\ UniqueSenderIn(Table)
  BY Here DEF TableInv
<1>3. CASE Final(i, error)
  <2> DEFINE n == FreeFrecs(Table, {i})
  <2>1. SetTable(n) /\ awaiting \ {SenderOf(frecs[i])} \subseteq awaiting'
    BY <1>3 DEF Reply
  <2>2. TableOK(n) /\ Fewer(Table, n) /\ InUse(n) = InUse(Table) \ {i}
    BY <1>1, <1>2, FreeFrecsOK, FreeFrecsFewer
  <2> HIDE DEF n
  <2>3. \A j \in InUse(n) :
           /\ j \in InUse(Table) /\ SameQuery(n.frecs[j], frecs[j])
           /\ n.frecs[j].sentto = frecs[j].sentto
           /\ n.frecs[j].forwardall = frecs[j].forwardall
           /\ SenderOf(frecs[j]) # SenderOf(frecs[i])
    BY <1>1, <1>2, <2>2, TableNow DEF Fewer, SameQuery, UniqueSenderIn
  <2> QED
    BY <2>1, <2>2, <2>3, CalmStep
<1>4. CASE ~Final(i, error)
  <2> DEFINE n == [Table EXCEPT !.frecs[i].forwardall = @ - 1]
  <2>1. SetTable(n) /\ awaiting' = awaiting
    BY <1>4 DEF Reply
  <2>2. frecs[i].forwardall \notin {0, 2}
    BY <1>4 DEF Final
  <2>3. frecs \in [Frec -> FrecRecord]
    BY <1>2, TableNow DEF TableOK, TableType
  <2>4. n.frecs = [frecs EXCEPT ![i].forwardall = @ - 1]
    BY DEF Table
  <2>5. frecs' = [frecs EXCEPT ![i] = [frecs[i] EXCEPT !.forwardall = frecs[i].forwardall - 1]]
    BY <2>1, <2>4 DEF SetTable
  <2>6. ASSUME NEW j \in Frec
        PROVE  /\ SameQuery(frecs'[j], frecs[j]) /\ frecs'[j].sentto = frecs[j].sentto
               /\ frecs[j].forwardall # 1 => frecs'[j].forwardall # 1
    <3>1. frecs[j] \in FrecRecord /\ frecs[j].forwardall \in Nat
      BY <2>3 DEF FrecRecord
    <3>2. CASE j # i
      BY <1>1, <2>3, <2>5, <3>2 DEF SameQuery
    <3>3. CASE j = i
      <4> DEFINE old == frecs[i]
      <4>1. frecs'[j] = [old EXCEPT !.forwardall = old.forwardall - 1]
        BY <1>1, <2>3, <2>5, <3>3
      <4>2. old \in FrecRecord /\ old.forwardall \in Nat /\ old.forwardall \notin {0, 2}
        BY <2>2, <3>1, <3>3
      <4> HIDE DEF old
      <4>3. SameQuery(frecs'[j], old) /\ frecs'[j].sentto = old.sentto
            /\ frecs'[j].forwardall = old.forwardall - 1
        BY <4>1, <4>2 DEF FrecRecord, SameQuery
      <4> QED BY <3>3, <4>2, <4>3 DEF old
    <3> QED BY <3>2, <3>3
  <2>7. \A j \in InUse(Table)' : j \in InUse(Table)
    BY <2>6, TableNow DEF InUse
  <2>8. \A j \in InUse(Table)' : j \in Frec
    BY DEF InUse
  <2> QED
    BY <2>1, <2>6, <2>7, <2>8 DEF EachRecord, Carried
<1> QED
  BY <1>3, <1>4

(* Every step does to each record one of the two. *)
LEMMA NextRecords ==
    ASSUME IInv, [Next]_vars
    PROVE  EachRecord
<1>1. ASSUME NEW seconds \in 0..(4 * TIMEOUT), Select(seconds) PROVE EachRecord
  BY <1>1, SelectRecords
<1>2. ASSUME NEW file \in ResolvFiles, PollResolv(file) \/ HangUp(file) PROVE EachRecord
  <2>1. ServersGone(Replaced(servers, file)) /\ awaiting' = awaiting
    BY <1>2 DEF PollResolv, HangUp
  <2> QED
    BY <2>1, GoneRecords
<1>3. ASSUME NEW a \in Interfaces, NewInterface(a) PROVE EachRecord
  BY <1>3, IdleStep DEF NewInterface
<1>4. CASE ReceiveQuery
  <2>1. PICK r \in Request :
           AnswerLocally(r) \/ RetryQuery(r) \/ ForwardNew(r) \/ RefuseNew(r)
    BY <1>4 DEF ReceiveQuery
  <2>2. CASE AnswerLocally(r)
    BY <2>2, IdleStep DEF AnswerLocally, AnsweredNow
  <2>3. CASE RetryQuery(r)
    <3>0. PICK i \in BySender(Table, r) : \E out \in Resend(Table, i) :
             Sent(out) /\ (Awaits(r) \/ AnsweredNow)
      BY <2>3 DEF RetryQuery
    <3>1. PICK out \in Resend(Table, i) : Sent(out) /\ (Awaits(r) \/ AnsweredNow)
      BY <3>0
    <3>2. i \in InUse(Table)
      BY DEF BySender
    <3>3. SetTable(out.table) /\ awaiting \subseteq awaiting'
      BY <3>1 DEF Sent, Awaits, AnsweredNow
    <3> QED
      BY <3>2, <3>3, ResendRecords
  <2>4. CASE RefuseNew(r)
    <3> DEFINE new == GetNewFrec(Table, FALSE)
    <3>1. /\ SetTable(IF Search(r).flags # "none" THEN Table ELSE new.table)
          /\ awaiting' = awaiting
      BY <2>4 DEF RefuseNew, AnsweredNow
    <3>2. TableOK(new.table) /\ Fewer(Table, new.table)
      BY Here, GetNewFrecOK
    <3>3. TableOK(Table) /\ Fewer(Table, Table)
      BY Here DEF Fewer
    <3> HIDE DEF new
    <3> QED
      BY <3>1, <3>2, <3>3, FewerStep
  <2> QED
    BY <2>1, <2>2, <2>3, <2>4, ForwardNewRecords
<1>5. CASE ReplyQuery
  <2>1. PICK from \in RealServer \cap Range(servers) :
           \/ \E i \in Found \ {NoFrec} :
                 \/ ReplyTurnedBack(from, i)
                 \/ \E error, sound \in BOOLEAN : Reply(from, i, error, sound)
           \/ StrayReply(from)
    BY <1>5 DEF ReplyQuery
  <2>2. ASSUME NEW i \in Found \ {NoFrec}, ReplyTurnedBack(from, i) PROVE EachRecord
    <3>1. PICK out \in Resend(Table, i) : Sent(out)
      BY <2>2 DEF ReplyTurnedBack
    <3>2. i \in InUse(Table) /\ SetTable(out.table) /\ awaiting' = awaiting
      BY <2>2, <3>1, FoundInUse DEF ReplyTurnedBack, Sent
    <3> QED
      BY <3>2, ResendRecords
  <2>3. CASE StrayReply(from)
    BY <2>3, IdleStep DEF StrayReply
  <2> QED
    BY <2>1, <2>2, <2>3, ReplyRecords
<1>6. CASE UNCHANGED vars
  BY <1>6, IdleStep DEF vars
<1> QED
  BY <1>1, <1>2, <1>3, <1>4, <1>5, <1>6 DEF Next

(* A step that gives a record to another query gives one that is TIMEOUT old. *)
THEOREM ForwardYoungKept == ASSUME NoLocalServer PROVE Spec => YoungRecordsKept
<1> DEFINE Young == \A i \in InUse(Table) \cap InUse(Table)' :
                       SenderOf(frecs'[i]) # SenderOf(frecs[i]) => frecs[i].age >= TIMEOUT
<1>1. IInv /\ [Next]_vars => [Young]_vars
  <2> SUFFICES ASSUME IInv, [Next]_vars PROVE Young
    OBVIOUS
  <2>1. EachRecord
    BY NextRecords
  <2> QED
    BY <2>1 DEF EachRecord, Carried, Taken, SameQuery, SenderOf
<1> QED
  BY <1>1, Invariant, PTL DEF Spec, YoungRecordsKept

-----------------------------------------------------------------------------
(* Who waits for an answer, and for how many servers *)

RInv == ForwardallWaits /\ InUseAwaited /\ PreferredIsGeneral

(* Servers are preferred for queries without a domain only. *)
LEMMA PreferredGeneral ==
    ASSUME IInv, PreferredIsGeneral, NEW from, NEW i \in InUse(Table),
           NEW error \in BOOLEAN, last_server' = Preferred(from, i, error)
    PROVE  PreferredIsGeneral'
<1> DEFINE at == {k \in 1..Len(servers) :
                    /\ ServerAttr[servers[k]].type = "plain"
                    /\ servers[k] \in RealServer \cap SameAddress(from)}
<1>1. at # {} => Min(at) \in at
  <2>1. at \in SUBSET Nat
    BY DEF IInv
  <2> HIDE DEF at
  <2> QED BY <2>1, MinInSet
<1>2. GoodServer(from, i) = IF at = {} THEN frecs[i].sentto ELSE servers[Min(at)]
  BY DEF GoodServer
<1>3. ServerAttr[frecs[i].sentto].type = "plain" =>
        ServerAttr[GoodServer(from, i)].type = "plain"
  BY <1>1, <1>2
<1> QED
  BY <1>3 DEF Preferred, PreferredIsGeneral

LEMMA RInvInit == Init => RInv
<1>1. Init => InUse(Table) = {}
  BY FreeFrecType DEF Init, InUse, Table
<1> QED
  BY <1>1 DEF Init, RInv, ForwardallWaits, InUseAwaited, PreferredIsGeneral

LEMMA RInvStep == IInv /\ RInv /\ [Next]_vars => RInv'
<1> SUFFICES ASSUME IInv, RInv, [Next]_vars PROVE RInv'
  OBVIOUS
<1>1. EachRecord
  BY NextRecords
<1>2. ForwardallWaits'
  BY <1>1 DEF EachRecord, Carried, Taken, RInv, ForwardallWaits
<1>3. InUseAwaited'
  BY <1>1 DEF EachRecord, Carried, Taken, RInv, InUseAwaited, SameQuery, SenderOf
<1>4. PreferredIsGeneral'
  <2>1. last_server' \in {last_server, NoServer} => PreferredIsGeneral'
    BY DEF RInv, PreferredIsGeneral
  <2>2. ASSUME NEW seconds \in 0..(4 * TIMEOUT), Select(seconds)
        PROVE  last_server' = last_server
    BY <2>2 DEF Select
  <2>3. ASSUME NEW file \in ResolvFiles, PollResolv(file) \/ HangUp(file)
        PROVE  last_server' \in {last_server, NoServer}
    BY <2>3 DEF PollResolv, HangUp, ServersGone
  <2>4. ASSUME NEW a \in Interfaces, NewInterface(a) PROVE last_server' = last_server
    BY <2>4 DEF NewInterface
  <2>5. CASE ReceiveQuery
    <3>1. last_server' \in {last_server, NoServer}
      BY <2>5 DEF ReceiveQuery, AnswerLocally, RetryQuery, ForwardNew, RefuseNew,
                  ForgetLastServer
    <3> QED BY <2>1, <3>1
  <2>6. CASE ReplyQuery
    <3>1. PICK from \in RealServer \cap Range(servers) :
             \/ \E i \in Found \ {NoFrec} :
                   \/ ReplyTurnedBack(from, i)
                   \/ \E error, sound \in BOOLEAN : Reply(from, i, error, sound)
             \/ StrayReply(from)
      BY <2>6 DEF ReplyQuery
    <3>2. CASE StrayReply(from)
      BY <2>1, <3>2 DEF StrayReply
    <3>3. ASSUME NEW i \in Found \ {NoFrec}, ReplyTurnedBack(from, i)
          PROVE  PreferredIsGeneral'
      BY <2>1, <3>3 DEF ReplyTurnedBack, ForgetLastServer
    <3>4. ASSUME NEW i \in Found \ {NoFrec}, NEW error \in BOOLEAN, NEW sound \in BOOLEAN,
                 Reply(from, i, error, sound)
          PROVE  PreferredIsGeneral'
      BY <3>4, FoundInUse, PreferredGeneral DEF Reply, RInv
    <3> QED BY <3>1, <3>2, <3>3, <3>4
  <2>7. CASE UNCHANGED vars
    BY <2>1, <2>7 DEF vars
  <2> QED
    BY <2>1, <2>2, <2>3, <2>4, <2>5, <2>6, <2>7 DEF Next
<1> QED
  BY <1>2, <1>3, <1>4 DEF RInv

THEOREM RInvariant == ASSUME NoLocalServer PROVE Spec => []RInv
<1>1. Init => RInv
  BY RInvInit
<1>2. IInv /\ RInv /\ [Next]_vars => RInv'
  BY RInvStep
<1> QED
  BY <1>1, <1>2, Invariant, PTL DEF Spec

(* No record is kept at the count of replies that would free it. *)
THEOREM ForwardForwardallWaits == ASSUME NoLocalServer PROVE Spec => []ForwardallWaits
<1>1. RInv => ForwardallWaits
  BY DEF RInv
<1> QED
  BY <1>1, RInvariant, PTL

(* No client is sent a second answer: whoever a record answers has asked since. *)
THEOREM ForwardInUseAwaited == ASSUME NoLocalServer PROVE Spec => []InUseAwaited
<1>1. RInv => InUseAwaited
  BY DEF RInv
<1> QED
  BY <1>1, RInvariant, PTL

(* The preferred server is one for all domains. *)
THEOREM ForwardPreferredIsGeneral == ASSUME NoLocalServer PROVE Spec => []PreferredIsGeneral
<1>1. RInv => PreferredIsGeneral
  BY DEF RInv
<1> QED
  BY <1>1, RInvariant, PTL

-----------------------------------------------------------------------------
(* Which servers are asked *)

(* Every server of a list that takes queries of a type and domain is real. *)
OnlyReal(list, type, domain) ==
    \A x \in Range(list) : Eligible(x, type, domain) => x \in RealServer

(* A record waits for a real server, and any other it may be sent to is one. *)
LInv ==
    \A i \in InUse(Table) :
        LET s == frecs[i].sentto IN
        s \in RealServer /\ OnlyReal(servers, ServerAttr[s].type, ServerAttr[s].domain)

(* A reload only adds real servers. *)
LEMMA OnlyRealAdded ==
    ASSUME IInv, [Next]_vars
    PROVE  Range(servers') \subseteq Range(servers) \cup RealServer
<1>1. ASSUME NEW file \in ResolvFiles, PollResolv(file) \/ HangUp(file)
      PROVE  Range(servers') \subseteq Range(servers) \cup RealServer
  <2> DEFINE reloaded == ReloadServers(servers, file)
  <2>1. servers' \in {reloaded, CheckServers(reloaded, locals)}
    BY <1>1 DEF PollResolv, HangUp
  <2>2. servers \in Seq(Server) /\ file \in Seq(FromResolv) \cup {Unread}
    BY ForwardAssumption DEF IInv
  <2>3. reloaded \in Seq(Server)
    BY <2>2, ReloadServersType
  <2>4. Range(reloaded) \subseteq Range(servers) \cup RealServer
    <3>1. CASE file = Unread
      BY <3>1 DEF ReloadServers
    <3>2. CASE file # Unread
      <4>1. Range(reloaded) = Range(file) \cup (Range(servers) \cap CommandLine)
        BY <2>2, <3>2, ReloadServersRange
      <4>2. Range(file) \subseteq FromResolv
        BY <2>2, <3>2 DEF Range
      <4>3. FromResolv \subseteq RealServer
        BY ServersAssumption DEF FromResolv, RealServer
      <4> QED BY <4>1, <4>2, <4>3
    <3> QED BY <3>1, <3>2
  <2> HIDE DEF reloaded
  <2>5. Range(CheckServers(reloaded, locals)) \subseteq Range(reloaded)
    BY <2>3, CheckServersRange
  <2> QED
    BY <2>1, <2>4, <2>5
<1>2. servers' = servers \/ \E file \in ResolvFiles : PollResolv(file) \/ HangUp(file)
  <2>1. ASSUME NEW seconds \in 0..(4 * TIMEOUT), Select(seconds) PROVE servers' = servers
    BY <2>1 DEF Select
  <2>2. ASSUME NEW a \in Interfaces, NewInterface(a) PROVE servers' = servers
    BY <2>2 DEF NewInterface
  <2>3. CASE ReceiveQuery
    BY <2>3 DEF ReceiveQuery, AnswerLocally, RetryQuery, ForwardNew, RefuseNew, Reads
  <2>4. CASE ReplyQuery
    BY <2>4 DEF ReplyQuery, ReplyTurnedBack, Reply, StrayReply, Arrives
  <2>5. CASE UNCHANGED vars
    BY <2>5 DEF vars
  <2> QED
    BY <2>1, <2>2, <2>3, <2>4, <2>5 DEF Next
<1> QED
  BY <1>1, <1>2

(* What the search finds for a request. *)
LEMMA FoundReal ==
    ASSUME LocalHasDomain, IInv, NEW r \in Request, Search(r).flags = "none"
    PROVE  OnlyReal(servers, Search(r).type, Search(r).domain)
<1> SUFFICES ASSUME NEW x \in Range(servers), Eligible(x, Search(r).type, Search(r).domain)
             PROVE  x \in RealServer
  BY DEF OnlyReal
<1>1. servers \in Seq(Server)
  BY DEF IInv
<1>2. CASE AskedFor[r.crc] = Many
  <2>1. x \in Server /\ ServerAttr[x] \in ServerRecord
    BY <1>1, ServersAssumption DEF Range
  <2>2. ServerAttr[x].type = "plain" /\ ServerAttr[x].kind # "literal"
    BY <1>2 DEF Search, Unmatched, Eligible
  <2> QED BY <2>1, <2>2 DEF LocalHasDomain, ServerRecord, RealServer
<1>3. CASE AskedFor[r.crc] # Many
  BY <1>1, <1>3, SearchOnlyReal DEF Search
<1> QED
  BY <1>2, <1>3

(* A server that takes what another takes leads to the same others. *)
LEMMA SameTargets ==
    ASSUME NEW s, NEW type, NEW domain, Eligible(s, type, domain), OnlyReal(servers, type, domain)
    PROVE  OnlyReal(servers, ServerAttr[s].type, ServerAttr[s].domain)
BY DEF OnlyReal, Eligible

LEMMA LInvStep ==
    ASSUME LocalHasDomain
    PROVE  IInv /\ LInv /\ [Next]_vars => LInv'
<1> SUFFICES ASSUME IInv, LInv, [Next]_vars PROVE LInv'
  OBVIOUS
<1>1. EachRecord
  BY NextRecords
<1>2. ASSUME NEW type, NEW domain, OnlyReal(servers, type, domain)
      PROVE  OnlyReal(servers', type, domain)
  BY <1>2, OnlyRealAdded DEF OnlyReal
<1> SUFFICES ASSUME NEW i \in InUse(Table)'
             PROVE  /\ frecs'[i].sentto \in RealServer
                    /\ OnlyReal(servers', ServerAttr[frecs'[i].sentto].type,
                                ServerAttr[frecs'[i].sentto].domain)
  BY DEF LInv
<1> DEFINE s == frecs'[i].sentto
<1>3. ASSUME NEW type, NEW domain, OnlyReal(servers, type, domain),
             s \in Range(servers), Eligible(s, type, domain)
      PROVE  s \in RealServer /\ OnlyReal(servers, ServerAttr[s].type, ServerAttr[s].domain)
  BY <1>3, SameTargets DEF OnlyReal
<1>4. s \in RealServer /\ OnlyReal(servers, ServerAttr[s].type, ServerAttr[s].domain)
  <2>1. CASE Carried(i)
    <3> DEFINE old == frecs[i].sentto
    <3>1. /\ i \in InUse(Table)
          /\ \/ s = old
             \/ s \in Range(servers) /\ Eligible(s, ServerAttr[old].type, ServerAttr[old].domain)
      BY <2>1 DEF Carried
    <3>2. old \in RealServer /\ OnlyReal(servers, ServerAttr[old].type, ServerAttr[old].domain)
      BY <3>1 DEF LInv
    <3> HIDE DEF old, s
    <3> QED BY <1>3, <3>1, <3>2
  <2>2. ASSUME NEW r \in Request, Taken(i, r)
        PROVE  s \in RealServer /\ OnlyReal(servers, ServerAttr[s].type, ServerAttr[s].domain)
    <3>1. /\ s \in Range(servers) /\ Eligible(s, Search(r).type, Search(r).domain)
          /\ Search(r).flags = "none"
      BY <2>2 DEF Taken
    <3>2. OnlyReal(servers, Search(r).type, Search(r).domain)
      BY <3>1, FoundReal
    <3> QED BY <1>3, <3>1, <3>2
  <2> QED BY <1>1, <2>1, <2>2 DEF EachRecord
<1> HIDE DEF s
<1> QED
  BY <1>2, <1>4 DEF s

(* No query waits for a local-only or a literal entry, whatever becomes of the
   list while it waits.                                                     *)
THEOREM ForwardNeverAsksLocal ==
    ASSUME NoLocalServer, LocalHasDomain PROVE Spec => []NeverAsksLocal
<1>1. Init => LInv
  <2>1. Init => InUse(Table) = {}
    BY FreeFrecType DEF Init, InUse, Table
  <2> QED BY <2>1 DEF LInv
<1>2. IInv /\ LInv /\ [Next]_vars => LInv'
  BY LInvStep
<1>3. LInv => NeverAsksLocal
  BY DEF LInv, NeverAsksLocal
<1> QED
  BY <1>1, <1>2, <1>3, Invariant, PTL DEF Spec

-----------------------------------------------------------------------------
(* The sockets *)

(* The records and families that use a socket. *)
Users(t, s) == Releases(t, Frec, s)

(* A socket is counted once for each user, of which there are no more than
   allowed; all are of its family, and it is open if none can fail to open. *)
Counted(t, s) ==
    /\ t.socks[s].refcount = Cardinality(Users(t, s))
    /\ t.socks[s].refcount <= MaxRef
    /\ \A u \in Users(t, s) : u[2] = t.socks[s].family
    /\ Users(t, s) # {} /\ ~SocketsMayFail => t.socks[s].open

(* Records that are not in use have none. *)
SockInv(t) ==
    /\ \A i \in Frec \ InUse(t) : t.frecs[i].rfd = NoRfd
    /\ \A s \in Slot : Counted(t, s)

(* Who uses a socket. *)
LEMMA UserIs ==
    ASSUME NEW t, NEW F \in SUBSET Frec, NEW s, NEW u
    PROVE  u \in Releases(t, F, s) <=>
             \E i \in F, f \in Family : u = <<i, f>> /\ t.frecs[i].rfd[f] = s
BY DEF Releases

LEMMA UserOf ==
    ASSUME NEW t, NEW s, NEW u
    PROVE  u \in Users(t, s) <=>
             \E i \in Frec, f \in Family : u = <<i, f>> /\ t.frecs[i].rfd[f] = s
BY DEF Users, Releases

LEMMA UsersFinite ==
    ASSUME NEW t, NEW F \in SUBSET Frec, NEW s
    PROVE  /\ IsFiniteSet(Releases(t, F, s)) /\ Cardinality(Releases(t, F, s)) \in Nat
           /\ Releases(t, F, s) # {} <=> Cardinality(Releases(t, F, s)) # 0
<1>1. IsFiniteSet(F) /\ IsFiniteSet(Family)
  BY Constants, FS_Subset
<1>2. IsFiniteSet(F \X Family) /\ Releases(t, F, s) \subseteq F \X Family
  BY <1>1, FS_Product DEF Releases
<1>3. IsFiniteSet(Releases(t, F, s))
  BY <1>2, FS_Subset
<1> QED
  BY <1>3, FS_CardinalityType, FS_EmptySet

(* A socket with the same users, and as it was, is counted as it was. *)
LEMMA SameUsers ==
    ASSUME NEW t, SockInv(t), NEW n, n.socks = t.socks, InUse(n) = InUse(t),
           \A i \in Frec : n.frecs[i].rfd = t.frecs[i].rfd
    PROVE  SockInv(n)
<1>1. ASSUME NEW s PROVE Users(n, s) = Users(t, s)
  <2>1. ASSUME NEW u \in Frec \X Family
        PROVE  n.frecs[u[1]].rfd[u[2]] = t.frecs[u[1]].rfd[u[2]]
    OBVIOUS
  <2> QED BY <2>1 DEF Users, Releases
<1> QED
  BY <1>1 DEF SockInv, Counted

(* A record that is freed has no socket. *)
LEMMA NothingHeld == FreeFrec.rfd = NoRfd /\ \A f \in Family : NoRfd[f] = NoSlot
BY DEF FreeFrec, NoRfd

(* free_frec takes the users it counts off. *)
LEMMA FreeFrecsCounted ==
    ASSUME NEW t, TableOK(t), NEW F \in SUBSET Frec, \A s \in Slot : Counted(t, s),
           \A i \in Frec \ (InUse(t) \cup F) : t.frecs[i].rfd = NoRfd
    PROVE  SockInv(FreeFrecs(t, F))
<1> DEFINE n == FreeFrecs(t, F)
<1>1. Freed(t, n, F) /\ InUse(n) = InUse(t) \ F
  BY FreeFrecsOK
<1>2. ASSUME NEW s \in Slot
      PROVE  n.socks[s] = [refcount |-> t.socks[s].refcount - Cardinality(Releases(t, F, s)),
                           family |-> t.socks[s].family,
                           open |-> IF t.socks[s].refcount - Cardinality(Releases(t, F, s)) = 0
                                    THEN FALSE ELSE t.socks[s].open]
  BY DEF FreeFrecs
<1> HIDE DEF n
<1>3. ASSUME NEW i \in Frec \ InUse(n) PROVE n.frecs[i].rfd = NoRfd
  <2>1. CASE i \in F
    BY <1>1, <2>1, NothingHeld DEF Freed
  <2>2. CASE i \notin F
    BY <1>1, <2>2 DEF Freed
  <2> QED BY <2>1, <2>2
<1>4. ASSUME NEW s \in Slot PROVE Counted(n, s)
  <2> DEFINE gone == Releases(t, F, s)
             all  == Users(t, s)
             left == Users(n, s)
  <2>1. left = all \ gone
    <3>1. ASSUME NEW i \in Frec, NEW f \in Family
          PROVE  n.frecs[i].rfd[f] = s <=> i \notin F /\ t.frecs[i].rfd[f] = s
      <4>1. CASE i \in F
        <5>1. n.frecs[i].rfd[f] = NoSlot
          BY <1>1, <4>1, NothingHeld DEF Freed
        <5> QED BY <4>1, <5>1, Constants
      <4>2. CASE i \notin F
        BY <1>1, <4>2 DEF Freed
      <4> QED BY <4>1, <4>2
    <3>2. ASSUME NEW u PROVE u \in left <=> u \in all /\ u \notin gone
      <4>1. u \in left <=> \E i \in Frec, f \in Family : u = <<i, f>> /\ n.frecs[i].rfd[f] = s
        BY UserIs DEF Users
      <4>2. u \in all <=> \E i \in Frec, f \in Family : u = <<i, f>> /\ t.frecs[i].rfd[f] = s
        BY UserIs DEF Users
      <4>3. u \in gone <=> \E i \in F, f \in Family : u = <<i, f>> /\ t.frecs[i].rfd[f] = s
        BY UserIs
      <4> HIDE DEF left, all, gone
      <4> QED BY <3>1, <4>1, <4>2, <4>3
    <3> QED BY <3>2
  <2>2. gone \subseteq all
    BY DEF Users, Releases
  <2>3. Cardinality(left) = Cardinality(all) - Cardinality(gone)
    <3>1. IsFiniteSet(all) /\ all \cap gone = gone
      BY <2>2, UsersFinite DEF Users
    <3> HIDE DEF left, all, gone
    <3>2. Cardinality(all \ gone) = Cardinality(all) - Cardinality(all \cap gone)
      BY <3>1, FS_Difference
    <3> QED BY <2>1, <3>1, <3>2
  <2>4. /\ Cardinality(left) \in Nat /\ Cardinality(gone) \in Nat /\ Cardinality(all) \in Nat
        /\ left # {} <=> Cardinality(left) # 0
    BY UsersFinite DEF Users
  <2>5. /\ t.socks[s].refcount = Cardinality(all) /\ t.socks[s].refcount <= MaxRef
        /\ \A u \in all : u[2] = t.socks[s].family
        /\ all # {} /\ ~SocketsMayFail => t.socks[s].open
    BY DEF Counted
  <2>6. MaxRef \in Nat
    BY ForwardAssumption
  <2> HIDE DEF left, all, gone
  <2>7. /\ n.socks[s].refcount = Cardinality(left) /\ n.socks[s].family = t.socks[s].family
        /\ Cardinality(left) # 0 => n.socks[s].open = t.socks[s].open
    <3>1. n.socks[s] = [refcount |-> Cardinality(left), family |-> t.socks[s].family,
                        open |-> IF Cardinality(left) = 0 THEN FALSE ELSE t.socks[s].open]
      BY <1>2, <2>3, <2>5 DEF gone
    <3>2. /\ n.socks[s].refcount = Cardinality(left)
          /\ n.socks[s].family = t.socks[s].family
          /\ n.socks[s].open = IF Cardinality(left) = 0 THEN FALSE ELSE t.socks[s].open
      BY <3>1
    <3>3. Cardinality(left) # 0 => n.socks[s].open = t.socks[s].open
      BY <3>2, Zenon
    <3> QED BY <3>2, <3>3
  <2>8. n.socks[s].refcount <= MaxRef
    BY <2>3, <2>4, <2>5, <2>6, <2>7
  <2>9. left # {} /\ ~SocketsMayFail => n.socks[s].open
    BY <2>1, <2>4, <2>5, <2>7
  <2> QED
    BY <2>1, <2>5, <2>7, <2>8, <2>9 DEF Counted, left
<1> QED
  BY <1>3, <1>4 DEF SockInv, n

LEMMA FreeFrecsSocks ==
    ASSUME NEW t, TableOK(t), SockInv(t), NEW F \in SUBSET Frec
    PROVE  SockInv(FreeFrecs(t, F))
BY FreeFrecsCounted DEF SockInv

(* get_new_frec and get_id only free records. *)
LEMMA GetNewFrecSocks ==
    ASSUME NEW t, TableOK(t), SockInv(t), NEW waiting \in BOOLEAN
    PROVE  SockInv(GetNewFrec(t, waiting).table)
<1> DEFINE new == GetNewFrec(t, waiting)
<1>1. \A F \in SUBSET Frec : SockInv(FreeFrecs(t, F))
  BY FreeFrecsSocks
<1>2. SockInv(Enlarged(t))
  <2>1. Enlarged(t).socks = t.socks /\ Enlarged(t).frecs = t.frecs
    BY DEF Enlarged, TableOK, TableType
  <2>2. InUse(Enlarged(t)) = InUse(t)
    BY <2>1 DEF InUse
  <2> QED BY <2>1, <2>2, SameUsers
<1>3. new.table \in {t, Enlarged(t)} \/ \E F \in SUBSET Frec : new.table = FreeFrecs(t, F)
  <2>1. Expired(t) \in SUBSET Frec
    BY DEF Expired, InUse
  <2>2. Reusable(t) => {Oldest(t)} \in SUBSET Frec
    BY OldestInUse DEF Reusable, InUse
  <2> QED BY <2>1, <2>2 DEF GetNewFrec
<1> QED
  BY <1>1, <1>2, <1>3

LEMMA GetIdSocks ==
    ASSUME NEW t, TableOK(t), SockInv(t), NEW r, NEW got \in GetId(t, r)
    PROVE  SockInv(got.table)
<1> DEFINE hit == LookupFrec(t, r.id, r.crc)
<1>1. hit # NoFrec => hit \in Frec
  BY LookupFrecOK DEF Matching, InUse
<1>2. got.table = t \/ (hit # NoFrec /\ got.table = FreeFrecs(t, {hit}))
  <2>1. CASE r.signed
    BY <2>1 DEF GetId
  <2>2. CASE ~r.signed
    BY <2>2 DEF GetId
  <2> QED BY <2>1, <2>2
<1> HIDE DEF hit
<1> QED
  BY <1>1, <1>2, FreeFrecsSocks

(* Waiting in select. *)
LEMMA AgedSocks ==
    ASSUME NEW t, TableOK(t), SockInv(t), NEW seconds
    PROVE  SockInv(Aged(t, seconds))
<1> DEFINE n == Aged(t, seconds)
<1>1. t \in TableType
  BY DEF TableOK
<1>2. /\ n.socks = t.socks
      /\ n.frecs = [i \in Frec |->
            IF i \in InUse(t)
            THEN [t.frecs[i] EXCEPT !.age = Min({@ + seconds, 4 * TIMEOUT})]
            ELSE t.frecs[i]]
  BY <1>1 DEF Aged, TableType
<1> HIDE DEF n
<1>3. ASSUME NEW i \in Frec
      PROVE  n.frecs[i].rfd = t.frecs[i].rfd /\ n.frecs[i].sentto = t.frecs[i].sentto
  <2> DEFINE old == t.frecs[i]
             age == Min({old.age + seconds, 4 * TIMEOUT})
  <2>1. n.frecs[i] = IF i \in InUse(t) THEN [old EXCEPT !.age = age] ELSE old
    BY <1>2
  <2>2. old \in FrecRecord
    BY <1>1 DEF TableType
  <2> HIDE DEF old, age
  <2>3. n.frecs[i].rfd = old.rfd /\ n.frecs[i].sentto = old.sentto
    BY <2>1, <2>2 DEF FrecRecord
  <2> QED BY <2>3 DEF old
<1>4. InUse(n) = InUse(t)
  BY <1>3 DEF InUse
<1> QED
  BY <1>2, <1>3, <1>4, SameUsers DEF n

(* allocate_rfd gives a socket nobody uses, or one of the family with room. *)
LEMMA AllocateRfdOK ==
    ASSUME NEW t, NEW f, NEW s \in Slot
    PROVE  LET can == AllocateRfd(t, f) IN
           /\ s \in can.opened => t.socks[s].refcount = 0
           /\ s \in can.grabbed => /\ t.socks[s].family = f /\ t.socks[s].refcount # MaxRef
                                   /\ ~SocketsMayFail => t.socks[s].refcount # 0
<1> DEFINE free   == {x \in Slot : t.socks[x].refcount = 0}
           opens  == ~SocketsMayFail /\ free # {}
           shared == {x \in Slot : t.socks[x].family = f /\ t.socks[x].refcount # MaxRef}
           can    == AllocateRfd(t, f)
<1>1. /\ can.opened = IF opens THEN {Min(free)} ELSE free
      /\ can.grabbed = IF opens THEN {} ELSE IF shared = {} THEN {NoSlot} ELSE shared
  BY DEF AllocateRfd
<1>2. free # {} => Min(free) \in free
  <2>1. free \in SUBSET Nat
    BY ForwardAssumption
  <2> HIDE DEF free
  <2> QED BY <2>1, MinInSet
<1>3. s \in can.opened => s \in free
  <2> HIDE DEF free
  <2> QED BY <1>1, <1>2
<1>4. s \in can.grabbed => s \in shared /\ ~opens
  BY <1>1, Constants
<1>5. s \in can.grabbed => (~SocketsMayFail => s \notin free)
  BY <1>4
<1> QED
  BY <1>3, <1>4, <1>5

(* The families that ask for a socket, each at its own place of the ring. *)
LEMMA NeedsOK ==
    ASSUME NEW t, NEW rec, NEW ring, DOMAIN ring \subseteq Nat, NEW type, NEW domain, NEW attempt
    PROVE  LET needs == Loop(t, rec, ring, type, domain, attempt).needs IN
           \A f \in Family :
             /\ needs[f] \in Nat
             /\ needs[f] # 0 => /\ rec.rfd[f] = NoSlot
                                /\ ServerAttr[ring[needs[f]]].family = f
<1> DEFINE loop == Loop(t, rec, ring, type, domain, attempt)
<1>1. PICK reached \in SUBSET DOMAIN ring :
        loop.needs = [f \in Family |->
            IF rec.rfd[f] # NoSlot THEN 0
            ELSE SetMin({k \in reached : ~ServerAttr[ring[k]].sfd
                                         /\ ServerAttr[ring[k]].family = f}, 0)]
  BY DEF Loop
<1> HIDE DEF loop
<1> SUFFICES ASSUME NEW f \in Family
             PROVE  /\ loop.needs[f] \in Nat
                    /\ loop.needs[f] # 0 => /\ rec.rfd[f] = NoSlot
                                            /\ ServerAttr[ring[loop.needs[f]]].family = f
  BY DEF loop
<1> DEFINE asks == {k \in reached : ~ServerAttr[ring[k]].sfd /\ ServerAttr[ring[k]].family = f}
<1>2. loop.needs[f] = IF rec.rfd[f] # NoSlot THEN 0 ELSE SetMin(asks, 0)
  BY <1>1
<1>3. asks # {} => Min(asks) \in asks
  <2>1. asks \in SUBSET Nat
    OBVIOUS
  <2> HIDE DEF asks
  <2> QED BY <2>1, MinInSet
<1> QED
  BY <1>2, <1>3 DEF SetMin

(* What the families that need a socket get: a socket goes to one family of a
   record, was free if it was opened, and else was one of that family.       *)
LEMMA OneTaker ==
    ASSUME NEW t, TableOK(t), \A x \in Slot : Counted(t, x),
           NEW rec, NEW attempt, NEW needs,
           \A f, g \in Family : needs[f] \in Nat /\ (needs[f] # 0 /\ needs[f] = needs[g] => f = g),
           Possible(t, rec, attempt, needs),
           NEW s \in Slot, NEW f \in Family, needs[f] # 0, attempt.got[f] = s
    PROVE  /\ \A g \in Family : needs[g] # 0 /\ attempt.got[g] = s => g = f
           /\ IF f \in attempt.opened THEN t.socks[s].refcount = 0
              ELSE /\ t.socks[s].family = f /\ t.socks[s].refcount < MaxRef
                   /\ ~SocketsMayFail => t.socks[s].refcount # 0
<1> DEFINE before(h) == {g \in Family : needs[g] # 0 /\ needs[g] < needs[h]}
           W(h)      == WithSockets(t, attempt, before(h))
           earlier(h) == {g \in before(h) : attempt.got[g] = s}
<1>1. t \in TableType /\ t.socks[s] \in RandFd
  BY DEF TableOK, TableType
<1>2. t.socks[s].refcount \in Nat /\ t.socks[s].refcount <= MaxRef /\ MaxRef \in Nat
  BY UsersFinite, ForwardAssumption DEF Counted, Users
<1>3. ASSUME NEW h \in Family
      PROVE  W(h).socks[s] =
               IF earlier(h) = {} THEN t.socks[s]
               ELSE [refcount |-> t.socks[s].refcount + Cardinality(earlier(h)),
                     family   |-> CHOOSE g \in earlier(h) : TRUE,
                     open     |-> IF earlier(h) \cap attempt.opened # {} THEN TRUE
                                  ELSE t.socks[s].open]
  BY <1>1 DEF WithSockets, TableType
<1>4. ASSUME NEW h \in Family, needs[h] # 0, attempt.got[h] = s
      PROVE  IF h \in attempt.opened THEN W(h).socks[s].refcount = 0
             ELSE /\ W(h).socks[s].family = h /\ W(h).socks[s].refcount # MaxRef
                  /\ ~SocketsMayFail => W(h).socks[s].refcount # 0
  <2>1. s \in (IF h \in attempt.opened THEN AllocateRfd(W(h), h).opened
               ELSE AllocateRfd(W(h), h).grabbed)
    BY <1>4 DEF Possible
  <2> HIDE DEF W
  <2> QED BY <2>1, AllocateRfdOK
<1>5. ASSUME NEW h \in Family, needs[h] # 0, attempt.got[h] = s, NEW g \in earlier(h)
      PROVE  FALSE
  <2>1. /\ W(h).socks[s].refcount = t.socks[s].refcount + Cardinality(earlier(h))
        /\ W(h).socks[s].family \in earlier(h)
    <3> DEFINE E    == earlier(h)
               some == CHOOSE x \in E : TRUE
               open == IF E \cap attempt.opened # {} THEN TRUE ELSE t.socks[s].open
    <3>1. E # {}
      BY <1>5
    <3>2. W(h).socks[s] =
            IF E = {} THEN t.socks[s]
            ELSE [refcount |-> t.socks[s].refcount + Cardinality(E), family |-> some,
                  open |-> open]
      BY <1>3
    <3> HIDE DEF W, earlier, E, open
    <3>3. some \in E
      BY <3>1
    <3> HIDE DEF some
    <3> QED BY <3>1, <3>2, <3>3 DEF E
  <2>2. Cardinality(earlier(h)) \in Nat /\ Cardinality(earlier(h)) # 0
    <3>1. IsFiniteSet(earlier(h))
      BY Constants, FS_Subset
    <3> HIDE DEF earlier
    <3> QED BY <1>5, <3>1, FS_CardinalityType, FS_EmptySet
  <2>3. h \notin earlier(h)
    OBVIOUS
  <2> HIDE DEF W, earlier
  <2> QED BY <1>2, <1>4, <1>5, <2>1, <2>2, <2>3
<1>6. ASSUME NEW g \in Family, needs[g] # 0, attempt.got[g] = s, g # f PROVE FALSE
  <2>1. needs[g] < needs[f] \/ needs[f] < needs[g]
    BY <1>6
  <2>2. g \in earlier(f) \/ f \in earlier(g)
    BY <1>6, <2>1
  <2> HIDE DEF earlier
  <2> QED BY <1>5, <1>6, <2>2
<1>7. W(f).socks[s] = t.socks[s]
  <2> HIDE DEF W, earlier
  <2> QED BY <1>3, <1>5
<1> HIDE DEF W
<1>8. IF f \in attempt.opened THEN t.socks[s].refcount = 0
      ELSE /\ t.socks[s].family = f /\ t.socks[s].refcount # MaxRef
           /\ ~SocketsMayFail => t.socks[s].refcount # 0
  BY <1>4, <1>7
<1> QED
  BY <1>2, <1>6, <1>8

(* The record gets the sockets it needs, and they count it. *)
LEMMA HeldCounted ==
    ASSUME NEW t, TableOK(t), \A x \in Slot : Counted(t, x),
           NEW rec, NEW attempt, NEW needs,
           \A f, g \in Family : needs[f] \in Nat /\ (needs[f] # 0 /\ needs[f] = needs[g] => f = g),
           \A f \in Family : needs[f] # 0 => rec.rfd[f] = NoSlot,
           Possible(t, rec, attempt, needs),
           NEW i \in Frec, rec.rfd = t.frecs[i].rfd, NEW new, new.rfd = attempt.got,
           NEW held, held.frecs = [t.frecs EXCEPT ![i] = new],
           held.socks = WithSockets(t, attempt, {f \in Family : needs[f] # 0}).socks,
           NEW s \in Slot
    PROVE  Counted(held, s)
<1> DEFINE takers == {f \in {g \in Family : needs[g] # 0} : attempt.got[f] = s}
           old    == Users(t, s)
           now    == Users(held, s)
<1>1. t \in TableType /\ t.frecs \in [Frec -> FrecRecord] /\ t.socks[s] \in RandFd
  BY DEF TableOK, TableType
<1>2. held.socks[s] =
        IF takers = {} THEN t.socks[s]
        ELSE [refcount |-> t.socks[s].refcount + Cardinality(takers),
              family   |-> CHOOSE f \in takers : TRUE,
              open     |-> IF takers \cap attempt.opened # {} THEN TRUE
                           ELSE t.socks[s].open]
  BY <1>1 DEF WithSockets, TableType
<1>3. ASSUME NEW j \in Frec, NEW f \in Family
      PROVE  held.frecs[j].rfd[f] = s <=> t.frecs[j].rfd[f] = s \/ (j = i /\ f \in takers)
  <2>1. CASE j # i
    BY <1>1, <2>1
  <2>2. CASE j = i /\ needs[f] = 0
    <3>1. attempt.got[f] = rec.rfd[f]
      BY <2>2 DEF Possible
    <3> QED BY <1>1, <2>2, <3>1
  <2>3. CASE j = i /\ needs[f] # 0
    <3>1. t.frecs[j].rfd[f] # s
      BY <2>3, Constants
    <3> QED BY <1>1, <2>3, <3>1
  <2> QED BY <2>1, <2>2, <2>3
<1>4. ASSUME NEW u
      PROVE  u \in now <=> u \in old \/ \E f \in takers : u = <<i, f>>
  <2>1. u \in now <=> \E j \in Frec, f \in Family : u = <<j, f>> /\ held.frecs[j].rfd[f] = s
    BY ONLY UserOf DEF now
  <2>2. u \in old <=> \E j \in Frec, f \in Family : u = <<j, f>> /\ t.frecs[j].rfd[f] = s
    BY ONLY UserOf DEF old
  <2>3. takers \subseteq Family
    OBVIOUS
  <2> HIDE DEF takers, now, old
  <2> QED BY <1>3, <2>1, <2>2, <2>3
<1>5. /\ t.socks[s].refcount = Cardinality(old) /\ t.socks[s].refcount <= MaxRef
      /\ \A u \in old : u[2] = t.socks[s].family
      /\ old # {} /\ ~SocketsMayFail => t.socks[s].open
      /\ IsFiniteSet(old) /\ Cardinality(old) \in Nat /\ (old # {} <=> Cardinality(old) # 0)
      /\ MaxRef \in Nat /\ MaxRef # 0
  BY UsersFinite, ForwardAssumption DEF Counted, Users
<1>6. CASE takers = {}
  <2>1. now = old
    <3> HIDE DEF now, old, takers
    <3> QED BY <1>4, <1>6
  <2>2. held.socks[s] = t.socks[s]
    BY <1>2, <1>6
  <2> QED BY <1>5, <2>1, <2>2 DEF Counted
<1>7. CASE takers # {}
  <2>1. PICK f \in takers : TRUE
    BY <1>7
  <2>2. f \in Family /\ needs[f] # 0 /\ attempt.got[f] = s
    OBVIOUS
  <2>3. /\ \A g \in Family : needs[g] # 0 /\ attempt.got[g] = s => g = f
        /\ IF f \in attempt.opened THEN t.socks[s].refcount = 0
           ELSE /\ t.socks[s].family = f /\ t.socks[s].refcount < MaxRef
                /\ ~SocketsMayFail => t.socks[s].refcount # 0
    BY <2>2, OneTaker
  <2>4. takers = {f}
    BY <2>2, <2>3
  <2>5. Cardinality(takers) = 1 /\ (CHOOSE g \in takers : TRUE) = f
    BY <2>4, FS_Singleton
  <2>6. <<i, f>> \notin old
    <3>1. t.frecs[i].rfd[f] = NoSlot
      BY <2>2
    <3>2. <<i, f>> \in old => t.frecs[i].rfd[f] = s
      BY DEF Users, Releases
    <3> HIDE DEF old
    <3> QED BY <3>1, <3>2, Constants
  <2>7. now = old \cup {<<i, f>>}
    <3> HIDE DEF now, old, takers
    <3> QED BY <1>4, <2>4
  <2>8. Cardinality(now) = Cardinality(old) + 1
    <3> HIDE DEF now, old
    <3> QED BY <1>5, <2>6, <2>7, FS_AddElement
  <2> DEFINE open == IF takers \cap attempt.opened # {} THEN TRUE ELSE t.socks[s].open
  <2>9. held.socks[s] = [refcount |-> t.socks[s].refcount + 1, family |-> f, open |-> open]
    BY <1>2, <1>7, <2>5
  <2>10. ~SocketsMayFail => open
    <3>1. CASE f \in attempt.opened
      BY <2>4, <3>1
    <3>2. CASE f \notin attempt.opened
      <4>1. ~SocketsMayFail => t.socks[s].open
        <5> HIDE DEF old
        <5> QED BY <1>5, <2>3, <3>2
      <4> QED BY <4>1
    <3> QED BY <3>1, <3>2
  <2>11. \A u \in now : u[2] = f
    <3>1. \A u \in old : u[2] = f
      <4>1. CASE f \in attempt.opened
        <5> HIDE DEF old
        <5> QED BY <1>5, <2>3, <4>1
      <4>2. CASE f \notin attempt.opened
        BY <1>5, <2>3, <4>2
      <4> QED BY <4>1, <4>2
    <3> HIDE DEF now, old
    <3> QED BY <2>7, <3>1
  <2> HIDE DEF open, now, old, takers
  <2>12. t.socks[s].refcount + 1 <= MaxRef
    BY <1>5, <2>3
  <2>13. /\ held.socks[s].refcount = t.socks[s].refcount + 1 /\ held.socks[s].family = f
         /\ held.socks[s].open = open
    BY <2>9
  <2>14. held.socks[s].refcount = Cardinality(now) /\ held.socks[s].refcount <= MaxRef
    BY <1>5, <2>8, <2>12, <2>13
  <2>15. ~SocketsMayFail => held.socks[s].open
    BY <2>10, <2>13, Zenon
  <2> QED BY <2>11, <2>13, <2>14, <2>15 DEF Counted, now
<1> QED
  BY <1>6, <1>7

(* So the send loop leaves the sockets counted, whether it sends or not. *)
LEMMA TransmitSocks ==
    ASSUME NEW t, TableOK(t), SockInv(t), NEW i \in Frec, i <= t.count, NEW rec \in FrecRecord,
           rec.rfd = t.frecs[i].rfd, servers \in Seq(Server), NEW start \in Range(servers),
           NEW type, NEW domain, NEW out \in Transmit(t, i, rec, start, type, domain)
    PROVE  SockInv(out.table)
<1> DEFINE ring == Ring(start)
           Run(b) == Loop(t, rec, ring, type, domain, b)
<1>1. PICK a \in Attempts(rec) : /\ Possible(t, rec, a, Run(a).needs)
                                 /\ out = Outcome(t, i, rec, ring, a, Run(a))
  BY DEF Transmit
<1> DEFINE needs == Run(a).needs
           sent  == Run(a).sent
           base  == WithSockets(t, a, {f \in Family : needs[f] # 0})
           new   == SentRecord(rec, ring, a, sent)
           held  == [base EXCEPT !.frecs[i] = new]
<1>2. a.got \in [Family -> Slot \cup {NoSlot}]
  BY DEF Attempts
<1>3. /\ Len(servers) \in Nat /\ sent \in SUBSET (1..Len(servers))
      /\ \A k \in 1..Len(servers) : ring[k] \in Server
      /\ DOMAIN ring \subseteq Nat
  BY RingOK, LoopSent
<1>4. /\ TableOK(base) /\ base.frecs = t.frecs /\ base.count = t.count
  BY WithSocketsOK
<1>5. /\ new \in FrecRecord /\ new.rfd = a.got
      /\ sent # {} => new.sentto \in Server
  <2> HIDE DEF sent, ring
  <2>1. \A k \in sent : ring[k] \in Server
    BY <1>3
  <2> DEFINE T == Server
  <2>2. T \in SUBSET Server /\ \A k \in sent : ring[k] \in T
    BY <2>1
  <2>3. new \in FrecRecord /\ new.rfd = a.got /\ (sent # {} => new.sentto \in T)
    <3> HIDE DEF T
    <3> QED BY ZenonT(30), <1>2, <1>3, <2>2, SentRecordOK DEF new
  <2> QED BY <2>3 DEF T
<1>6. /\ \A f, g \in Family : needs[f] \in Nat /\ (needs[f] # 0 /\ needs[f] = needs[g] => f = g)
      /\ \A f \in Family : needs[f] # 0 => rec.rfd[f] = NoSlot
  <2> HIDE DEF ring
  <2>1. \A f \in Family :
             /\ needs[f] \in Nat
             /\ needs[f] # 0 => /\ rec.rfd[f] = NoSlot
                                /\ ServerAttr[ring[needs[f]]].family = f
    BY <1>3, NeedsOK
  <2> HIDE DEF needs
  <2> QED BY <2>1
<1>7. out.table = IF sent = {} THEN FreeFrecs(held, {i}) ELSE held
  BY <1>1 DEF Outcome
<1>8. Possible(t, rec, a, needs)
  BY <1>1
<1> HIDE DEF new, sent, needs, Run, ring
<1>9. /\ held.frecs = [t.frecs EXCEPT ![i] = new] /\ held.socks = base.socks
      /\ held.count = t.count /\ held \in TableType
  <2>1. base \in TableType
    BY <1>4 DEF TableOK
  <2> HIDE DEF base
  <2> QED BY <1>4, <1>5, <2>1 DEF TableType
<1>10. TableOK(held) /\ \A j \in InUse(t) : j # i => j \in InUse(held)
  <2>1. t.frecs \in [Frec -> FrecRecord] /\ InUse(t) \subseteq 1..t.count /\ t.count \in Nat
    BY Constants DEF TableOK, TableType
  <2> HIDE DEF held
  <2>2. InUse(held) \subseteq InUse(t) \cup {i}
    BY <1>9, <2>1 DEF InUse
  <2>3. i \in 1..t.count
    BY <2>1 DEF Frec
  <2>4. \A j \in InUse(t) : j # i => j \in InUse(held)
    BY <1>9, <2>1 DEF InUse
  <2> QED BY <1>9, <2>1, <2>2, <2>3, <2>4 DEF TableOK
<1>11. \A s \in Slot : Counted(held, s)
  <2>1. \A x \in Slot : Counted(t, x)
    BY DEF SockInv
  <2>2. held.socks = WithSockets(t, a, {f \in Family : needs[f] # 0}).socks
    BY <1>9
  <2> HIDE DEF held
  <2> QED BY <1>5, <1>6, <1>8, <1>9, <2>1, <2>2, HeldCounted
<1> HIDE DEF held
<1>12. \A j \in Frec \ (InUse(held) \cup {i}) : held.frecs[j].rfd = NoRfd
  BY <1>9, <1>10 DEF SockInv, TableOK, TableType
<1>13. CASE sent = {}
  BY <1>7, <1>10, <1>11, <1>12, <1>13, FreeFrecsCounted
<1>14. CASE sent # {}
  <2>1. i \in InUse(held)
    BY <1>5, <1>9, <1>14, Constants DEF InUse, TableOK, TableType
  <2> QED BY <1>7, <1>11, <1>12, <1>14, <2>1 DEF SockInv
<1> QED
  BY <1>13, <1>14

(* A step that sets the table to one whose sockets are counted. *)
LEMMA SetTableSocks ==
    ASSUME NEW t, TableOK(t), SetTable(t), SockInv(t)
    PROVE  SockInv(Table)'
<1>1. Table' = [frecs |-> t.frecs, count |-> t.count, socks |-> t.socks]
  BY DEF Table, SetTable
<1>2. t \in TableType
  BY DEF TableOK
<1>3. Table' = t
  BY <1>1, <1>2 DEF TableType
<1> QED
  BY <1>3 DEF SockInv, Counted, Users, Releases, InUse

(* A record that is sent again. *)
LEMMA ResendSocks ==
    ASSUME NEW t, TableInv(t), SockInv(t), NEW i \in InUse(t), servers \in Seq(Server),
           NEW out \in Resend(t, i)
    PROVE  SockInv(out.table) /\ TableOK(out.table)
<1> DEFINE old == t.frecs[i]
           rec == Again(old)
<1>1. /\ out \in Transmit(t, i, rec, NextServer(old.sentto), SendsTo(old.sentto).type,
                          SendsTo(old.sentto).domain)
      /\ TableOK(t) /\ i \in Frec /\ i <= t.count /\ rec \in FrecRecord /\ rec.rfd = old.rfd
      /\ NextServer(old.sentto) \in Range(servers)
  BY ResendIs
<1>2. TableOK(out.table)
  BY ResendInv DEF TableInv
<1> HIDE DEF rec
<1> QED
  BY <1>1, <1>2, TransmitSocks

(* A new query that is forwarded: its record has no socket yet. *)
LEMMA ForwardNewSocks ==
    ASSUME IInv, SockInv(Table), NEW r \in Request, ForwardNew(r)
    PROVE  SockInv(Table)'
<1> DEFINE found == Search(r)
           new   == GetNewFrec(Table, FALSE)
           start == StartServer(found)
<1>1. new.frec \in Frec /\ start \in Range(servers) /\ TableOK(new.table)
  BY ForwardNewIs DEF TableInv
<1>2. PICK got \in GetId(new.table, r) :
        /\ TableInv(got.table) /\ got.id \in MsgId
        /\ \A j \in InUse(got.table) : j # new.frec
        /\ new.frec <= got.table.count
        /\ \E out \in Transmit(got.table, new.frec, NewFrec(r, got.id, found), start,
                                found.type, found.domain) :
             Sent(out) /\ IF out.sent THEN Awaits(r) ELSE AnsweredNow
  BY ForwardNewIs
<1> DEFINE rec == NewFrec(r, got.id, found)
<1>3. PICK out \in Transmit(got.table, new.frec, rec, start, found.type, found.domain) :
         Sent(out)
  BY <1>2
<1>4. r \in RequestRecord /\ servers \in Seq(Server) /\ TableOK(Table)
  BY Here, ForwardAssumption
<1>5. SockInv(new.table)
  BY <1>4, GetNewFrecSocks
<1>6. rec \in FrecRecord /\ rec.rfd = NoRfd
  BY <1>2, <1>4, NewFrecOK
<1> HIDE DEF rec, new, found, start
<1>7. TableOK(got.table) /\ SockInv(got.table)
  BY <1>1, <1>2, <1>5, GetIdSocks DEF TableInv
<1>8. rec.rfd = got.table.frecs[new.frec].rfd
  BY <1>1, <1>2, <1>6, <1>7 DEF SockInv
<1>9. SockInv(out.table)
  BY <1>1, <1>2, <1>3, <1>4, <1>6, <1>7, <1>8, TransmitSocks
<1>10. TableOK(out.table)
  BY <1>1, <1>2, <1>3, <1>4, <1>6, <1>7, TransmitOK
<1> QED
  BY <1>3, <1>9, <1>10, SetTableSocks DEF Sent

(* Any other reply frees the record, or counts one server less. *)
LEMMA ReplySocks ==
    ASSUME IInv, SockInv(Table), NEW from, NEW i \in Found \ {NoFrec}, NEW error \in BOOLEAN,
           NEW sound \in BOOLEAN, Reply(from, i, error, sound)
    PROVE  SockInv(Table)'
<1> DEFINE t == Table
<1>1. i \in Frec /\ TableOK(t)
  BY Here, FoundInUse DEF InUse
<1>2. CASE Final(i, error)
  <2>1. SetTable(FreeFrecs(t, {i}))
    BY <1>2 DEF Reply
  <2> HIDE DEF t
  <2>2. TableOK(FreeFrecs(t, {i})) /\ SockInv(FreeFrecs(t, {i}))
    <3>1. SockInv(t)
      BY DEF t
    <3> QED BY <1>1, <3>1, FreeFrecsOK, FreeFrecsSocks
  <2> QED BY <2>1, <2>2, SetTableSocks
<1>3. CASE ~Final(i, error)
  <2>1. /\ frecs' = [frecs EXCEPT ![i].forwardall = @ - 1]
        /\ count' = count /\ socks' = socks
    BY <1>3 DEF Reply, SetTable, Table
  <2>2. frecs \in [Frec -> FrecRecord]
    BY <1>1, TableNow DEF TableOK, TableType
  <2>3. ASSUME NEW j \in Frec
        PROVE  frecs'[j].rfd = frecs[j].rfd /\ frecs'[j].sentto = frecs[j].sentto
    <3> DEFINE old == frecs[j]
    <3>1. frecs'[j] = IF j = i THEN [old EXCEPT !.forwardall = old.forwardall - 1] ELSE old
      BY <2>1, <2>2
    <3>2. old \in FrecRecord
      BY <2>2
    <3> HIDE DEF old
    <3>3. frecs'[j].rfd = old.rfd /\ frecs'[j].sentto = old.sentto
      BY <3>1, <3>2 DEF FrecRecord
    <3> QED BY <3>3 DEF old
  <2> DEFINE n == Table'
  <2>4. n.socks = t.socks /\ \A j \in Frec : n.frecs[j].rfd = t.frecs[j].rfd
    BY <2>1, <2>3 DEF Table
  <2>5. InUse(n) = InUse(t)
    BY <2>3 DEF InUse, Table
  <2> HIDE DEF n, t
  <2>6. SockInv(t)
    BY DEF t
  <2>7. SockInv(n)
    BY <2>4, <2>5, <2>6, SameUsers
  <2> QED
    BY <2>7 DEF n, SockInv, Counted, Users, Releases, InUse
<1> QED
  BY <1>2, <1>3

(* No step loses count of a socket. *)
LEMMA SockInvStep == IInv /\ SockInv(Table) /\ [Next]_vars => SockInv(Table)'
<1> SUFFICES ASSUME IInv, SockInv(Table), [Next]_vars PROVE SockInv(Table)'
  OBVIOUS
<1>0. TableOK(Table) /\ TableInv(Table) /\ servers \in Seq(Server)
  BY Here
<1>1. UNCHANGED <<frecs, count, socks>> => SockInv(Table)'
  BY <1>0, Here, SetTableSocks
<1>2. ASSUME NEW waiting \in BOOLEAN
      PROVE  LET new == GetNewFrec(Table, waiting)
             IN  SockInv(new.table) /\ TableOK(new.table) /\ TableInv(new.table)
  <2>1. SockInv(GetNewFrec(Table, waiting).table)
    BY <1>0, GetNewFrecSocks
  <2>2. /\ TableOK(GetNewFrec(Table, waiting).table)
        /\ Fewer(Table, GetNewFrec(Table, waiting).table)
    BY <1>0, GetNewFrecOK
  <2> QED BY <1>0, <2>1, <2>2, FewerInv
<1>3. ASSUME NEW seconds \in 0..(4 * TIMEOUT), Select(seconds) PROVE SockInv(Table)'
  <2> DEFINE t == GetNewFrec(Table, TRUE).table
  <2>1. SetTable(Aged(t, seconds))
    BY <1>3 DEF Select
  <2>2. SockInv(t) /\ TableOK(t) /\ TableInv(t)
    BY <1>2
  <2> HIDE DEF t
  <2>3. SockInv(Aged(t, seconds)) /\ TableOK(Aged(t, seconds))
    <3>1. seconds \in Nat
      BY Constants
    <3> QED BY <2>2, <3>1, AgedSocks, AgedInv DEF TableInv
  <2> QED BY <2>1, <2>3, SetTableSocks
<1>4. ASSUME NEW file \in ResolvFiles, PollResolv(file) \/ HangUp(file) PROVE SockInv(Table)'
  <2> DEFINE F == {i \in InUse(Table) : frecs[i].sentto \in Replaced(servers, file)}
  <2>1. SetTable(FreeFrecs(Table, F))
    BY <1>4 DEF PollResolv, HangUp, ServersGone
  <2>2. F \in SUBSET Frec
    BY DEF InUse
  <2> HIDE DEF F
  <2>3. TableOK(FreeFrecs(Table, F)) /\ SockInv(FreeFrecs(Table, F))
    BY <1>0, <2>2, FreeFrecsOK, FreeFrecsSocks
  <2> QED BY <2>1, <2>3, SetTableSocks
<1>5. ASSUME NEW i \in InUse(Table), NEW out \in Resend(Table, i), SetTable(out.table)
      PROVE  SockInv(Table)'
  <2>1. SockInv(out.table) /\ TableOK(out.table)
    BY <1>0, ResendSocks
  <2> QED BY <1>5, <2>1, SetTableSocks
<1>6. CASE ReceiveQuery
  <2>1. PICK r \in Request :
           AnswerLocally(r) \/ RetryQuery(r) \/ ForwardNew(r) \/ RefuseNew(r)
    BY <1>6 DEF ReceiveQuery
  <2>2. CASE AnswerLocally(r)
    BY <1>1, <2>2 DEF AnswerLocally
  <2>3. CASE RetryQuery(r)
    <3>1. PICK i \in BySender(Table, r) : \E out \in Resend(Table, i) : SetTable(out.table)
      BY <2>3 DEF RetryQuery, Sent
    <3> QED BY <1>5, <3>1 DEF BySender
  <2>4. CASE RefuseNew(r)
    <3> DEFINE t == GetNewFrec(Table, FALSE).table
    <3>1. SetTable(Table) \/ SetTable(t)
      BY <2>4 DEF RefuseNew
    <3>2. SockInv(t) /\ TableOK(t)
      BY <1>2
    <3> HIDE DEF t
    <3> QED BY <1>0, <3>1, <3>2, SetTableSocks
  <2> QED BY <2>1, <2>2, <2>3, <2>4, ForwardNewSocks
<1>7. CASE ReplyQuery
  <2>1. PICK from \in RealServer \cap Range(servers) :
           \/ \E i \in Found \ {NoFrec} :
                 \/ ReplyTurnedBack(from, i)
                 \/ \E error, sound \in BOOLEAN : Reply(from, i, error, sound)
           \/ StrayReply(from)
    BY <1>7 DEF ReplyQuery
  <2>2. ASSUME NEW i \in Found \ {NoFrec}, ReplyTurnedBack(from, i) PROVE SockInv(Table)'
    BY <1>5, <2>2, FoundInUse DEF ReplyTurnedBack, Sent
  <2>3. CASE StrayReply(from)
    BY <1>1, <2>3 DEF StrayReply
  <2> QED BY <2>1, <2>2, <2>3, ReplySocks
<1>8. CASE \E a \in Interfaces : NewInterface(a)
  BY <1>1, <1>8 DEF NewInterface
<1>9. CASE UNCHANGED vars
  BY <1>1, <1>9 DEF vars
<1> QED
  BY <1>3, <1>4, <1>6, <1>7, <1>8, <1>9 DEF Next

(* At first nobody uses any. *)
LEMMA SockInvInit == Init => SockInv(Table)
<1> SUFFICES ASSUME Init PROVE SockInv(Table)
  OBVIOUS
<1>1. \A i \in Frec : Table.frecs[i].rfd = NoRfd
  BY NothingHeld DEF Init, Table
<1>2. ASSUME NEW s \in Slot PROVE Counted(Table, s)
  <2>1. Users(Table, s) = {}
    <3>1. ASSUME NEW u \in Frec \X Family PROVE Table.frecs[u[1]].rfd[u[2]] # s
      BY <1>1, NothingHeld, Constants
    <3> QED BY <3>1 DEF Users, Releases
  <2>2. Table.socks[s].refcount = 0 /\ MaxRef \in Nat
    BY ForwardAssumption DEF Init, Table
  <2> QED BY <2>1, <2>2, FS_EmptySet DEF Counted
<1> QED
  BY <1>1, <1>2 DEF SockInv

THEOREM SocketsInvariant == ASSUME NoLocalServer PROVE Spec => []SockInv(Table)
<1>1. Init => SockInv(Table)
  BY SockInvInit
<1>2. IInv /\ SockInv(Table) /\ [Next]_vars => SockInv(Table)'
  BY SockInvStep
<1> QED
  BY <1>1, <1>2, Invariant, PTL DEF Spec

(* A random socket is counted once for each record and family that uses it. *)
THEOREM ForwardRefcountExact == ASSUME NoLocalServer PROVE Spec => []RefcountExact
<1>1. SockInv(Table) => RefcountExact
  <2> SUFFICES ASSUME SockInv(Table), NEW s \in Slot
               PROVE  /\ socks[s].refcount = Cardinality(Releases(Table, InUse(Table), s))
                      /\ socks[s].refcount <= MaxRef
    BY DEF RefcountExact
  <2>1. Users(Table, s) = Releases(Table, InUse(Table), s)
    <3>1. ASSUME NEW u \in Frec \X Family, Table.frecs[u[1]].rfd[u[2]] = s
          PROVE  u[1] \in InUse(Table)
      BY <3>1, NothingHeld, Constants DEF SockInv
    <3>2. InUse(Table) \subseteq Frec
      BY DEF InUse
    <3> QED BY <3>1, <3>2 DEF Users, Releases
  <2> QED BY <2>1, TableNow DEF SockInv, Counted
<1> QED
  BY <1>1, SocketsInvariant, PTL

(* If sockets never fail to open, one that a record holds for a family is open
   and of that family.                                                      *)
THEOREM ForwardSocketsHeld ==
    ASSUME NoLocalServer, ~SocketsMayFail PROVE Spec => []SocketsHeld
<1>1. IInv /\ SockInv(Table) => SocketsHeld
  <2> SUFFICES ASSUME IInv, SockInv(Table), NEW i \in InUse(Table), NEW f \in Family,
                      NEW s, s = frecs[i].rfd[f], s # NoSlot
               PROVE  socks[s].refcount # 0 /\ socks[s].open /\ socks[s].family = f
    BY DEF SocketsHeld
  <2>1. i \in Frec /\ frecs[i] \in FrecRecord
    BY Here, InUseType, TableNow
  <2>2. s \in Slot
    BY <2>1 DEF FrecRecord
  <2>3. <<i, f>> \in Users(Table, s)
    BY <2>1, TableNow DEF Users, Releases
  <2>4. Users(Table, s) # {} <=> Cardinality(Users(Table, s)) # 0
    BY UsersFinite DEF Users
  <2>5. /\ socks[s].refcount = Cardinality(Users(Table, s))
        /\ \A u \in Users(Table, s) : u[2] = socks[s].family
        /\ Users(Table, s) # {} => socks[s].open
    BY <2>2, TableNow DEF SockInv, Counted
  <2> QED BY <2>3, <2>4, <2>5
<1> QED
  BY <1>1, Invariant, SocketsInvariant, PTL

=============================================================================
