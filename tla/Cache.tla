-------------------------------- MODULE Cache --------------------------------
(***************************************************************************)
(* The DNS cache (cache.c): an array of records that are, when they hold   *)
(* something, on a hash chain and on the LRU list; the records of          *)
(* /etc/hosts and of DHCP leases, which are on hash chains only; and the   *)
(* chain of new records, which become visible together.                    *)
(*                                                                         *)
(* The handlers that change the cache are the actions: a reply of an       *)
(* upstream server (extract_addresses in rfc1035.c), a search, a reload, a *)
(* change of the leases.  The functions of cache.c take the whole cache    *)
(* and return it, so that they can be put together as the code does.       *)
(*                                                                         *)
(* A record keeps how long it is still valid instead of its time to die.   *)
(* A CNAME record points to a cache record and has its uid, which changes  *)
(* when that record is freed; here the pointer itself becomes NoRec then.  *)
(***************************************************************************)
EXTENDS Integers, Sequences, FiniteSets, SequencesExt, Filters

CONSTANTS
    Name,          \* domain names
    NoName,        \* the empty name of a negative answer about an address
    LongName,      \* names that need a bigname, a subset of Name
    Addr,          \* IPv4 and IPv6 addresses
    NoAddr,
    NoRec,
    CacheSize,     \* number of records of the array
    MaxHosts,      \* names of /etc/hosts there is memory for
    MaxDhcp,       \* names of leases there is memory for
    Bignames,      \* number of bignames there may be
    Hash,          \* for each number of buckets: name -> its bucket
    RehashAt,      \* names in /etc/hosts that make the table grow
    MaxTtl,
    MaxItems,      \* most items of a reply
    Replies,       \* sequences of items, in the order they are inserted
    HostsFiles,    \* contents of /etc/hosts, sequences of HostsLine
    LeaseLists     \* the names of the leases, sequences of LeaseName

CacheRec == 1..CacheSize
HostsRec == (CacheSize + 1)..(CacheSize + MaxHosts)
DhcpRec  == (CacheSize + MaxHosts + 1)..(CacheSize + MaxHosts + MaxDhcp)
Rec      == CacheRec \cup HostsRec \cup DhcpRec

Flag == {"forward", "reverse", "v4", "v6", "cname", "neg", "hosts", "dhcp", "immortal", "big"}

AnyName   == Name \cup {NoName}

(* The flags of what extract_addresses inserts. *)
ItemFlag  == {f \in SUBSET {"forward", "reverse", "v4", "v6", "cname", "neg"} :
                 f \cap {"forward", "reverse"} # {}}
Item      == [flags : ItemFlag, name : AnyName, addr : Addr \cup {NoAddr},
              goal : AnyName, ttl : 0..MaxTtl]
HostsLine == [addr : Addr, family : {"v4", "v6"}, names : Seq(Name)]
LeaseName == [name : Name, addr : Addr, ttl : 0..MaxTtl]   \* 0: it never ends

(* extract_addresses goes on with the name that a CNAME stands for. *)
Follows(reply) ==
    \A i \in 1..(Len(reply) - 1) :
        "cname" \in reply[i].flags => /\ reply[i + 1].name = reply[i].goal
                                     /\ "forward" \in reply[i + 1].flags

ASSUME CacheAssumption ==
    /\ NoName \notin Name /\ NoAddr \notin Addr /\ NoRec \notin Rec
    /\ IsFiniteSet(Name) /\ LongName \subseteq Name
    /\ CacheSize \in Nat /\ MaxHosts \in Nat /\ MaxDhcp \in Nat
    /\ Bignames \in Nat /\ RehashAt \in Nat /\ MaxTtl \in Nat \ {0} /\ MaxItems \in Nat
    /\ \A size \in DOMAIN Hash : Hash[size] \in [AnyName -> 1..size]
    /\ {1, 2} \subseteq DOMAIN Hash   \* the sizes that rehash is given
    /\ Replies \subseteq Seq(Item) /\ \A reply \in Replies : Follows(reply)
    /\ HostsFiles \subseteq Seq(HostsLine) /\ LeaseLists \subseteq Seq(LeaseName)

VARIABLE cache

Crec == [flags : SUBSET Flag, name : AnyName, addr : Addr \cup {NoAddr}, ttl : 0..MaxTtl,
         target : CacheRec \cup {NoRec}, goal : AnyName]

(* A record that holds nothing; nothing reads its other fields.  goal is not
   in the code: the name that a CNAME was received for.                     *)
FreeCrec == [flags |-> {}, name |-> NoName, addr |-> NoAddr, ttl |-> 0,
             target |-> NoRec, goal |-> NoName]

BucketOf(c, name) == Hash[Len(c.chain)][name]

-----------------------------------------------------------------------------
(* What a record is *)

FlagsOf(c, r) == c.crec[r].flags
Live(c, r)    == FlagsOf(c, r) \cap {"forward", "reverse"} # {}
Local(c, r)   == FlagsOf(c, r) \cap {"hosts", "dhcp"} # {}

(* now is FALSE where the code passes 0 for the time. *)
Expired(c, r, now) == now /\ "immortal" \notin FlagsOf(c, r) /\ c.crec[r].ttl = 0
Outdated(c, r)     == "cname" \in FlagsOf(c, r) /\ c.crec[r].target = NoRec

NamedFor(c, r, name, prot) ==
    "forward" \in FlagsOf(c, r) /\ FlagsOf(c, r) \cap prot # {} /\ c.crec[r].name = name
AddressedFor(c, r, addr, prot) ==
    "reverse" \in FlagsOf(c, r) /\ FlagsOf(c, r) \cap prot # {} /\ c.crec[r].addr = addr

-----------------------------------------------------------------------------
(* Lists *)

(* cache_free: the record goes to the tail of the list and gets a new uid. *)
FreedAtHead(c, r) ==   \* mutant: to the head
    [c EXCEPT !.crec = [x \in Rec |->
                  IF x = r THEN FreeCrec
                  ELSE [c.crec[x] EXCEPT !.target = IF @ = r THEN NoRec ELSE @]],
              !.lru  = <<r>> \o @,
              !.big  = IF "big" \in FlagsOf(c, r) THEN @ + 1 ELSE @]

FreedSameUid(c, r) ==  \* mutant: with its old uid
    [c EXCEPT !.crec[r] = FreeCrec, !.lru = Append(@, r),
              !.big  = IF "big" \in FlagsOf(c, r) THEN @ + 1 ELSE @]

FreedBig(c, r) ==      \* mutant: giving back a bigname whatever its name
    [c EXCEPT !.crec = [x \in Rec |->
                  IF x = r THEN FreeCrec
                  ELSE [c.crec[x] EXCEPT !.target = IF @ = r THEN NoRec ELSE @]],
              !.lru  = Append(@, r), !.big = @ + 1]

Freed(c, r) ==
    [c EXCEPT !.crec = [x \in Rec |->
                  IF x = r THEN FreeCrec
                  ELSE [c.crec[x] EXCEPT !.target = IF @ = r THEN NoRec ELSE @]],
              !.lru  = Append(@, r),
              !.big  = IF "big" \in FlagsOf(c, r) THEN @ + 1 ELSE @]

Linked(c, r)   == [c EXCEPT !.lru = <<r>> \o @]
Unlinked(c, r) == [c EXCEPT !.lru = RemoveFirst(@, r)]
NotPromoted(c, r) == c    \* mutant
Promoted(c, r) == Linked(Unlinked(c, r), r)
Unhashed(c, r) == [c EXCEPT !.chain = [b \in DOMAIN @ |-> RemoveFirst(@[b], r)]]

(* Off its chain; a record of the array is freed.  One of a lease that
   expired is out of reach then.                                            *)
Discarded(c, r) ==
    IF Local(c, r) THEN [Unhashed(c, r) EXCEPT !.crec[r] = FreeCrec]
    ELSE Freed(Unlinked(Unhashed(c, r), r), r)

(* The first members of a sequence, up to one that passes Stop. *)
Before(s, i)      == IF i = 0 THEN s ELSE SubSeq(s, 1, i - 1)
Until(s, Stop(_)) == Before(s, SelectInSeq(s, Stop))

Reverses(c, chain) == Until(chain, LAMBDA x : "reverse" \notin FlagsOf(c, x))
Mortals(c, chain)  == Until(chain, LAMBDA x : /\ "reverse" \notin FlagsOf(c, x)
                                              /\ "immortal" \in FlagsOf(c, x))
Into(c, r, b, before) == [c EXCEPT !.chain[b] = InsertAt(@, 1 + Len(before), r)]

(* Mutant: immortal records are put where the others are. *)
CacheHashAny(c, r) ==
    LET bucket == BucketOf(c, c.crec[r].name) IN Into(c, r, bucket, Reverses(c, c.chain[bucket]))

(* cache_hash: "all entries with F_REVERSE set are at the start of the
   hash-chain and all non-reverse immortal entries are at the end".         *)
CacheHash(c, r) ==
    LET bucket == BucketOf(c, c.crec[r].name)
    IN  Into(c, r, bucket, IF "reverse" \in FlagsOf(c, r) THEN <<>>
                           ELSE IF "immortal" \in FlagsOf(c, r) THEN Mortals(c, c.chain[bucket])
                           ELSE Reverses(c, c.chain[bucket]))

(* The records that a walk over all chains meets: up to the immortal ones, or
   only those with an address to look for.                                  *)
MortalWalk(c)  == FlattenSeq([b \in DOMAIN c.chain |-> Mortals(c, c.chain[b])])
ReverseWalk(c) == FlattenSeq([b \in DOMAIN c.chain |-> Reverses(c, c.chain[b])])

(* rehash, when the table becomes larger. *)
Rehash(c, size) ==
    IF size <= Len(c.chain) THEN c
    ELSE FoldLeft(CacheHash, [c EXCEPT !.chain = [b \in 1..size |-> <<>>]], FlattenSeq(c.chain))

Hashed(c) == UNION {Range(c.chain[b]) : b \in DOMAIN c.chain}

-----------------------------------------------------------------------------
(* cache_scan_free *)

Family == {"v4", "v6"}

(* Mutant: a CNAME and an address do not give way to each other. *)
SharesFamily(c, r, name, flags) ==
    /\ "forward" \in FlagsOf(c, r) /\ c.crec[r].name = name
    /\ flags \cap FlagsOf(c, r) \cap Family # {}

Shares(c, r, name, flags) ==
    /\ "forward" \in FlagsOf(c, r) /\ c.crec[r].name = name
    /\ flags \cap FlagsOf(c, r) \cap Family # {} \/ "cname" \in flags \cup FlagsOf(c, r)

Dead(c, r, now) == Expired(c, r, now) \/ Outdated(c, r)

(* ok is FALSE where the name is one of /etc/hosts or of a lease. *)
Trumped(c, r, name, flags, now) == ~Dead(c, r, now) /\ Shares(c, r, name, flags) /\ Local(c, r)
ForwardScanned(s, r, name, flags, now) ==
    IF ~s.ok \/ Trumped(s.cache, r, name, flags, now) THEN [s EXCEPT !.ok = FALSE]
    ELSE IF Dead(s.cache, r, now) \/ Shares(s.cache, r, name, flags)
         THEN [s EXCEPT !.cache = Discarded(@, r)]
         ELSE s
ScanForward(c, name, flags, now) ==
    FoldLeft(LAMBDA s, r : ForwardScanned(s, r, name, flags, now),
             [cache |-> c, ok |-> TRUE], c.chain[BucketOf(c, name)])

(* "When we hit an entry which isn't reverse and is immortal, we're done." *)
Replaced(c, r, addr, flags) ==
    ~Local(c, r) /\ "reverse" \in flags /\ AddressedFor(c, r, addr, flags \cap Family)
ReverseScanned(c, r, addr, flags, now) ==
    IF Expired(c, r, now) \/ Replaced(c, r, addr, flags) THEN Discarded(c, r) ELSE c
ScanReverse(c, addr, flags, now) ==
    FoldLeft(LAMBDA d, r : ReverseScanned(d, r, addr, flags, now), c, MortalWalk(c))

Scan(c, name, addr, flags, now) ==
    IF "forward" \in flags THEN ScanForward(c, name, flags, now)
    ELSE [cache |-> ScanReverse(c, addr, flags, now), ok |-> TRUE]

-----------------------------------------------------------------------------
(* cache_start_insert, cache_insert, cache_end_insert *)

StartInsert(c) == FoldLeft(Freed, [c EXCEPT !.fresh = <<>>], c.fresh)

LiveTail(c) == c.lru # <<>> /\ Live(c, Last(c.lru))

(* The record that was not asked for longest makes room, with every record
   that a reply about its name or address would replace.                    *)
SpilledFor(c, tail) == Scan(c, tail.name, tail.addr, tail.flags, TRUE).cache
Spilled(c)          == SpilledFor(c, c.crec[Last(c.lru)])

(* At the first live tail every chain is swept of expired records; the scan
   of a reply about an address did so already.                              *)
Swept(c, item) ==
    IF LiveTail(c) /\ "reverse" \notin item.flags THEN ScanReverse(c, NoAddr, {}, TRUE) ELSE c
MadeRoom(c) == IF LiveTail(c) THEN Spilled(c) ELSE c

Big(item) == IF item.name \in LongName THEN 1 ELSE 0

Taken(c, item, new) ==
    [c EXCEPT !.lru       = RemoveFirst(@, new),
              !.fresh     = <<new>> \o @,
              !.big       = @ - Big(item),
              !.crec[new] = [flags |-> item.flags \cup (IF Big(item) = 1 THEN {"big"} ELSE {}),
                             name |-> item.name, addr |-> item.addr, ttl |-> item.ttl,
                             target |-> NoRec, goal |-> item.goal]]

Pointed(c, cpp, new) == IF cpp = NoRec THEN c ELSE [c EXCEPT !.crec[cpp].target = new]

(* s.ok is ~insert_error; s.cpp the CNAME that the next record answers. *)
InsertedIn(c, s, item) ==
    IF c.lru = <<>> \/ LiveTail(c) \/ Big(item) > c.big
    THEN [s EXCEPT !.cache = c, !.ok = FALSE]
    ELSE [s EXCEPT !.cache = Pointed(Taken(c, item, Last(c.lru)), s.cpp, Last(c.lru)),
                   !.cpp   = IF "cname" \in item.flags THEN Last(c.lru) ELSE NoRec]

InsertedAfter(scan, s, item) ==
    IF scan.ok THEN InsertedIn(MadeRoom(Swept(scan.cache, item)), s, item)
    ELSE [s EXCEPT !.cache = scan.cache, !.ok = FALSE]

Inserted(s, item) ==
    IF s.ok THEN InsertedAfter(Scan(s.cache, item.name, item.addr, item.flags, TRUE), s, item)
    ELSE s

(* "Drop CNAMEs which didn't find a target." *)
EndInsert(c) ==
    FoldLeft(LAMBDA d, r : IF Outdated(d, r) THEN Freed(d, r) ELSE Linked(CacheHash(d, r), r),
             [c EXCEPT !.fresh = <<>>], c.fresh)

(* Mutant: what a truncated reply holds becomes visible. *)
CommittedCut(s, complete) == IF s.ok THEN EndInsert(s.cache) ELSE s.cache

Committed(s, complete) == IF complete /\ s.ok THEN EndInsert(s.cache) ELSE s.cache

(* extract_addresses, after the first n items of a reply.  complete is FALSE
   for a reply that is truncated, or that was given up half way.            *)
Replied(c, reply, n, complete) ==
    Committed(FoldLeft(Inserted, [cache |-> StartInsert(c), ok |-> TRUE, cpp |-> NoRec],
                       SubSeq(reply, 1, n)), complete)

-----------------------------------------------------------------------------
(* cache_find_by_name, cache_find_by_addr: the cache after the first call,
   and the records that this call and the iteration after it return.        *)

(* Round-robin: those after the first are moved to before it, where *insert
   is, if they are in its section of chain b (ins_flags).                   *)
Section(c, r) == FlagsOf(c, r) \cap {"reverse", "immortal"}
MovedBefore(c, r, b, first) == Into(c, r, b, Until(c.chain[b], LAMBDA x : x = first))
Moved(s, r, b) ==
    IF s.first = NoRec THEN [s EXCEPT !.first = r]
    ELSE IF Section(s.cache, r) = Section(s.cache, s.first)
         THEN [s EXCEPT !.cache = MovedBefore(Unhashed(@, r), r, b, s.first)]
         ELSE s

Noted(s, r) == IF Local(s.cache, r) THEN [s EXCEPT !.locals = Append(@, r)]
               ELSE [s EXCEPT !.cache = Promoted(@, r)]

(* The iteration ends at the first record that is not searched for. *)
Found(s, matching) ==
    [cache |-> s.cache,
     found |-> Until(s.locals \o s.cache.lru, LAMBDA r : r \notin matching)]
NameFound(s, name, prot) == Found(s, {r \in Rec : NamedFor(s.cache, r, name, prot)})
AddrFound(s, addr, prot) == Found(s, {r \in Rec : AddressedFor(s.cache, r, addr, prot)})

NameSeen(s, r, name, prot, now) ==
    IF Dead(s.cache, r, now) THEN [s EXCEPT !.cache = Discarded(@, r)]
    ELSE IF NamedFor(s.cache, r, name, prot) THEN Moved(Noted(s, r), r, BucketOf(s.cache, name))
    ELSE s

FindByName(c, name, prot, now) ==
    NameFound(FoldLeft(LAMBDA s, r : NameSeen(s, r, name, prot, now),
                       [cache |-> c, locals |-> <<>>, first |-> NoRec],
                       c.chain[BucketOf(c, name)]), name, prot)

AddrSeen(s, r, addr, prot, now) ==
    IF Expired(s.cache, r, now) THEN [s EXCEPT !.cache = Discarded(@, r)]
    ELSE IF AddressedFor(s.cache, r, addr, prot) THEN Noted(s, r) ELSE s

FindByAddr(c, addr, prot, now) ==
    AddrFound(FoldLeft(LAMBDA s, r : AddrSeen(s, r, addr, prot, now),
                       [cache |-> c, locals |-> <<>>], ReverseWalk(c)), addr, prot)

(* answer_request, for an address of a name: a CNAME restarts the search
   with the name of the record it points to.  name is NoName at the end.
   The search itself may have freed that record after it met the CNAME: what
   is read then is the name it had, or, if that was a bigname, what is left
   of the pointer, a name that nothing has.                                 *)
LeftOver(goal) == IF goal \in LongName THEN NoName ELSE goal
NextName(c, r) == IF Outdated(c, r) THEN LeftOver(c.crec[r].goal)
                  ELSE c.crec[c.crec[r].target].name
Onward(f, i) ==
    [cache |-> f.cache, name |-> IF i = 0 THEN NoName ELSE NextName(f.cache, f.found[i])]
AfterSearch(f) == Onward(f, SelectInSeq(f.found, LAMBDA r : "cname" \in FlagsOf(f.cache, r)))

Restarted(s, family) ==
    IF s.name = NoName THEN s
    ELSE AfterSearch(FindByName(s.cache, s.name, {family, "cname"}, TRUE))

Answered(c, name, family) ==
    FoldLeft(LAMBDA s, i : Restarted(s, family), [cache |-> c, name |-> name],
             [i \in 1..Cardinality(Name) |-> i])

-----------------------------------------------------------------------------
(* cache_reload, cache_unhash_dhcp, cache_add_dhcp_entry *)

Without(c, gone) ==
    [c EXCEPT !.crec  = [r \in Rec |-> IF r \in gone THEN FreeCrec ELSE @[r]],
              !.chain = [b \in DOMAIN @ |->
                            Sifted(@[b], {i \in DOMAIN @[b] : @[b][i] \notin gone})]]

(* The records of the array are cleared where they are on the LRU list. *)
Cleared(c) ==
    [Without(c, {r \in Hashed(c) : "dhcp" \notin FlagsOf(c, r)}) EXCEPT
        !.big = @ + Cardinality({r \in Hashed(c) : "big" \in FlagsOf(c, r)})]

LocalCrec(flags, name, addr, ttl) ==
    [flags |-> flags, name |-> name, addr |-> addr, ttl |-> ttl, target |-> NoRec, goal |-> NoName]

NewLocalIn(c, r, flags, name, addr, ttl) ==
    CacheHash([c EXCEPT !.crec[r] = LocalCrec(flags, name, addr, ttl)], r)

(* whine_malloc, which fails when there is no record left. *)
NewLocal(c, recs, flags, name, addr, ttl) ==
    IF recs \subseteq Hashed(c) THEN c
    ELSE NewLocalIn(c, Min(recs \ Hashed(c)), flags, name, addr, ttl)

(* add_hosts_entry; dup is its addr_dup. *)
HasAddress(c, r, addr, flags) == flags \subseteq FlagsOf(c, r) /\ c.crec[r].addr = addr

AddHostsTo(f, name, addr, family, dup) ==
    LET taken == dup \/ \E r \in Hashed(f.cache) : HasAddress(f.cache, r, addr, {"hosts", family})
    IN  IF f.found # <<>> /\ HasAddress(f.cache, Head(f.found), addr, {"hosts"}) THEN f.cache
        ELSE NewLocal(f.cache, HostsRec,
                      {"hosts", "immortal", "forward", family} \cup (IF taken THEN {} ELSE {"reverse"}),
                      name, addr, 0)

AddHosts(c, name, addr, family, dup) ==
    IF HostsRec \subseteq Hashed(c) THEN c
    ELSE AddHostsTo(FindByName(c, name, {family}, FALSE), name, addr, family, dup)

(* One line of read_hostsfile. *)
AddLine(c, file, i) ==
    LET dup == i > 1 /\ file[i].addr = file[i - 1].addr /\ file[i].family = file[i - 1].family
    IN  FoldLeft(LAMBDA d, name : AddHosts(d, name, file[i].addr, file[i].family, dup),
                 c, file[i].names)

NamesIn(file) == FoldLeft(LAMBDA n, line : n + Len(line.names), 0, file)

Reloaded(c, file) ==
    Rehash(FoldLeft(LAMBDA d, i : AddLine(d, file, i), Cleared(c), [i \in 1..Len(file) |-> i]),
           IF NamesIn(file) > RehashAt THEN 2 ELSE 1)

UnhashDhcp(c) == Without(c, {r \in Hashed(c) : "dhcp" \in FlagsOf(c, r)})

(* What is left is to see whether the address has a name already. *)
DhcpHashed(c, lease, reverse) ==
    NewLocal(c, DhcpRec,
             {"dhcp", "forward", "v4"} \cup (IF reverse THEN {"reverse"} ELSE {})
                                       \cup (IF lease.ttl = 0 THEN {"immortal"} ELSE {}),
             lease.name, lease.addr, lease.ttl)

DhcpReversed(a, lease) ==
    IF a.found = <<>> THEN DhcpHashed(a.cache, lease, TRUE)
    ELSE IF "neg" \in FlagsOf(a.cache, Head(a.found))
    THEN DhcpHashed(ScanReverse(a.cache, lease.addr, {"v4", "reverse"}, FALSE), lease, TRUE)
    ELSE DhcpHashed(a.cache, lease, FALSE)

DhcpNamed(c, lease) == DhcpReversed(FindByAddr(c, lease.addr, {"v4"}, FALSE), lease)

(* The records of upstream servers come last; they give way, unless the name
   is in /etc/hosts with another address.                                   *)
DhcpOwned(f, lease, upstream, OfHosts) ==
    IF upstream = 0 \/ \E r \in OfHosts : f.cache.crec[r].addr # lease.addr THEN f.cache
    ELSE ScanForward(f.cache, lease.name,
                     FlagsOf(f.cache, f.found[upstream]) \cap {"v4", "cname", "forward"},
                     FALSE).cache

AddDhcpFound(f, lease, OfHosts) ==
    LET upstream == SelectInSeq(f.found, LAMBDA r : ~Local(f.cache, r))
    IN  IF OfHosts # {} THEN DhcpOwned(f, lease, upstream, OfHosts)
        ELSE DhcpNamed(DhcpOwned(f, lease, upstream, OfHosts), lease)

(* Mutant: what upstream servers said of the name stays. *)
AddDhcpBeside(f, lease) == DhcpNamed(f.cache, lease)

AddDhcpTo(f, lease) ==
    AddDhcpFound(f, lease, {r \in Range(f.found) : "hosts" \in FlagsOf(f.cache, r)})

AddDhcp(c, lease) == AddDhcpTo(FindByName(c, lease.name, {"v4", "cname"}, FALSE), lease)

(* lease_update_dns, when the names of the leases changed. *)
DnsUpdated(c, leases) == FoldLeft(AddDhcp, UnhashDhcp(c), leases)

-----------------------------------------------------------------------------
(* The cache and its handlers *)

CacheInit ==
    cache = [crec  |-> [r \in Rec |-> FreeCrec],
             lru   |-> [i \in 1..CacheSize |-> CacheSize + 1 - i],
             chain |-> <<<<>>>>, fresh |-> <<>>, big |-> Bignames]

ExtractAddresses(reply, n, complete) ==
    /\ n \in 0..Len(reply) /\ (complete => n = Len(reply))
    /\ cache' = Replied(cache, reply, n, complete)

AnswerAddress(name, family) == cache' = Answered(cache, name, family).cache
AnswerReverse(addr, family) == cache' = FindByAddr(cache, addr, {family}, TRUE).cache

(* The other searches: of check_for_local_domain, for MX and SRV answers,
   and those of dhcp.c, which give no time.                                 *)
Searches == {<<{"v4", "v6"}, TRUE>>, <<{"hosts", "dhcp"}, TRUE>>, <<{"v4"}, FALSE>>}
SearchName(name, prot, now) ==
    cache' = FindByName(cache, name, prot, now).cache
HostFromDns(addr) == cache' = FindByAddr(cache, addr, {"v4"}, FALSE).cache

(* clear_cache_and_reload; dirty when the new configuration changes the
   name of a lease.                                                         *)
ClearCacheAndReload(file, dirty, leases) ==
    cache' = IF dirty THEN DnsUpdated(Reloaded(cache, file), leases) ELSE Reloaded(cache, file)

LeaseUpdateDns(leases) == cache' = DnsUpdated(cache, leases)

(* A second passes. *)
Aged(crec) == [crec EXCEPT !.ttl = IF @ = 0 THEN 0 ELSE @ - 1]
Tick == cache' = [cache EXCEPT !.crec = [r \in Rec |-> Aged(cache.crec[r])]]

CacheNext ==
    \/ \E reply \in Replies, n \in 0..MaxItems, complete \in BOOLEAN :
          ExtractAddresses(reply, n, complete)
    \/ \E name \in Name, family \in Family : AnswerAddress(name, family)
    \/ \E addr \in Addr, family \in Family : AnswerReverse(addr, family)
    \/ \E name \in Name, search \in Searches : SearchName(name, search[1], search[2])
    \/ \E addr \in Addr : HostFromDns(addr)
    \/ \E file \in HostsFiles, dirty \in BOOLEAN, leases \in LeaseLists :
          ClearCacheAndReload(file, dirty, leases)
    \/ \E leases \in LeaseLists : LeaseUpdateDns(leases)
    \/ Tick

CacheSpec == CacheInit /\ [][CacheNext]_cache

-----------------------------------------------------------------------------
(* Properties *)

(* Every field of the cache has its type. *)
CacheTypeOK ==
    /\ cache.crec \in [Rec -> Crec]
    /\ Range(cache.lru) \subseteq CacheRec /\ Range(cache.fresh) \subseteq CacheRec
    /\ UNION {Range(cache.chain[b]) : b \in DOMAIN cache.chain} \subseteq Rec
    /\ cache.big \in 0..Bignames /\ Len(cache.chain) \in DOMAIN Hash

(* Every record of the array is once on the LRU list or on new_chain and
   never on both; a record is on a hash chain, the one of its name and once,
   exactly when it holds something and is not new; and on the LRU list no
   free record is before one in use, which is why cache_insert looks only at
   the tail.  No bigname is lost or used twice.                             *)
Structure ==
    /\ Len(cache.lru) + Len(cache.fresh) = CacheSize
    /\ Range(cache.lru \o cache.fresh) = CacheRec
    /\ Hashed(cache) = {r \in Rec : Live(cache, r)} \ Range(cache.fresh)
    /\ \A b \in DOMAIN cache.chain :
         /\ Cardinality(Range(cache.chain[b])) = Len(cache.chain[b])
         /\ \A r \in Range(cache.chain[b]) : BucketOf(cache, cache.crec[r].name) = b
    /\ \A i \in 1..(Len(cache.lru) - 1) : Live(cache, cache.lru[i + 1]) => Live(cache, cache.lru[i])
    /\ cache.big + Cardinality({r \in CacheRec : "big" \in FlagsOf(cache, r)}) = Bignames

(* "All entries with F_REVERSE set are at the start of the hash-chain and all
   non-reverse immortal entries are at the end", after any mixture of
   insertions, round-robin moves, reloads and changes of the leases: the
   walks of cache_scan_free and cache_find_by_addr stop early because of it. *)
Zone(c, r) == CASE "reverse" \in FlagsOf(c, r)  -> 1
                [] "reverse" \notin FlagsOf(c, r) /\ "immortal" \notin FlagsOf(c, r) -> 2
                [] OTHER -> 3
ChainOrder ==
    \A b \in DOMAIN cache.chain : \A i \in 1..(Len(cache.chain[b]) - 1) :
        Zone(cache, cache.chain[b][i]) <= Zone(cache, cache.chain[b][i + 1])

(* A search and the iteration after it, which runs over the hosts and DHCP
   records found and then into the LRU list, return every record that is
   visible, and each of them once; the search drops only what is no longer
   valid.                                                                   *)
Exactly(found, those) == Len(found) = Cardinality(those) /\ Range(found) = those
Invalid(r) == \/ Expired(cache, r, TRUE)
              \/ Outdated(cache, r)
              \/ "cname" \in FlagsOf(cache, r) /\ Expired(cache, cache.crec[r].target, TRUE)
Complete(f, Match(_)) ==
    Exactly(f.found, {r \in Hashed(f.cache) : Match(r)})
Dropped(f) == Hashed(cache) \ Hashed(f.cache)
FindsEach ==
    /\ \A name \in Name, family \in Family :
          \A f \in {FindByName(cache, name, {family, "cname"}, TRUE)} :
             /\ Complete(f, LAMBDA r : NamedFor(cache, r, name, {family, "cname"}))
             /\ \A r \in Dropped(f) : Invalid(r)
    /\ \A addr \in Addr, family \in Family :
          \A f \in {FindByAddr(cache, addr, {family}, TRUE)} :
             /\ Complete(f, LAMBDA r : AddressedFor(cache, r, addr, {family}))
             /\ \A r \in Dropped(f) : Expired(cache, r, TRUE)

(* A CNAME that a search may return points to a record in use, of the name
   it was received for: the record was not given to another name since.     *)
CnameTarget ==
    \A r \in Hashed(cache) : "cname" \in FlagsOf(cache, r) /\ ~Outdated(cache, r) =>
        LET t == cache.crec[r].target
        IN  t \in Hashed(cache) /\ "forward" \in FlagsOf(cache, t)
            /\ cache.crec[t].name = cache.crec[r].goal

(* The loop cname_restart of answer_request ends: whatever CNAMEs were
   received, in whichever replies, those in the cache form no cycle.        *)
AnswersEnd ==
    \A name \in Name, family \in Family : Answered(cache, name, family).name = NoName

(* A name that /etc/hosts or a lease gives an address has no record of an
   upstream server for that family, and no CNAME.                           *)
LocalTrumps ==
    \A l, u \in Hashed(cache) :
        Local(cache, l) /\ ~Local(cache, u) /\ "forward" \in FlagsOf(cache, u)
            => ~Shares(cache, l, cache.crec[u].name, FlagsOf(cache, u))

(* What a search may return, and what a whole reply makes known; a CNAME
   with no answer, at the end of a reply, makes nothing known.              *)
Fact(x) == [flags |-> x.flags \ {"big"}, name |-> x.name, addr |-> x.addr, goal |-> x.goal]
Visible == {r \in Hashed(cache) : ~Expired(cache, r, TRUE) /\ ~Outdated(cache, r)}

FactsOf(reply) ==
    LET answers == {i \in DOMAIN reply : "cname" \notin reply[i].flags}
    IN  {Fact(reply[i]) : i \in {j \in DOMAIN reply : /\ reply[j].ttl > 0
                                                      /\ \E k \in answers : j <= k}}

NameFact(r) == [flags |-> {"forward"} \cup (FlagsOf(cache, r) \cap Family),
                name |-> cache.crec[r].name, addr |-> cache.crec[r].addr]
LocalNames ==
    [flags : {{"forward", family} : family \in Family}, name : Name, addr : Addr]

Promise == INSTANCE Contents WITH
    Learnable  <- {FactsOf(reply) : reply \in Replies},
    LocalFacts <- LocalNames,
    upstream   <- {Fact(cache.crec[r]) : r \in {v \in Visible : ~Local(cache, v)}},
    local      <- {NameFact(r) : r \in {v \in Visible : Local(cache, v)}}

(* Searches, replies that are cut short, full lists, aborted insertions,
   reloads and lease changes do what Contents allows: a reply becomes known
   whole or not at all, replaces what was known of its names and addresses,
   and nothing else ever appears.                                           *)
ImplementsContents == Promise!Spec

=============================================================================
