------------------------------ MODULE Forward ------------------------------
(***************************************************************************)
(* The forwarding of DNS queries (forward.c), as the main loop drives it:  *)
(* the table of forwarded queries (frec), the pool of random source ports  *)
(* (randfd), the server that last answered, and the reloading of the       *)
(* server list under them.                                                 *)
(*                                                                         *)
(* dnsmasq is one process, so a handler is one step.  Time passes only in  *)
(* select; between two turns of the loop the handlers may run in any       *)
(* order.  The network may deliver any reply from the address of a known   *)
(* server, any number of times, late or never.  A record keeps its age     *)
(* instead of its time, up to the 4 * TIMEOUT at which it is wiped.        *)
(***************************************************************************)
EXTENDS Servers

CONSTANTS
    Client,          \* addresses of the clients (frec.source)
    MsgId,           \* message ids
    Crc,             \* checksums of question sections
    AskedFor,        \* Crc -> the question, or Many: not exactly one question
    Many,
    UnknownCrc,      \* the all-ones checksum of a question section that cannot be read
    Request,         \* the requests clients make, see RequestRecord
    OptionSets,      \* the combinations of options to start with
    ServerLists,     \* the lists start-up may have left in daemon->servers
    ResolvFiles,     \* contents of /etc/resolv.conf, or Unread
    Interfaces,      \* addresses that may come up on this machine
    Slot,            \* indices of the random sockets
    NoSlot,          \* the null struct randfd pointer
    MaxRef,          \* a socket is shared by that many records (0xffff)
    SocketsMayFail,  \* random_sock may fail to open a socket
    FtabSize,        \* --dns-forward-max
    TIMEOUT,         \* seconds before a record may be reused
    Listeners        \* number of listening sockets

RequestRecord == [client : Client, id : MsgId, crc : Crc, signed : BOOLEAN]
OptionBits    == {"order", "all_servers", "nodots_local", "no_poll"}

ASSUME ForwardAssumption ==
    /\ AskedFor \in [Crc -> Question \cup {Many}]
    /\ UnknownCrc \in Crc /\ AskedFor[UnknownCrc] = Many
    /\ Client # {} /\ MsgId # {} /\ IsFiniteSet(Family)
    /\ NoSlot \notin Slot
    /\ Request \subseteq RequestRecord
    /\ OptionSets \subseteq SUBSET OptionBits
    /\ ServerLists \subseteq Seq(Server) /\ ResolvFiles \subseteq Seq(FromResolv) \cup {Unread}
    /\ Interfaces \subseteq Addr
    /\ Slot \subseteq Nat /\ MaxRef \in Nat \ {0}
    /\ SocketsMayFail \in BOOLEAN
    /\ FtabSize \in Nat /\ TIMEOUT \in Nat \ {0}
    /\ Listeners \in Nat \ {0}

VARIABLES
    options,      \* daemon->options
    servers,      \* daemon->servers
    locals,       \* daemon->interfaces
    frecs,        \* daemon->frec_list: record 1 is the oldest, record count the head
    count,        \* length of the list
    socks,        \* daemon->randomsocks
    last_server, srv_save,
    toRead,       \* listening sockets that may still be read in this turn
    awaiting      \* senders with a query forwarded since their last answer

vars == <<options, servers, locals, frecs, count, socks, last_server, srv_save,
          toRead, awaiting>>

Frec == 1..(FtabSize + 1)

(* A record that is not in use has a null sentto; nothing reads its other
   fields.                                                                  *)
FrecRecord ==
    [sentto : Server \cup {NoServer}, source : Client, orig_id : MsgId,
     new_id : MsgId, crc : Crc, forwardall : Nat, age : 0..(4 * TIMEOUT),
     rfd : [Family -> Slot \cup {NoSlot}]]

NoRfd == [f \in Family |-> NoSlot]

FreeFrec == [sentto |-> NoServer, source |-> CHOOSE c \in Client : TRUE,
             orig_id |-> CHOOSE id \in MsgId : TRUE,
             new_id |-> CHOOSE id \in MsgId : TRUE, crc |-> CHOOSE c \in Crc : TRUE,
             forwardall |-> 0, age |-> 0, rfd |-> NoRfd]

(* A socket that was never opened has the family AF_UNSPEC. *)
RandFd == [refcount : Int, family : Family \cup {"unspec"}, open : BOOLEAN]

(* The forwarding table and its sockets, as the functions below pass them on. *)
Table       == [frecs |-> frecs, count |-> count, socks |-> socks]
SetTable(t) == frecs' = t.frecs /\ count' = t.count /\ socks' = t.socks

InUse(t) == {i \in Frec : t.frecs[i].sentto # NoServer}

Sender(r)     == <<r.client, r.id, r.crc>>
Senders       == {Sender(r) : r \in Request}
SenderOf(rec) == <<rec.source, rec.orig_id, rec.crc>>

-----------------------------------------------------------------------------
(* The functions on the table *)

(* free_frec, for each record of F: a socket nobody uses any more is closed. *)
Releases(t, F, s) == {u \in F \X Family : t.frecs[u[1]].rfd[u[2]] = s}

(* Mutant: the sockets of a freed record are not released. *)
FreeFrecsLeak(t, F) ==
    [t EXCEPT !.frecs = [i \in Frec |-> IF i \in F THEN FreeFrec ELSE t.frecs[i]]]

(* Mutant: a record that is freed stays in use. *)
FreeFrecsStale(t, F) == t

(* Mutant: the last but one user closes the socket. *)
FreeFrecsEarly(t, F) ==
    LET left(s) == t.socks[s].refcount - Cardinality(Releases(t, F, s)) IN
    [frecs |-> [i \in Frec |-> IF i \in F THEN FreeFrec ELSE t.frecs[i]],
     count |-> t.count,
     socks |-> [s \in Slot |->
                  [refcount |-> left(s), family |-> t.socks[s].family,
                   open |-> IF left(s) <= 1 /\ Releases(t, F, s) # {} THEN FALSE
                            ELSE t.socks[s].open]]]

FreeFrecs(t, F) ==
    LET left(s) == t.socks[s].refcount - Cardinality(Releases(t, F, s)) IN
    [frecs |-> [i \in Frec |-> IF i \in F THEN FreeFrec ELSE t.frecs[i]],
     count |-> t.count,
     socks |-> [s \in Slot |->
                  [refcount |-> left(s), family |-> t.socks[s].family,
                   open |-> IF left(s) = 0 THEN FALSE ELSE t.socks[s].open]]]

Expired(t)  == {i \in InUse(t) : t.frecs[i].age >= 4 * TIMEOUT}
Vacant(t)   == {i \in 1..t.count : i \notin InUse(t) \/ i \in Expired(t)}
Oldest(t)   == CHOOSE i \in InUse(t) : \A j \in InUse(t) :
                  \/ t.frecs[j].age < t.frecs[i].age
                  \/ t.frecs[j].age = t.frecs[i].age /\ i <= j
RoomOff(t)  == t.count <= FtabSize + 1   \* mutant: one record too many
Room(t)     == t.count <= FtabSize
Enlarged(t) == [t EXCEPT !.count = @ + 1]

NoFrec == 0

(* Mutant: the oldest record is taken however young it is. *)
ReusableAny(t) == InUse(t) # {}
Reusable(t)    == InUse(t) # {} /\ t.frecs[Oldest(t)].age >= TIMEOUT

(* get_new_frec: the table it leaves, the record it returns and the delay it
   asks for.  When the list is walked, records older than 4 * TIMEOUT are
   freed; the last vacant one of the walk is the oldest of the list.  "keep
   stuff for twice timeout if we can by allocating a new record instead".   *)
GetNewFrec(t, waiting) ==
    LET Result(table, i, delay) == [table |-> table, frec |-> i, delay |-> delay]
        oldAge   == t.frecs[Oldest(t)].age
        enlarges == Room(t) /\ (Reusable(t) => oldAge < 2 * TIMEOUT)
    IN  IF Vacant(t) # {} THEN Result(FreeFrecs(t, Expired(t)), Min(Vacant(t)), 0)
        ELSE IF enlarges THEN Result(Enlarged(t), t.count + 1, 0)
        ELSE IF Reusable(t)
        THEN Result(IF waiting THEN t ELSE FreeFrecs(t, {Oldest(t)}), Oldest(t), 0)
        ELSE Result(t, NoFrec, TIMEOUT - oldAge)

(* lookup_frec: the records it may find (UniqueIds: at most one when the
   checksum is known), and the one it returns, the first of the list.       *)
Matching(t, id, crc) ==
    {i \in InUse(t) : t.frecs[i].new_id = id /\ crc \in {t.frecs[i].crc, UnknownCrc}}
LookupFrec(t, id, crc) ==
    IF Matching(t, id, crc) = {} THEN NoFrec ELSE Max(Matching(t, id, crc))

(* Mutant: the id the query was forwarded under is compared. *)
BySenderNewId(t, r) ==
    {i \in InUse(t) : <<t.frecs[i].source, t.frecs[i].new_id, t.frecs[i].crc>> = Sender(r)}
BySender(t, r) == {i \in InUse(t) : SenderOf(t.frecs[i]) = Sender(r)}

(* get_id: a signed query keeps its id, and a record that has it is freed;
   any other gets a random id that no record of its question has.           *)
GetIdKept(t, r) ==   \* mutant: the record that has the signed query's id is kept
    {[table |-> t, id |-> id] :
        id \in IF r.signed THEN {r.id} ELSE {x \in MsgId : Matching(t, x, r.crc) = {}}}

GetId(t, r) ==
    LET hit == LookupFrec(t, r.id, r.crc) IN
    IF r.signed
    THEN {[table |-> IF hit = NoFrec THEN t ELSE FreeFrecs(t, {hit}), id |-> r.id]}
    ELSE {[table |-> t, id |-> id] : id \in {x \in MsgId : Matching(t, x, r.crc) = {}}}

-----------------------------------------------------------------------------
(* The send loop of forward_query *)

(* One turn round the list of servers from start: at each place the server
   asked, and the places of those that deal with the query.                 *)
Ring(start) ==
    LET first == CHOOSE p \in 1..Len(servers) : servers[p] = start
    IN  [k \in 1..Len(servers) |-> servers[((first + k - 2) % Len(servers)) + 1]]

(* What happens to a loop: got, the random sockets the record has after it;
   opened, the families it opened a socket for; up, the servers to which
   sendto succeeds.                                                         *)
Attempts(rec) ==
    LET without == {f \in Family : rec.rfd[f] = NoSlot} IN
    [got    : {got \in [Family -> Slot \cup {NoSlot}] :
                  \A f \in Family \ without : got[f] = rec.rfd[f]},
     opened : SUBSET without,
     up     : SUBSET Range(servers)]

SetMin(S, none) == IF S = {} THEN none ELSE Min(S)

(* The loop over ring, for the record rec with the given attempt: it breaks
   at the first server whose socket cannot be had and, unless the query goes
   to all of them, after the first server it could be sent to.              *)
Loop(t, rec, ring, type, domain, attempt) ==
    LET places   == {k \in DOMAIN ring : Eligible(ring[k], type, domain)}
        own(k)   == ServerAttr[ring[k]].sfd
        fam(k)   == ServerAttr[ring[k]].family
        slot(k)  == attempt.got[fam(k)]
        blocked  == {k \in places : ~own(k) /\ slot(k) = NoSlot}
        sendable == {k \in places \ blocked :
                        /\ ring[k] \in attempt.up
                        /\ \/ own(k)
                           \/ t.socks[slot(k)].open
                           \/ fam(k) \in attempt.opened}
        last     == Min({Len(ring)} \cup blocked
                        \cup (IF rec.forwardall = 0 THEN sendable ELSE {}))
        reached  == {k \in places : k <= last}
    IN  [sent    |-> sendable \cap reached,
         \* the place at which each family first asks for a socket
         needs   |-> [f \in Family |->
                        IF rec.rfd[f] # NoSlot THEN 0
                        ELSE SetMin({k \in reached : ~own(k) /\ fam(k) = f}, 0)]]

(* allocate_rfd: a free slot if a socket can be opened for it, else one that
   is shared.  The second search of the code does not ask whether the slot it
   takes is in use, so it may take one whose socket could not be opened.  The
   place where that search starts (finger) is left out: any match will do.  *)
AllocateRfd(t, f) ==
    LET free   == {s \in Slot : t.socks[s].refcount = 0}
        opens  == ~SocketsMayFail /\ free # {}
        shared == {s \in Slot : t.socks[s].family = f /\ t.socks[s].refcount # MaxRef}
    IN  [opened  |-> IF opens THEN {Min(free)} ELSE free,
         grabbed |-> IF opens THEN {} ELSE IF shared = {} THEN {NoSlot} ELSE shared]

(* The table once the record holds the sockets that attempt gives families. *)
WithSockets(t, attempt, families) ==
    LET takers(s) == {f \in families : attempt.got[f] = s} IN
    [t EXCEPT !.socks = [s \in Slot |->
        IF takers(s) = {} THEN t.socks[s]
        ELSE [refcount |-> t.socks[s].refcount + Cardinality(takers(s)),
              family   |-> CHOOSE f \in takers(s) : TRUE,
              open     |-> IF takers(s) \cap attempt.opened # {} THEN TRUE
                           ELSE t.socks[s].open]]]

(* The attempt is one that allocate_rfd can lead to: each family the loop
   reaches without a socket gets one of those it finds then.                *)
Possible(t, rec, attempt, needs) ==
    \A f \in Family :
        LET before == {g \in Family : needs[g] # 0 /\ needs[g] < needs[f]}
            can    == AllocateRfd(WithSockets(t, attempt, before), f)
        IN  IF needs[f] = 0
            THEN attempt.got[f] = rec.rfd[f] /\ f \notin attempt.opened
            ELSE attempt.got[f] \in (IF f \in attempt.opened THEN can.opened
                                                            ELSE can.grabbed)

(* The record and the table after a loop that was sent at the places of sent:
   the record is kept if some server was sent the query, and freed if none was. *)
SentRecord(rec, ring, attempt, sent) ==
    [rec EXCEPT
        !.rfd        = attempt.got,
        !.sentto     = IF sent = {} THEN @ ELSE ring[Max(sent)],
        !.forwardall = IF @ = 0 THEN 0 ELSE @ + Cardinality(sent)]

Outcome(t, i, rec, ring, attempt, loop) ==
    LET new  == SentRecord(rec, ring, attempt, loop.sent)
        held == [WithSockets(t, attempt, {f \in Family : loop.needs[f] # 0})
                    EXCEPT !.frecs[i] = new]
    IN  [sent     |-> loop.sent # {},
         srv_save |-> new.sentto,
         table    |-> IF loop.sent = {} THEN FreeFrecs(held, {i}) ELSE held]

Transmit(t, i, rec, start, type, domain) ==
    LET ring     == Ring(start)
        Run(a)   == Loop(t, rec, ring, type, domain, a)
        possible == {a \in Attempts(rec) : Possible(t, rec, a, Run(a).needs)}
    IN  {Outcome(t, i, rec, ring, a, Run(a)) : a \in possible}

-----------------------------------------------------------------------------
(* The main loop *)

Init ==
    /\ options \in OptionSets
    /\ servers \in ServerLists
    /\ locals = {}
    /\ frecs = [i \in Frec |-> FreeFrec] /\ count = 0
    /\ socks = [s \in Slot |-> [refcount |-> 0, family |-> "unspec", open |-> FALSE]]
    /\ last_server = NoServer /\ srv_save = NoServer
    /\ toRead = 0 /\ awaiting = {}

AgedNot(t, seconds) == t   \* mutant: the clock is not read after select

(* Records get older while select waits. *)
Aged(t, seconds) ==
    [t EXCEPT !.frecs = [i \in Frec |->
        IF i \in InUse(t)
        THEN [t.frecs[i] EXCEPT !.age = Min({@ + seconds, 4 * TIMEOUT})]
        ELSE t.frecs[i]]]

(* A turn of the loop: set_dns_listeners asks for a record as a query would,
   and does not listen for queries when there will be none; then select waits. *)
Select(seconds) ==
    LET new == GetNewFrec(Table, TRUE) IN
    /\ SetTable(Aged(new.table, seconds))
    /\ toRead' = IF new.delay = 0 THEN Listeners ELSE 0
    /\ UNCHANGED <<options, servers, locals, last_server, srv_save, awaiting>>

(* Mutant: the preferred server is not forgotten. *)
ServersGoneKept(gone) ==
    /\ SetTable(FreeFrecs(Table, {i \in InUse(Table) : frecs[i].sentto \in gone}))
    /\ srv_save' = IF srv_save \in gone THEN NoServer ELSE srv_save
    /\ UNCHANGED last_server

(* server_gone for each server of gone. *)
ServersGone(gone) ==
    /\ SetTable(FreeFrecs(Table, {i \in InUse(Table) : frecs[i].sentto \in gone}))
    /\ last_server' = IF last_server \in gone THEN NoServer ELSE last_server
    /\ srv_save' = IF srv_save \in gone THEN NoServer ELSE srv_save

(* poll_resolv: check_servers only when the file named a server.  What
   check_servers drops is freed without server_gone.                        *)
PollResolv(file) ==
    /\ "no_poll" \notin options
    /\ ServersGone(Replaced(servers, file))
    /\ servers' = IF GotOne(file) THEN CheckServers(ReloadServers(servers, file), locals)
                  ELSE ReloadServers(servers, file)
    /\ UNCHANGED <<options, locals, toRead, awaiting>>

(* SIGHUP with --no-poll. *)
HangUp(file) ==
    /\ "no_poll" \in options
    /\ ServersGone(Replaced(servers, file))
    /\ servers' = CheckServers(ReloadServers(servers, file), locals)
    /\ UNCHANGED <<options, locals, toRead, awaiting>>

(* A TCP connection makes enumerate_interfaces look for new addresses. *)
NewInterface(a) ==
    /\ locals' = locals \cup {a}
    /\ UNCHANGED <<options, servers, frecs, count, socks, last_server, srv_save,
                   toRead, awaiting>>

-----------------------------------------------------------------------------
(* receive_query *)

(* forward_query for a record in use, on a retry of the client or after an
   error: send to the others, from the one after the last one sent to.      *)
NextServer(s) == Ring(s)[IF Len(servers) = 1 THEN 1 ELSE 2]

Resend(t, i) ==
    LET old == t.frecs[i]
        rec == [old EXCEPT !.forwardall = IF "order" \in options THEN @ ELSE 1]
    IN  Transmit(t, i, rec, NextServer(old.sentto), ServerAttr[old.sentto].type,
                 ServerAttr[old.sentto].domain)

ForgetLastServer == IF "order" \in options THEN last_server ELSE NoServer

(* A query is read: the packet buffer is overwritten, so srv_save goes. *)
Reads(r) ==
    /\ toRead > 0 /\ toRead' = toRead - 1
    /\ UNCHANGED <<options, servers, locals>>

(* A query that is answered at once leaves awaiting as it is. *)
Awaits(r)   == awaiting' = awaiting \cup {Sender(r)}
AnsweredNow == UNCHANGED awaiting

(* The table a handler leaves, and what it remembers for the route monitor. *)
Sent(out) ==
    /\ SetTable(out.table)
    /\ srv_save' = IF out.sent THEN out.srv_save ELSE NoServer

(* What is asked for is in the cache or configured (answer_request), or there
   are no servers at all.                                                   *)
AnswerLocally(r) ==
    /\ Reads(r) /\ AnsweredNow
    /\ srv_save' = NoServer
    /\ UNCHANGED <<frecs, count, socks, last_server>>

(* A client repeats a query that is being forwarded. *)
RetryQuery(r) ==
    /\ Reads(r)
    /\ servers # <<>>
    /\ \E i \in BySender(Table, r) :
         /\ \A j \in BySender(Table, r) : j <= i
         /\ \E out \in Resend(Table, i) :
              /\ Sent(out)
              /\ IF out.sent THEN Awaits(r) ELSE AnsweredNow
         /\ last_server' = ForgetLastServer

Search(r) ==
    IF AskedFor[r.crc] = Many THEN Unmatched
    ELSE SearchServers(servers, AskedFor[r.crc], options)

(* The record get_new_frec gave, filled in for the request, and the server
   from which the loop starts.                                              *)
StartServer(found) ==
    IF found.type # "plain" \/ "order" \in options \/ last_server = NoServer
    THEN servers[1] ELSE last_server

NewFrec(r, id, found) ==
    [sentto |-> NoServer, source |-> r.client, orig_id |-> r.id, new_id |-> id,
     crc |-> r.crc,
     forwardall |-> IF /\ found.type = "plain" /\ "order" \notin options
                       /\ last_server = NoServer THEN 1 ELSE 0,
     age |-> 0, rfd |-> NoRfd]

(* A new query: answered here when the search says so or when there is no
   record for it, forwarded otherwise.                                      *)
ForwardNew(r) ==
    LET found == Search(r)
        new   == GetNewFrec(Table, FALSE)
    IN
    /\ Reads(r)
    /\ servers # <<>> /\ BySender(Table, r) = {}
    /\ found.flags = "none" /\ new.frec # NoFrec
    /\ \E got \in GetId(new.table, r) :
       \E out \in Transmit(got.table, new.frec, NewFrec(r, got.id, found),
                           StartServer(found), found.type, found.domain) :
          /\ Sent(out)
          /\ IF out.sent THEN Awaits(r) ELSE AnsweredNow
    /\ UNCHANGED last_server

RefuseNew(r) ==
    LET found == Search(r)
        new   == GetNewFrec(Table, FALSE)
    IN
    /\ Reads(r) /\ AnsweredNow
    /\ servers # <<>> /\ BySender(Table, r) = {}
    /\ found.flags # "none" \/ new.frec = NoFrec
    /\ SetTable(IF found.flags # "none" THEN Table ELSE new.table)
    /\ srv_save' = NoServer
    /\ UNCHANGED last_server

-----------------------------------------------------------------------------
(* reply_query *)

(* A datagram can only arrive on a socket that is open: one of a server's
   own, or a random one.                                                    *)
CanArrive(family) ==
    \/ \E s \in Server : ServerAttr[s].sfd /\ ServerAttr[s].family = family
    \/ \E s \in Slot : socks[s].refcount # 0 /\ socks[s].open /\ socks[s].family = family

(* A reply arrives from the address of a known server, with a message id and
   the checksum of its question; the packet buffer is overwritten.          *)
Arrives(from) ==
    /\ CanArrive(ServerAttr[from].family)
    /\ UNCHANGED <<options, servers, locals, toRead>>

Found == {LookupFrec(Table, id, crc) : id \in MsgId, crc \in Crc}

SameAddress(from) == {s \in Server : ServerAttr[s].addr = ServerAttr[from].addr}

(* An error reply to a query that went to one server is turned back into the
   query and sent to the others, unless it is signed or cannot be parsed.   *)
TurnsBack(i, error) ==
    error /\ "order" \notin options /\ frecs[i].forwardall = 0

ReplyTurnedBack(from, i) ==
    /\ Arrives(from)
    /\ TurnsBack(i, TRUE)
    /\ \E out \in Resend(Table, i) : Sent(out)
    /\ last_server' = ForgetLastServer
    /\ UNCHANGED awaiting

(* The server a reply makes the preferred one: the first one without a domain
   at that address, else the one the query was last sent to.                *)
GoodServer(from, i) ==
    LET at == {k \in 1..Len(servers) :
                 /\ ServerAttr[servers[k]].type = "plain"
                 /\ servers[k] \in RealServer \cap SameAddress(from)}
    IN  IF at = {} THEN frecs[i].sentto ELSE servers[Min(at)]

PreferredAny(from, i, error) ==   \* mutant: domain servers are preferred too
    IF "all_servers" \in options THEN last_server
    ELSE IF error THEN NoServer ELSE GoodServer(from, i)

Preferred(from, i, error) ==
    IF ServerAttr[frecs[i].sentto].type # "plain" \/ "all_servers" \in options
    THEN last_server
    ELSE IF error THEN NoServer ELSE GoodServer(from, i)

(* Is this the reply that ends the forwarding?  A good one is; an error is
   when it comes from a single server or is the last one waited for.        *)
FinalLate(i, error) == frecs[i].forwardall \in {0, 1} \/ ~error   \* mutant
Final(i, error)     == frecs[i].forwardall \in {0, 2} \/ ~error

(* Any other reply to a record, relayed to the client when it is the final
   one; process_reply may find that it cannot be resized, and then nothing is
   sent.  sound says that it is not signed and that its question can be read. *)
Reply(from, i, error, sound) ==
    /\ Arrives(from)
    /\ ~(TurnsBack(i, error) /\ sound)
    /\ last_server' = Preferred(from, i, error)
    /\ srv_save' = NoServer
    /\ IF Final(i, error)
       THEN /\ SetTable(FreeFrecs(Table, {i}))
            /\ \E answered \in BOOLEAN :
                 /\ error \/ sound => answered
                 /\ awaiting' = IF answered THEN awaiting \ {SenderOf(frecs[i])}
                                ELSE awaiting
       ELSE /\ SetTable([Table EXCEPT !.frecs[i].forwardall = @ - 1])
            /\ UNCHANGED awaiting

(* A reply that matches nothing. *)
StrayReply(from) ==
    /\ Arrives(from)
    /\ NoFrec \in Found
    /\ srv_save' = NoServer
    /\ UNCHANGED <<frecs, count, socks, last_server, awaiting>>

-----------------------------------------------------------------------------

ReceiveQuery ==
    \E r \in Request :
        AnswerLocally(r) \/ RetryQuery(r) \/ ForwardNew(r) \/ RefuseNew(r)

ReplyQuery ==
    \E from \in RealServer \cap Range(servers) :
        \/ \E i \in Found \ {NoFrec} :
              \/ ReplyTurnedBack(from, i)
              \/ \E error, sound \in BOOLEAN : Reply(from, i, error, sound)
        \/ StrayReply(from)

Next ==
    \/ \E seconds \in 0..(4 * TIMEOUT) : Select(seconds)
    \/ \E file \in ResolvFiles : PollResolv(file) \/ HangUp(file)
    \/ \E a \in Interfaces : NewInterface(a)
    \/ ReceiveQuery
    \/ ReplyQuery

Spec == Init /\ [][Next]_vars

(* Time goes on: the loop keeps coming back to select, which does not return
   at once forever.                                                         *)
FairSpec ==
    Spec /\ WF_vars(\E seconds \in 1..(4 * TIMEOUT) : Select(seconds))

-----------------------------------------------------------------------------
(* Properties *)

TypeOK ==
    /\ options \in OptionSets
    /\ servers \in Seq(Server) /\ locals \subseteq Interfaces
    /\ frecs \in [Frec -> FrecRecord] /\ count \in 0..(FtabSize + 1)
    /\ InUse(Table) \subseteq 1..count   \* the others were never allocated
    /\ socks \in [Slot -> RandFd]
    /\ last_server \in Server \cup {NoServer}
    /\ srv_save \in Server \cup {NoServer}
    /\ toRead \in 0..Listeners /\ awaiting \subseteq Senders

(* A random socket is counted once for each record and family that uses it:
   it is neither closed under a record nor left open when all are done
   (allocate_rfd, free_frec).                                               *)
RefcountExact ==
    \A s \in Slot : /\ socks[s].refcount = Cardinality(Releases(Table, InUse(Table), s))
                   /\ socks[s].refcount <= MaxRef

(* "return unique random ids": two queries with the same question never wait
   under one id, so a reply whose question can be read has one record.      *)
UniqueIds ==
    \A i, j \in InUse(Table) :
        /\ frecs[i].new_id = frecs[j].new_id /\ frecs[i].crc = frecs[j].crc
        /\ frecs[i].crc # UnknownCrc
        => i = j

(* A client's retransmission never makes a second record. *)
UniqueSender ==
    \A i, j \in InUse(Table) : SenderOf(frecs[i]) = SenderOf(frecs[j]) => i = j

(* Whoever a record will send an answer to has asked since it was last sent
   one: no reply is relayed twice (reply_query, allocate_frec).             *)
InUseAwaited == \A i \in InUse(Table) : SenderOf(frecs[i]) \in awaiting

(* A record waits for one server, or counts at least one reply of several
   that it still waits for: it is never kept at the count that frees it.    *)
ForwardallWaits == \A i \in InUse(Table) : frecs[i].forwardall # 1

(* "A server record is going away, remove references to it": no record, nor
   the preferred or the saved server, is one that left the list.            *)
NoDangling ==
    /\ \A i \in InUse(Table) : frecs[i].sentto \in Range(servers)
    /\ {last_server, srv_save} \subseteq Range(servers) \cup {NoServer}

(* "should never forward queries on that domain to any upstream servers": no
   query waits for a local-only or a literal entry.                         *)
NeverAsksLocal == \A i \in InUse(Table) : frecs[i].sentto \in RealServer

(* The preferred server is one for all domains. *)
PreferredIsGeneral ==
    last_server # NoServer => ServerAttr[last_server].type = "plain"

(* A random socket that a record holds for a family is open and of that
   family, also after sockets were shared, freed and opened again for the
   other family.                                                            *)
SocketsHeld ==
    \A i \in InUse(Table), f \in Family :
        LET s == frecs[i].rfd[f]
        IN s # NoSlot => socks[s].refcount # 0 /\ socks[s].open /\ socks[s].family = f

(* However many queries arrive, a record passes from one of them to another
   only after TIMEOUT (get_new_frec).                                       *)
YoungRecordsKept ==
    [][\A i \in InUse(Table) \cap InUse(Table)' :
          SenderOf(frecs'[i]) # SenderOf(frecs[i]) => frecs[i].age >= TIMEOUT]_vars

(* When the table is full dnsmasq stops listening for queries, but always
   listens again, whatever the servers do (set_dns_listeners).              *)
ListensAgain == []<>(toRead > 0)

=============================================================================
