-------------------------------- MODULE Tftp --------------------------------
(***************************************************************************)
(* The TFTP server (tftp.c): requests on the listening sockets, transfers  *)
(* with a socket each, and the open files that transfers share; with the   *)
(* clients and a network that loses packets, as the code uses them.        *)
(*                                                                         *)
(* A file is a sequence of bytes, "LF" or another.  Left out: how the name *)
(* of a file is made of the prefix and the request, texts of errors, the   *)
(* interface a request came by, failures of malloc, socket and open.  Time *)
(* is not counted: a transfer may time out whenever it waits.              *)
(***************************************************************************)
EXTENDS Naturals, Sequences, FiniteSets, SequencesExt

CONSTANTS
    Peer,           \* clients
    Listener,       \* sockets for requests
    Port,           \* --tftp-port-range, numbers
    TftpMax,        \* daemon->tftp_max
    Inode, Content, \* the files of the disk; what is in each
    Disks,          \* the disk in turn: what each name means, an inode, "missing" or
                    \* "denied", and the files that were cut short
    Requests,       \* what each client may ask: name, mode, blksize (0: no option), tsize
    NoBlock,        \* OPT_TFTP_NOBLOCK
    DefaultBlock, MaxBlock, \* 512, and packet_buff_sz - 4
    MaxBackoff,     \* 5
    BlockNumbers,   \* 2^16: block numbers are of 16 bits in packets
    MaxRequests, QueueSize, \* bounds: requests of each client, packets under way
    None

ASSUME TftpAssumption ==
    /\ IsFiniteSet(Port) /\ Port \subseteq Nat
    /\ TftpMax \in Nat /\ MaxRequests \in [Peer -> Nat] /\ Disks # <<>>
    /\ {MaxBackoff, DefaultBlock, MaxBlock, BlockNumbers, QueueSize} \subseteq Nat \ {0}
    /\ NoBlock \in BOOLEAN
    /\ Content \in [Inode -> Seq(STRING)]
    /\ \A c \in Peer : \A r \in Requests[c] : r.blksize \in Nat

FileId == 1..Cardinality(Port)
Request == UNION {Requests[c] : c \in Peer}

(* struct tftp_transfer and struct tftp_file. *)
Transfer ==
    [peer : Peer, file : FileId, backoff : Nat, offset : Nat, expansion : Nat,
     carrylf : BOOLEAN, netascii : BOOLEAN, blocksize : Nat, block : Nat]
File == [name : {r.name : r \in Request}, inode : Inode, refcount : Nat, size : Nat]

ASSUME NoneAssumption == None \notin Transfer \cup File \cup Request

VARIABLES
    at,         \* the disk is as Disks[at] says
    requests,   \* requests that wait at each listener
    ready,      \* listeners select found ready, not yet looked at
    trans,      \* daemon->tftp_trans, by port
    files,      \* struct tftp_file, by number
    toServer,   \* packets under way to each port
    toClient,   \* packets under way to each client
    client      \* the clients

vars == <<at, requests, ready, trans, files, toServer, toClient, client>>

disk == Disks[at].means
intact == Inode \ Disks[at].cut
Active == {p \in Port : trans[p] # None}

-----------------------------------------------------------------------------
(* Packets. *)

(* A block of a file; of says what the file was when it was opened, for the *)
(* properties only.                                                         *)
Data(block, bytes, of, last) ==
    [op |-> "data", block |-> block % BlockNumbers, bytes |-> bytes, of |-> of, last |-> last]
Oack(size) == [op |-> "oack", size |-> size]
Ack(block) == [op |-> "ack", block |-> block]
Error == [op |-> "error"]

(* A packet sent is under way, or lost. *)
Sent(queue, packet) ==
    {queue} \cup (IF Len(queue) < QueueSize THEN {Append(queue, packet)} ELSE {})

-----------------------------------------------------------------------------
(* get_block. *)

(* LF becomes CR LF, in place: while there is room in the block it grows,   *)
(* then the last byte is pushed out.                                        *)
Expand(blocksize, carrylf, s, byte) ==
    LET i == Len(s.out)
    IN IF i >= s.size THEN s
       ELSE IF byte # "LF" \/ (i = 0 /\ carrylf) THEN [s EXCEPT !.out = Append(@, byte)]
       ELSE IF s.size = blocksize
       THEN [s EXCEPT !.out = @ \o <<"CR", "LF">>, !.expansion = @ + 1,
                      !.carrylf = @ \/ i = s.size - 1]
       ELSE [s EXCEPT !.out = @ \o <<"CR", "LF">>, !.size = @ + 1]

Netascii(t, bytes) ==
    FoldLeft(LAMBDA s, b : Expand(t.blocksize, t.carrylf, s, b),
             [out |-> <<>>, size |-> Len(bytes), expansion |-> 0, carrylf |-> FALSE], bytes)

(* The packet to send, or None when there is none left, or an error; and    *)
(* the transfer after it.                                                   *)
GetBlock(t, file) ==
    IF t.block = 0 THEN [packet |-> Oack(t.blocksize), t |-> t]
    ELSE IF t.offset > file.size THEN [packet |-> None, t |-> t]
    ELSE LET size == IF file.size - t.offset > t.blocksize THEN t.blocksize ELSE file.size - t.offset
             whole == SubSeq(Content[file.inode], 1, file.size)
             bytes == SubSeq(whole, t.offset + 1, t.offset + size)
             s == Netascii(t, bytes)
         IN IF size > 0 /\ file.inode \notin intact THEN [packet |-> Error, t |-> t]
            ELSE IF t.netascii
            THEN [packet |-> Data(t.block, SubSeq(s.out, 1, s.size), whole, s.size < t.blocksize),
                  t |-> [t EXCEPT !.expansion = s.expansion, !.carrylf = s.carrylf]]
            ELSE [packet |-> Data(t.block, bytes, whole, size < t.blocksize),
                  t |-> [t EXCEPT !.expansion = 0]]

-----------------------------------------------------------------------------
(* Open files. *)

(* check_tftp_fileperm: the file another transfer has open is shared if it  *)
(* has the name and is the same file still.                                 *)
SharedUncounted(name) ==    \* mutant: the new user is not counted
    LET same == {f \in FileId : files[f] # None /\ files[f].name = name /\ files[f].inode = disk[name]}
    IN IF same # {}
       THEN LET f == CHOOSE f \in same : TRUE IN [id |-> f, files |-> files]
       ELSE LET f == CHOOSE f \in FileId : files[f] = None
            IN [id |-> f, files |-> [files EXCEPT ![f] =
                   [name |-> name, inode |-> disk[name], refcount |-> 1,
                    size |-> IF disk[name] \in intact THEN Len(Content[disk[name]]) ELSE 0]]]

Shared(name) ==
    LET same == {f \in FileId : files[f] # None /\ files[f].name = name /\ files[f].inode = disk[name]}
    IN IF same # {}
       THEN LET f == CHOOSE f \in same : TRUE
            IN [id |-> f, files |-> [files EXCEPT ![f].refcount = @ + 1]]
       ELSE LET f == CHOOSE f \in FileId : files[f] = None
            IN [id |-> f, files |-> [files EXCEPT ![f] =
                   [name |-> name, inode |-> disk[name], refcount |-> 1,
                    size |-> IF disk[name] \in intact THEN Len(Content[disk[name]]) ELSE 0]]]

(* free_transfer, of one that has this file. *)
Released(fs, f) ==
    LET one == [fs[f] EXCEPT !.refcount = @ - 1]
    IN [fs EXCEPT ![f] = IF one.refcount = 0 THEN None ELSE one]

-----------------------------------------------------------------------------
(* Requests. *)

(* set_dns_listeners: with more than tftp_max transfers no request is       *)
(* looked at; those that select found, at all listeners, are.               *)
Select ==
    /\ ready = {} /\ Cardinality(Active) <= TftpMax
    /\ ready' = {l \in Listener : requests[l] # <<>>} /\ ready' # {}
    /\ UNCHANGED <<at, requests, trans, files, toServer, toClient, client>>

(* The transfer a request makes, with its options. *)
NewTransfer(peer, r, f) ==
    LET sized == r.blksize # 0 /\ ~NoBlock
        block == IF r.blksize > MaxBlock THEN MaxBlock ELSE r.blksize
    IN [peer |-> peer, file |-> f, backoff |-> 1, offset |-> 0, expansion |-> 0,
        carrylf |-> FALSE, netascii |-> r.mode = "netascii",
        blocksize |-> IF sized THEN block ELSE DefaultBlock,
        block |-> IF sized \/ (r.tsize /\ r.mode # "netascii") THEN 0 ELSE 1]

(* tftp_request: it is dropped when no port is free; the answer to one that *)
(* is wrong is an error.  Otherwise the first packet is sent at once.       *)
TftpRequest(l) ==
    /\ l \in ready /\ ready' = ready \ {l}
    /\ requests' = [requests EXCEPT ![l] = Tail(@)]
    /\ LET peer == Head(requests[l]).peer
           r == Head(requests[l]).r
           free == Port \ Active
           port == CHOOSE p \in free : \A q \in free : p <= q
           answer(packet) ==
             \E queue \in Sent(toClient[peer], [port |-> port, packet |-> packet]) :
               toClient' = [toClient EXCEPT ![peer] = queue]
       IN IF free = {} THEN UNCHANGED <<trans, files, toClient>>
          ELSE IF r.mode \notin {"octet", "netascii"} \/ disk[r.name] \notin Inode
          THEN answer(Error) /\ UNCHANGED <<trans, files>>
          ELSE LET shared == Shared(r.name)
                   b == GetBlock(NewTransfer(peer, r, shared.id), shared.files[shared.id])
               IN /\ answer(b.packet)
                  /\ IF b.packet = Error THEN UNCHANGED <<trans, files>>
                     ELSE trans' = [trans EXCEPT ![port] = b.t] /\ files' = shared.files
    /\ UNCHANGED <<at, toServer, client>>

-----------------------------------------------------------------------------
(* Transfers. *)

(* The block was acknowledged. *)
AckedAlways(t) ==   \* mutant: options count as a block of the file
    [t EXCEPT !.block = @ + 1, !.backoff = 0, !.offset = @ + t.blocksize - t.expansion]
Acked(t) ==
    [t EXCEPT !.block = @ + 1, !.backoff = 0,
              !.offset = IF t.block = 0 THEN @ ELSE @ + t.blocksize - t.expansion]

RetriedAlike(t) == t    \* mutant: tries are not counted
Retried(t) == [t EXCEPT !.backoff = @ + 1]

(* check_tftp_listeners, when a transfer is due: the block is sent, again   *)
(* or for the first time, or the transfer ends.                             *)
Transmit(port, t) ==
    LET b == GetBlock(t, files[t.file])
        tired == b.packet # Error /\ Retried(t).backoff > MaxBackoff
    IN /\ IF b.packet = None \/ tired THEN UNCHANGED toClient
          ELSE \E queue \in Sent(toClient[t.peer], [port |-> port, packet |-> b.packet]) :
                 toClient' = [toClient EXCEPT ![t.peer] = queue]
       /\ IF b.packet \in {None, Error} \/ tired
          THEN trans' = [trans EXCEPT ![port] = None] /\ files' = Released(files, t.file)
          ELSE /\ trans' = [trans EXCEPT ![port] = Retried(b.t)]
               /\ UNCHANGED files

(* A packet came, from whatever host: the ACK of the current block, an      *)
(* error, or something else, which changes nothing.                         *)
Receive(port) ==
    /\ ready = {} /\ trans[port] # None /\ toServer[port] # <<>>
    /\ toServer' = [toServer EXCEPT ![port] = Tail(@)]
    /\ LET t == trans[port]
           m == Head(toServer[port])
       IN IF m.op = "ack" /\ m.block = t.block % BlockNumbers THEN Transmit(port, Acked(t))
          ELSE IF m.op = "error" THEN Transmit(port, [t EXCEPT !.backoff = MaxBackoff])
          ELSE UNCHANGED <<trans, files, toClient>>
    /\ UNCHANGED <<at, requests, ready, client>>

Timeout(port) ==
    /\ ready = {} /\ trans[port] # None
    /\ Transmit(port, trans[port])
    /\ UNCHANGED <<at, requests, ready, toServer, client>>

-----------------------------------------------------------------------------
(* The clients, the network and the disk. *)

(* A client asks, and asks again while nothing has come.                    *)
Ask(peer, l, r) ==
    /\ client[peer].asked < MaxRequests[peer] /\ client[peer].port = None
    /\ client[peer].r \in {None, r}
    /\ client' = [client EXCEPT ![peer].asked = @ + 1, ![peer].r = r]
    /\ requests' = [requests EXCEPT ![l] = Append(@, [peer |-> peer, r |-> r])]
    /\ UNCHANGED <<at, ready, trans, files, toServer, toClient>>

Say(port, m) ==
    \E queue \in Sent(toServer[port], m) : toServer' = [toServer EXCEPT ![port] = queue]

(* It stays with the port the first answer came from, takes each block in   *)
(* turn, and acknowledges again what it has.                                *)
Hear(peer) ==
    /\ toClient[peer] # <<>>
    /\ toClient' = [toClient EXCEPT ![peer] = Tail(@)]
    /\ LET c == client[peer]
           port == Head(toClient[peer]).port
           m == Head(toClient[peer]).packet
           next(d) == [c EXCEPT !.port = port, !.block = @ + 1, !.got = @ \o d.bytes,
                                !.of = @ \cup {d.of}, !.done = d.last]
       IN CASE c.port \notin {None, port} -> Say(port, Error) /\ UNCHANGED client
            [] c.port \in {None, port} /\ m.op = "error" ->
                 client' = [client EXCEPT ![peer].port = port] /\ UNCHANGED toServer
            [] c.port \in {None, port} /\ m.op = "oack" ->
                 /\ client' = [client EXCEPT ![peer].port = port]
                 /\ IF c.block = 1 THEN Say(port, Ack(0)) ELSE UNCHANGED toServer
            [] c.port \in {None, port} /\ m.op = "data" ->
                 IF m.block = c.block % BlockNumbers /\ ~c.done
                 THEN Say(port, Ack(m.block)) /\ client' = [client EXCEPT ![peer] = next(m)]
                 ELSE /\ client' = [client EXCEPT ![peer].port = port]
                      /\ IF m.block = (c.block + BlockNumbers - 1) % BlockNumbers
                         THEN Say(port, Ack(m.block)) ELSE UNCHANGED toServer
    /\ UNCHANGED <<at, requests, ready, trans, files>>

(* A packet to a port no transfer has. *)
Lost(port) ==
    /\ trans[port] = None /\ toServer[port] # <<>>
    /\ toServer' = [toServer EXCEPT ![port] = Tail(@)]
    /\ UNCHANGED <<at, requests, ready, trans, files, toClient, client>>

(* Names are given to other files, and files cut short, while some are sent. *)
Disk ==
    /\ Active # {} /\ at < Len(Disks) /\ at' = at + 1
    /\ UNCHANGED <<requests, ready, trans, files, toServer, toClient, client>>

-----------------------------------------------------------------------------

Init ==
    /\ at = 1
    /\ requests = [l \in Listener |-> <<>>] /\ ready = {}
    /\ trans = [p \in Port |-> None] /\ files = [f \in FileId |-> None]
    /\ toServer = [p \in Port |-> <<>>] /\ toClient = [p \in Peer |-> <<>>]
    /\ client = [p \in Peer |-> [asked |-> 0, r |-> None, port |-> None, block |-> 1, got |-> <<>>,
                                 of |-> {}, done |-> FALSE]]

Server == \E l \in Listener : TftpRequest(l)

Next ==
    \/ Select \/ Server \/ Disk
    \/ \E p \in Port : Receive(p) \/ Timeout(p) \/ Lost(p)
    \/ \E c \in Peer : Hear(c) \/ \E l \in Listener, r \in Requests[c] : Ask(c, l, r)

Spec == Init /\ [][Next]_vars

(* The loop wakes every quarter of a second while there is a transfer, and  *)
(* looks at all of them.                                                    *)
FairSpec == Spec /\ \A p \in Port : WF_vars(Server \/ Timeout(p))

-----------------------------------------------------------------------------
(* Properties. *)

Translated(bytes) ==
    FoldLeft(LAMBDA s, b : s \o (IF b = "LF" THEN <<"CR", "LF">> ELSE <<b>>), <<>>, bytes)

(* A file is open once for all transfers of it, and as long as one of them  *)
(* is left.                                                                 *)
FilesCounted ==
    /\ \A f \in FileId :
         LET users == {p \in Active : trans[p].file = f}
         IN IF files[f] = None THEN users = {} ELSE files[f].refcount = Cardinality(users) /\ users # {}
    /\ \A f, g \in FileId :
         f # g /\ files[f] # None /\ files[g] # None
           => files[f].name # files[g].name \/ files[f].inode # files[g].inode

(* What a client has got in octet mode is the file from its start, without  *)
(* gap or repetition, and the whole of it when the last block has come,     *)
(* whatever was lost, sent again, or acknowledged by another; unless a       *)
(* second transfer, with another file of the name, took the port of a first. *)
Delivered ==
    \A p \in Peer :
        LET c == client[p]
        IN c.r # None /\ c.r.mode = "octet"
             => \A file \in c.of : c.of = {file} =>
                  IsPrefix(c.got, file) /\ (c.done => c.got = file)

(* A transfer ends whatever its client does, and frees its socket and file. *)
TransferEnds == \A p \in Port : (trans[p] # None) ~> (trans[p] = None)

(* "Map '\n' to CR-LF in netascii mode" (tftp.c), and "don't expand LF      *)
(* again if it moves to the next block".                                    *)
NetasciiDelivered ==
    \A p \in Peer :
        LET c == client[p]
        IN c.r # None /\ c.r.mode = "netascii"
             => \A file \in c.of : c.of = {file} =>
                  /\ IsPrefix(c.got, Translated(file))
                  /\ c.done => c.got = Translated(file)

=============================================================================
