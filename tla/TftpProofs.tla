----------------------------- MODULE TftpProofs -----------------------------
(***************************************************************************)
(* The TFTP server for any number of ports, clients and files and every    *)
(* block size.  First its files: a file is open once for all the transfers *)
(* of it, exactly as long as there is one, and one can always be opened    *)
(* for a transfer that gets a port.  Then what the clients get: the file   *)
(* from its start, block by block, from packets of which each may be lost, *)
(* late, or of another transfer.                                           *)
(***************************************************************************)
EXTENDS Tftp, InductionLemmas

(* A transfer takes no step back in its file: a block is never expanded by  *)
(* more bytes than it has.                                                  *)
Sound == {t \in Transfer : t.expansion <= t.blocksize}

(* An open file is no longer than what is in it. *)
Whole == {f \in File : f.size <= Len(Content[f.inode])}

(* The ports of the transfers of a file. *)
Users(tr, f) == {p \in Port : tr[p] # None /\ tr[p].file = f}

Counted(tr, fs) ==
    \A f \in FileId :
        IF fs[f] = None THEN Users(tr, f) = {}
        ELSE fs[f].refcount = Cardinality(Users(tr, f)) /\ Users(tr, f) # {}

(* No two open files are one. *)
Apart(fs) ==
    \A f, g \in FileId :
        f # g /\ fs[f] # None /\ fs[g] # None
            => fs[f].name # fs[g].name \/ fs[f].inode # fs[g].inode

Waiting == [peer : Peer, r : Request]

IInv ==
    /\ requests \in [Listener -> Seq(Waiting)]
    /\ ready \subseteq Listener /\ \A l \in ready : requests[l] # <<>>
    /\ trans \in [Port -> Sound \cup {None}]
    /\ files \in [FileId -> Whole \cup {None}]
    /\ Counted(trans, files) /\ Apart(files)

LEMMA NotNone == None \notin Sound /\ None \notin Whole
BY NoneAssumption DEF Sound, Whole

-----------------------------------------------------------------------------
(* get_block *)

(* STRING, which the provers do not know to contain any string. *)
Byte == STRING \cup {"CR", "LF"}

Buffer == [out : Seq(Byte), size : Nat, expansion : Nat, carrylf : BOOLEAN]

LEMMA CrLf == <<"CR", "LF">> \in Seq(Byte)
BY DEF Byte

LEMMA ExpandOK ==
    ASSUME NEW size \in Nat, NEW carry \in BOOLEAN, NEW s \in Buffer, NEW byte \in Byte
    PROVE  /\ Expand(size, carry, s, byte) \in Buffer
           /\ Expand(size, carry, s, byte).expansion <= s.expansion + 1
<1> DEFINE i     == Len(s.out)
           more  == Append(s.out, byte)
           crlf  == s.out \o <<"CR", "LF">>
           moves == s.carrylf \/ i = s.size - 1
           n     == Expand(size, carry, s, byte)
<1>1. /\ more \in Seq(Byte) /\ moves \in BOOLEAN
      /\ s.expansion \in Nat /\ s.size \in Nat /\ s.out \in Seq(Byte)
  BY DEF Buffer
<1>2. crlf \in Seq(Byte)
  <2>1. <<"CR", "LF">> \in Seq(Byte)
    BY CrLf
  <2> HIDE DEF more, moves, n
  <2> QED BY <1>1, <2>1
<1>3. \/ n = s
      \/ n = [s EXCEPT !.out = more]
      \/ n = [s EXCEPT !.out = crlf, !.expansion = s.expansion + 1, !.carrylf = moves]
      \/ n = [s EXCEPT !.out = crlf, !.size = s.size + 1]
  BY DEF Expand
<1> HIDE DEF more, crlf, moves, n
<1>4. n \in Buffer /\ n.expansion <= s.expansion + 1
  <2>1. CASE n = s \/ n = [s EXCEPT !.out = more]
    BY <1>1, <2>1 DEF Buffer
  <2>2. CASE n = [s EXCEPT !.out = crlf, !.expansion = s.expansion + 1, !.carrylf = moves]
    <3> DEFINE k == s.expansion + 1
    <3>1. /\ k \in Nat /\ k <= s.expansion + 1
          /\ n = [s EXCEPT !.out = crlf, !.expansion = k, !.carrylf = moves]
      BY <1>1, <2>2
    <3> HIDE DEF k
    <3>2. n \in Buffer
      BY <1>1, <1>2, <3>1 DEF Buffer
    <3>3. n.expansion = k
      BY <3>1 DEF Buffer
    <3> QED BY <3>1, <3>2, <3>3
  <2>3. CASE n = [s EXCEPT !.out = crlf, !.size = s.size + 1]
    <3> DEFINE k == s.size + 1
    <3>1. k \in Nat /\ n = [s EXCEPT !.out = crlf, !.size = k]
      BY <1>1, <2>3
    <3> HIDE DEF k
    <3>2. n \in Buffer /\ n.expansion = s.expansion
      BY <1>2, <3>1 DEF Buffer
    <3> QED BY <1>1, <3>2
  <2> QED BY <1>3, <2>1, <2>2, <2>3
<1> QED
  BY <1>4 DEF n

(* A block in netascii mode is expanded by at most one byte for each of its own. *)
LEMMA NetasciiOK ==
    ASSUME NEW t \in Transfer, NEW bytes \in Seq(Byte)
    PROVE  /\ Netascii(t, bytes) \in Buffer
           /\ Netascii(t, bytes).expansion <= Len(bytes)
<1> DEFINE n     == Len(bytes)
           empty == [out |-> <<>>, size |-> Len(bytes), expansion |-> 0, carrylf |-> FALSE]
           next(s, k) == Expand(t.blocksize, t.carrylf, s, bytes[k])
           it == CHOOSE iter : iter = [S \in SUBSET DOMAIN bytes |->
                    IF S = {} THEN empty ELSE next(iter[S \ {Max(S)}], Max(S))]
           step == [x \in (1..n) \X Buffer |-> next(x[2], x[1])]
<1>1. n \in Nat /\ DOMAIN bytes = 1..n /\ \A k \in 1..n : bytes[k] \in Byte
  OBVIOUS
<1>2. t.blocksize \in Nat /\ t.carrylf \in BOOLEAN
  BY DEF Transfer
<1>3. empty \in Buffer
  <2>1. <<>> \in Seq(Byte)
    OBVIOUS
  <2> QED BY <1>1, <2>1 DEF Buffer
<1>4. \A k \in 1..n : \A s \in Buffer :
          next(s, k) \in Buffer /\ next(s, k).expansion <= s.expansion + 1
  BY <1>1, <1>2, ExpandOK
<1>5. Netascii(t, bytes) = it[DOMAIN bytes]
  BY DEF Netascii, FoldLeft, MapThenFoldSet
<1> HIDE DEF next
<1>6. step \in [(1..n) \X Buffer -> Buffer]
  BY <1>4
<1>7. it = [S \in SUBSET (1..n) |-> IF S = {} THEN empty ELSE next(it[S \ {Max(S)}], Max(S))]
  <2>1. PICK some \in [SUBSET (1..n) -> Buffer] : Iterates(some, n, empty, step)
    <3> HIDE DEF n, step, empty
    <3> QED BY <1>1, <1>3, <1>6, IterateExists
  <2>2. ASSUME NEW S \in SUBSET (1..n)
        PROVE  some[S] = IF S = {} THEN empty ELSE next(some[S \ {Max(S)}], Max(S))
    <3>1. some[S] = IF S = {} THEN empty ELSE step[<<Max(S), some[S \ {Max(S)}]>>]
      BY <2>1 DEF Iterates
    <3>2. S # {} => Max(S) \in 1..n /\ some[S \ {Max(S)}] \in Buffer
      BY <1>1, MaxPlace
    <3> QED
      BY <3>1, <3>2
  <2>3. some = [S \in SUBSET DOMAIN bytes |->
                  IF S = {} THEN empty ELSE next(some[S \ {Max(S)}], Max(S))]
    <3>1. some = [S \in SUBSET (1..n) |-> some[S]]
      OBVIOUS
    <3> HIDE DEF empty
    <3> QED
      BY <1>1, <2>2, <3>1
  <2> HIDE DEF empty
  <2> QED
    BY <1>1, <2>3
<1> HIDE DEF it, step, empty
<1>8. it[1..0] = empty
  BY <1>1, <1>7
<1>9. ASSUME NEW k \in 1..n PROVE it[1..k] = next(it[1..(k - 1)], k)
  <2> DEFINE S == 1..k
  <2>1. S \in SUBSET (1..n) /\ S # {} /\ Max(S) = k /\ S \ {Max(S)} = 1..(k - 1)
    <3> HIDE DEF n
    <3> QED BY <1>1, Segment
  <2> HIDE DEF S, n
  <2>2. it[S] = next(it[S \ {Max(S)}], Max(S))
    BY <1>7, <2>1
  <2> QED BY <2>1, <2>2 DEF S
<1>10. \A k \in 0..n : it[1..k] \in Buffer /\ it[1..k].expansion <= k
  <2> DEFINE P == {k \in 0..n : it[1..k] \in Buffer /\ it[1..k].expansion <= k}
  <2>1. 0 \in P
    BY <1>1, <1>3, <1>8 DEF empty
  <2>2. ASSUME NEW k \in 1..n, k - 1 \in P PROVE k \in P
    <3>1. it[1..(k - 1)] \in Buffer /\ it[1..(k - 1)].expansion <= k - 1
      BY <2>2
    <3>2. it[1..k] \in Buffer /\ it[1..k].expansion <= it[1..(k - 1)].expansion + 1
      BY <1>4, <1>9, <3>1
    <3>3. it[1..k].expansion \in Nat /\ it[1..(k - 1)].expansion \in Nat /\ k \in 0..n
      BY <1>1, <3>1, <3>2 DEF Buffer
    <3> QED BY <3>1, <3>2, <3>3
  <2>3. \A k \in 0..n : k \in P
    <3> HIDE DEF P, n
    <3> QED BY <1>1, <2>1, <2>2, UpTo
  <2> QED
    BY <2>3
<1> QED
  BY <1>1, <1>5, <1>10

LEMMA SubSeqOK ==
    ASSUME NEW B, NEW seq \in Seq(B), NEW m \in Nat \ {0}, NEW n \in Nat, m <= n + 1, n <= Len(seq)
    PROVE  SubSeq(seq, m, n) \in Seq(B) /\ Len(SubSeq(seq, m, n)) = n - m + 1
OBVIOUS

(* get_block leaves the transfer with its file, its place and its size. *)
LEMMA GetBlockOK ==
    ASSUME NEW t \in Sound, NEW file \in Whole
    PROVE  LET n == GetBlock(t, file).t IN n \in Sound /\ n.file = t.file
<1> DEFINE size  == IF file.size - t.offset > t.blocksize THEN t.blocksize
                    ELSE file.size - t.offset
           whole == SubSeq(Content[file.inode], 1, file.size)
           bytes == SubSeq(whole, t.offset + 1, t.offset + size)
           s     == Netascii(t, bytes)
           n     == GetBlock(t, file).t
<1>1. /\ t \in Transfer /\ t.expansion \in Nat /\ t.expansion <= t.blocksize
      /\ t.offset \in Nat /\ t.blocksize \in Nat
  BY DEF Sound, Transfer
<1>2. /\ file.size \in Nat /\ file.size <= Len(Content[file.inode])
      /\ Content[file.inode] \in Seq(STRING)
  BY TftpAssumption DEF Whole, File
<1>3. CASE t.block = 0 \/ t.offset > file.size
  BY <1>3 DEF GetBlock
<1>4. CASE t.block # 0 /\ ~ (t.offset > file.size)
  <2>1. size \in Nat /\ size <= t.blocksize /\ t.offset + size <= file.size
    BY <1>1, <1>2, <1>4
  <2>2. whole \in Seq(STRING) /\ Len(whole) = file.size
    <3>1. 1 \in Nat \ {0} /\ 1 <= file.size + 1
      BY <1>2
    <3>2. Len(whole) = file.size - 1 + 1 /\ whole \in Seq(STRING)
      BY <1>2, <3>1, SubSeqOK
    <3> QED BY <1>2, <3>2
  <2> HIDE DEF whole, size
  <2>3. bytes \in Seq(STRING) /\ Len(bytes) = size
    <3>1. /\ t.offset + 1 \in Nat \ {0} /\ t.offset + size \in Nat
          /\ t.offset + 1 <= (t.offset + size) + 1 /\ t.offset + size <= Len(whole)
      BY <1>1, <2>1, <2>2
    <3>2. bytes \in Seq(STRING) /\ Len(bytes) = (t.offset + size) - (t.offset + 1) + 1
      BY <2>2, <3>1, SubSeqOK
    <3> QED BY <1>1, <2>1, <3>2
  <2>4. bytes \in Seq(Byte)
    <3> HIDE DEF bytes
    <3> QED BY <2>3 DEF Byte
  <2>5. s \in Buffer /\ s.expansion <= size
    BY <1>1, <2>3, <2>4, NetasciiOK
  <2>6. \/ n = t
        \/ n = [t EXCEPT !.expansion = s.expansion, !.carrylf = s.carrylf]
        \/ n = [t EXCEPT !.expansion = 0]
    BY <1>4 DEF GetBlock, size, whole
  <2> HIDE DEF bytes, s, n
  <2>7. ASSUME NEW e \in Nat, e <= t.blocksize, NEW c \in BOOLEAN,
               n = [t EXCEPT !.expansion = e, !.carrylf = c] \/ n = [t EXCEPT !.expansion = e]
        PROVE  n \in Sound /\ n.file = t.file
    BY <1>1, <2>7 DEF Sound, Transfer
  <2>8. CASE n = t
    BY <2>8 DEF n
  <2>9. CASE n = [t EXCEPT !.expansion = s.expansion, !.carrylf = s.carrylf]
    <3>1. s.expansion \in Nat /\ s.expansion <= t.blocksize /\ s.carrylf \in BOOLEAN
      BY <1>1, <2>1, <2>5 DEF Buffer
    <3> QED BY <2>7, <2>9, <3>1 DEF n
  <2>10. CASE n = [t EXCEPT !.expansion = 0]
    <3>1. 0 \in Nat /\ 0 <= t.blocksize /\ TRUE \in BOOLEAN
      BY <1>1
    <3> QED BY <2>7, <2>10, <3>1 DEF n
  <2> QED
    BY <2>6, <2>8, <2>9, <2>10
<1> QED
  BY <1>3, <1>4

-----------------------------------------------------------------------------
(* The users of files *)

LEMMA PortsFinite ==
    /\ Cardinality(Port) \in Nat
    /\ \A S \in SUBSET Port : IsFiniteSet(S) /\ Cardinality(S) \in Nat
BY TftpAssumption, FS_Subset, FS_CardinalityType

(* While a port is free, not all files are open. *)
LEMMA RoomForFile ==
    ASSUME NEW tr, NEW fs, Counted(tr, fs), NEW p \in Port, tr[p] = None
    PROVE  \E f \in FileId : fs[f] = None
<1> DEFINE busy == {q \in Port : tr[q] # None}
           user == [f \in FileId |-> CHOOSE q \in busy : tr[q].file = f]
<1> SUFFICES ASSUME \A f \in FileId : fs[f] # None PROVE FALSE
  OBVIOUS
<1>1. /\ IsFiniteSet(busy) /\ IsFiniteSet(Port) /\ Cardinality(busy) < Cardinality(Port)
  <2>1. busy \in SUBSET Port /\ busy # Port
    OBVIOUS
  <2> HIDE DEF busy
  <2>2. Cardinality(busy) <= Cardinality(Port) /\ Cardinality(busy) # Cardinality(Port)
        /\ IsFiniteSet(busy)
    BY <2>1, TftpAssumption, FS_Subset
  <2> QED BY <2>1, <2>2, PortsFinite, TftpAssumption
<1>2. IsFiniteSet(FileId) /\ Cardinality(FileId) = Cardinality(Port)
  <2>1. 1 \in Int /\ Cardinality(Port) \in Int
    BY PortsFinite
  <2> QED BY <2>1, PortsFinite, FS_Interval DEF FileId
<1>3. ASSUME NEW f \in FileId PROVE user[f] \in busy /\ tr[user[f]].file = f
  <2>1. \E q \in busy : tr[q].file = f
    BY DEF Counted, Users
  <2> HIDE DEF busy
  <2> QED BY <2>1
<1>4. user \in [FileId -> busy]
  <2> HIDE DEF busy
  <2>1. \A f \in FileId : user[f] = (CHOOSE q \in busy : tr[q].file = f)
    OBVIOUS
  <2> QED BY <1>3, <2>1
<1> HIDE DEF user, busy
<1>5. PICK f \in FileId, g \in FileId : f # g /\ user[f] = user[g]
  BY <1>1, <1>2, <1>4, FS_PigeonHole
<1> QED
  BY <1>3, <1>5

(* A transfer goes on. *)
LEMMA GoesOn ==
    ASSUME NEW tr \in [Port -> Sound \cup {None}], NEW fs, Counted(tr, fs),
           NEW p \in Port, tr[p] # None, NEW t \in Sound, t.file = tr[p].file
    PROVE  Counted([tr EXCEPT ![p] = t], fs)
<1>1. t # None
  BY NotNone
<1>2. \A f : Users([tr EXCEPT ![p] = t], f) = Users(tr, f)
  BY <1>1 DEF Users
<1> QED
  BY <1>2 DEF Counted

LEMMA ReleasedIs ==
    ASSUME NEW fs \in [FileId -> Whole \cup {None}], NEW f \in FileId
    PROVE  LET less == Released(fs, f)
               one  == [fs[f] EXCEPT !.refcount = fs[f].refcount - 1]
           IN  /\ less[f] = IF one.refcount = 0 THEN None ELSE one
               /\ \A g \in FileId \ {f} : less[g] = fs[g]
               /\ DOMAIN less = FileId /\ less = [g \in FileId |-> less[g]]
BY DEF Released

(* A transfer ends, and with the last one the file is closed. *)
LEMMA Ends ==
    ASSUME NEW tr \in [Port -> Sound \cup {None}], NEW fs \in [FileId -> Whole \cup {None}],
           Counted(tr, fs), Apart(fs), NEW p \in Port, tr[p] # None
    PROVE  LET less == Released(fs, tr[p].file)
           IN  /\ less \in [FileId -> Whole \cup {None}] /\ Apart(less)
               /\ Counted([tr EXCEPT ![p] = None], less)
<1> DEFINE g    == tr[p].file
           less == Released(fs, g)
           new  == [tr EXCEPT ![p] = None]
           one  == [fs[g] EXCEPT !.refcount = fs[g].refcount - 1]
<1>1. g \in FileId /\ p \in Users(tr, g)
  BY DEF Sound, Transfer, Users
<1>2. /\ fs[g] # None /\ fs[g] \in Whole /\ fs[g].refcount = Cardinality(Users(tr, g))
      /\ fs[g].refcount \in Nat
  BY <1>1 DEF Counted, Whole, File
<1>3. /\ IsFiniteSet(Users(tr, g)) /\ Cardinality(Users(tr, g)) \in Nat
      /\ Users(new, g) = Users(tr, g) \ {p}
      /\ \A f \in FileId \ {g} : Users(new, f) = Users(tr, f)
  <2>1. Users(tr, g) \in SUBSET Port
    BY DEF Users
  <2>2. IsFiniteSet(Users(tr, g)) /\ Cardinality(Users(tr, g)) \in Nat
    BY <2>1, PortsFinite
  <2>3. Users(new, g) = Users(tr, g) \ {p}
    BY DEF Users
  <2>4. \A f \in FileId \ {g} : Users(new, f) = Users(tr, f)
    BY DEF Users
  <2> QED BY <2>2, <2>3, <2>4
<1>4. /\ less[g] = IF one.refcount = 0 THEN None ELSE one
      /\ \A f \in FileId \ {g} : less[f] = fs[f]
      /\ DOMAIN less = FileId /\ less = [f \in FileId |-> less[f]]
  <2> HIDE DEF g
  <2> QED BY <1>1, ReleasedIs
<1> HIDE DEF new, less, g
<1>5. /\ Cardinality(Users(new, g)) = Cardinality(Users(tr, g)) - 1
      /\ IsFiniteSet(Users(new, g))
  <2>1. /\ Cardinality(Users(tr, g) \ {p}) = Cardinality(Users(tr, g)) - 1
        /\ IsFiniteSet(Users(tr, g) \ {p})
    BY <1>1, <1>3, FS_RemoveElement
  <2> QED BY <1>3, <2>1
<1>6. Users(new, g) = {} <=> fs[g].refcount = 1
  <2>1. Cardinality(Users(new, g)) = 0 <=> Users(new, g) = {}
    BY <1>5, FS_EmptySet
  <2> QED BY <1>2, <1>3, <1>5, <2>1
<1>7. fs[g].refcount # 1 => one \in Whole /\ one # None
  <2>1. fs[g].refcount > 0
    <3>1. Users(tr, g) # {}
      BY <1>1
    <3>2. Cardinality(Users(tr, g)) # 0
      BY <1>3, <3>1, FS_EmptySet
    <3> QED BY <1>2, <3>2
  <2> DEFINE k == fs[g].refcount - 1
  <2>2. k \in Nat
    BY <1>2, <2>1
  <2> HIDE DEF k
  <2>3. [fs[g] EXCEPT !.refcount = k] \in Whole
    BY <1>2, <2>2 DEF Whole, File
  <2> QED BY <2>3, NotNone DEF k
<1>8. one.refcount = fs[g].refcount - 1 /\ one.name = fs[g].name /\ one.inode = fs[g].inode
  BY <1>2 DEF Whole, File
<1> HIDE DEF one
<1>9. less \in [FileId -> Whole \cup {None}]
  <2>1. \A f \in FileId : less[f] \in Whole \cup {None}
    BY <1>2, <1>4, <1>7, <1>8
  <2> QED BY <1>4, <2>1
<1>10. Apart(less)
  <2>1. \A f \in FileId : less[f] # None =>
            fs[f] # None /\ less[f].name = fs[f].name /\ less[f].inode = fs[f].inode
    BY <1>2, <1>8, <1>4
  <2> QED BY <2>1 DEF Apart
<1>11. Counted(new, less)
  <2> SUFFICES ASSUME NEW f \in FileId
               PROVE  IF less[f] = None THEN Users(new, f) = {}
                      ELSE less[f].refcount = Cardinality(Users(new, f)) /\ Users(new, f) # {}
    BY DEF Counted
  <2>1. CASE f = g
    BY <1>2, <1>5, <1>6, <1>7, <1>8, <1>4, <2>1
  <2>2. CASE f # g
    BY <1>3, <1>4, <2>2 DEF Counted
  <2> QED BY <2>1, <2>2
<1> QED
  BY <1>9, <1>10, <1>11 DEF less, new, g

(* A transfer that starts counts on its file, which is opened for it or shared. *)
LEMMA Starts ==
    ASSUME IInv, NEW p \in Port, trans[p] = None, NEW name \in {r.name : r \in Request},
           disk[name] \in Inode
    PROVE  LET s == Shared(name)
           IN  /\ s.id \in FileId /\ s.files[s.id] \in Whole
               /\ s.files \in [FileId -> Whole \cup {None}] /\ Apart(s.files)
               /\ \A t \in Sound : t.file = s.id => Counted([trans EXCEPT ![p] = t], s.files)
<1> DEFINE same == {f \in FileId : files[f] # None /\ files[f].name = name
                                                   /\ files[f].inode = disk[name]}
           id   == IF same # {} THEN CHOOSE f \in same : TRUE
                   ELSE CHOOSE f \in FileId : files[f] = None
           more == [files[id] EXCEPT !.refcount = files[id].refcount + 1]
           first == [name |-> name, inode |-> disk[name], refcount |-> 1,
                     size |-> IF disk[name] \in intact THEN Len(Content[disk[name]]) ELSE 0]
           entry == IF same # {} THEN more ELSE first
           s     == Shared(name)
<1>1. files \in [FileId -> Whole \cup {None}] /\ Counted(trans, files) /\ Apart(files)
      /\ trans \in [Port -> Sound \cup {None}]
  BY DEF IInv
<1>2. /\ id \in FileId
      /\ same # {} => /\ files[id] # None /\ files[id].name = name
                      /\ files[id].inode = disk[name]
      /\ same = {} => files[id] = None
  <2>1. \E f \in FileId : files[f] = None
    BY <1>1, RoomForFile
  <2>2. CASE same # {}
    <3>1. id \in same
      BY <2>2
    <3> QED BY <2>2, <3>1
  <2>3. CASE same = {}
    BY <2>1, <2>3
  <2> QED BY <2>2, <2>3
<1>3. s.id = id /\ s.files = [files EXCEPT ![id] = entry]
  <2>1. CASE same # {}
    <3>1. s = [id |-> id, files |-> [files EXCEPT ![id].refcount = files[id].refcount + 1]]
      BY <2>1 DEF Shared
    <3>2. [files EXCEPT ![id].refcount = files[id].refcount + 1] = [files EXCEPT ![id] = more]
      OBVIOUS
    <3> HIDE DEF s, id, more
    <3> QED BY <2>1, <3>1, <3>2
  <2>2. CASE same = {}
    <3> DEFINE new == CHOOSE f \in FileId : files[f] = None
    <3>0. s = [id |-> new, files |-> [files EXCEPT ![new] = first]]
      BY <2>2, Zenon DEF Shared
    <3>1. s = [id |-> id, files |-> [files EXCEPT ![id] = first]]
      BY <2>2, <3>0, Zenon
    <3> HIDE DEF s, id, first
    <3> QED BY <2>2, <3>1
  <2> QED BY <2>1, <2>2
<1> HIDE DEF s, id
<1>4. /\ entry \in Whole /\ entry.name = name /\ entry.inode = disk[name]
      /\ entry.refcount = IF same # {} THEN files[id].refcount + 1 ELSE 1
  <2>1. CASE same # {}
    <3>1. files[id] \in Whole /\ files[id].refcount + 1 \in Nat
      BY <1>1, <1>2, <2>1 DEF Whole, File
    <3> DEFINE k == files[id].refcount + 1
    <3> HIDE DEF k
    <3>2. /\ [files[id] EXCEPT !.refcount = k] \in Whole
          /\ [files[id] EXCEPT !.refcount = k].refcount = k
          /\ [files[id] EXCEPT !.refcount = k].name = files[id].name
          /\ [files[id] EXCEPT !.refcount = k].inode = files[id].inode
      BY <3>1 DEF Whole, File, k
    <3> QED BY <1>2, <2>1, <3>2 DEF k
  <2>2. CASE same = {}
    <3> DEFINE size == IF disk[name] \in intact THEN Len(Content[disk[name]]) ELSE 0
    <3>1. size \in Nat /\ size <= Len(Content[disk[name]])
      BY TftpAssumption
    <3> HIDE DEF size
    <3>2. [name |-> name, inode |-> disk[name], refcount |-> 1, size |-> size] \in Whole
      BY <3>1 DEF Whole, File
    <3> QED BY <2>2, <3>2 DEF size
  <2> QED BY <2>1, <2>2
<1> HIDE DEF entry
<1>5. /\ s.files \in [FileId -> Whole \cup {None}] /\ s.files[id] = entry /\ entry # None
      /\ \A f \in FileId \ {id} : s.files[f] = files[f]
  BY <1>1, <1>2, <1>3, <1>4, NotNone
<1>6. Apart(s.files)
  <2>1. ASSUME NEW f \in FileId, f # id, files[f] # None
        PROVE  files[f].name # name \/ files[f].inode # disk[name]
    <3>1. CASE same = {}
      BY <2>1, <3>1
    <3>2. CASE same # {}
      BY <1>1, <1>2, <2>1, <3>2 DEF Apart
    <3> QED BY <3>1, <3>2
  <2> HIDE DEF same
  <2> SUFFICES ASSUME NEW f \in FileId, NEW g \in FileId, f # g,
                      s.files[f] # None, s.files[g] # None
               PROVE  s.files[f].name # s.files[g].name \/ s.files[f].inode # s.files[g].inode
    BY DEF Apart
  <2>2. CASE f # id /\ g # id
    BY <1>1, <1>5, <2>2 DEF Apart
  <2>3. CASE f = id
    BY <1>4, <1>5, <2>1, <2>3
  <2>4. CASE g = id
    BY <1>4, <1>5, <2>1, <2>4
  <2> QED BY <2>2, <2>3, <2>4
<1>7. ASSUME NEW t \in Sound, t.file = id
      PROVE  Counted([trans EXCEPT ![p] = t], s.files)
  <2> DEFINE new == [trans EXCEPT ![p] = t]
  <2>1. t # None
    BY NotNone
  <2>2. Users(new, id) = Users(trans, id) \cup {p} /\ p \notin Users(trans, id)
    BY <1>1, <1>7, <2>1 DEF Users
  <2>3. \A f \in FileId \ {id} : Users(new, f) = Users(trans, f)
    BY <1>1, <1>7, <2>1 DEF Users
  <2> HIDE DEF new
  <2>4. IsFiniteSet(Users(trans, id)) /\ Cardinality(Users(trans, id)) \in Nat
    <3>1. Users(trans, id) \in SUBSET Port
      BY DEF Users
    <3> QED BY <3>1, PortsFinite
  <2>5. Cardinality(Users(new, id)) = Cardinality(Users(trans, id)) + 1
    <3>1. Cardinality(Users(trans, id) \cup {p}) = Cardinality(Users(trans, id)) + 1
      BY <2>2, <2>4, FS_AddElement
    <3> QED BY <2>2, <3>1
  <2>6. entry.refcount = Cardinality(Users(new, id))
    <3>1. CASE same # {}
      <4>1. files[id].refcount = Cardinality(Users(trans, id))
        BY <1>1, <1>2, <3>1 DEF Counted
      <4> QED BY <1>4, <2>5, <3>1, <4>1
    <3>2. CASE same = {}
      <4>1. Users(trans, id) = {}
        BY <1>1, <1>2, <3>2 DEF Counted
      <4>2. Cardinality(Users(trans, id)) = 0
        BY <4>1, FS_EmptySet
      <4> QED BY <1>4, <2>5, <3>2, <4>2
    <3> QED BY <3>1, <3>2
  <2> HIDE DEF same
  <2> SUFFICES ASSUME NEW f \in FileId
               PROVE  IF s.files[f] = None THEN Users(new, f) = {}
                      ELSE s.files[f].refcount = Cardinality(Users(new, f)) /\ Users(new, f) # {}
    BY DEF Counted, new
  <2>7. CASE f = id
    BY <1>5, <2>2, <2>6, <2>7
  <2>8. CASE f # id
    BY <1>1, <1>5, <2>3, <2>8 DEF Counted
  <2> QED BY <2>7, <2>8
<1> QED
  BY <1>2, <1>3, <1>4, <1>5, <1>6, <1>7 DEF s

-----------------------------------------------------------------------------
(* The steps *)

LEMMA TransmitInv ==
    ASSUME IInv, NEW p \in Port, trans[p] # None, NEW t \in Sound, t.file = trans[p].file,
           Transmit(p, t), UNCHANGED <<requests, ready>>
    PROVE  IInv'
<1> DEFINE b    == GetBlock(t, files[t.file])
           next == Retried(b.t)
<1>1. /\ trans \in [Port -> Sound \cup {None}] /\ files \in [FileId -> Whole \cup {None}]
      /\ Counted(trans, files) /\ Apart(files)
  BY DEF IInv
<1>2. t.file \in FileId /\ files[t.file] \in Whole
  <2>1. t.file \in FileId
    BY DEF Sound, Transfer
  <2>2. p \in Users(trans, t.file)
    BY DEF Users
  <2> QED BY <1>1, <2>1, <2>2 DEF Counted
<1>3. next \in Sound /\ next.file = t.file
  <2>1. b.t \in Sound /\ b.t.file = t.file
    BY <1>2, GetBlockOK
  <2> HIDE DEF b
  <2> DEFINE old == b.t
             k   == old.backoff + 1
  <2>2. old \in Sound /\ old.file = t.file
    BY <2>1
  <2>3. k \in Nat /\ next = [old EXCEPT !.backoff = k]
    BY <2>1 DEF Sound, Transfer, Retried
  <2> HIDE DEF next, k, old
  <2> QED BY <2>2, <2>3 DEF Sound, Transfer
<1>4. \/ trans' = [trans EXCEPT ![p] = None] /\ files' = Released(files, t.file)
      \/ trans' = [trans EXCEPT ![p] = next] /\ files' = files
  BY DEF Transmit
<1> HIDE DEF next
<1>5. /\ trans' \in [Port -> Sound \cup {None}] /\ files' \in [FileId -> Whole \cup {None}]
      /\ Counted(trans', files') /\ Apart(files')
  <2>1. CASE trans' = [trans EXCEPT ![p] = None] /\ files' = Released(files, t.file)
    BY <1>1, <2>1, Ends
  <2>2. CASE trans' = [trans EXCEPT ![p] = next] /\ files' = files
    BY <1>1, <1>3, <2>2, GoesOn
  <2> QED BY <1>4, <2>1, <2>2
<1> QED
  BY <1>5 DEF IInv

LEMMA TransferInv ==
    ASSUME IInv, NEW p \in Port, Receive(p) \/ Timeout(p)
    PROVE  IInv'
<1> DEFINE t == trans[p]
<1>1. t # None /\ t \in Sound /\ UNCHANGED <<requests, ready>>
  BY DEF IInv, Receive, Timeout
<1> HIDE DEF t
<1>2. Acked(t) \in Sound /\ Acked(t).file = t.file
  <2> DEFINE offset == IF t.block = 0 THEN t.offset ELSE t.offset + t.blocksize - t.expansion
             block  == t.block + 1
  <2>1. offset \in Nat /\ block \in Nat
    BY <1>1 DEF Sound, Transfer
  <2>2. Acked(t) = [t EXCEPT !.block = block, !.backoff = 0, !.offset = offset]
    BY DEF Acked
  <2> HIDE DEF offset, block
  <2> DEFINE n == [t EXCEPT !.block = block, !.backoff = 0, !.offset = offset]
  <2>3. t \in Transfer /\ t.expansion <= t.blocksize
    BY <1>1 DEF Sound
  <2>4. n.expansion = t.expansion /\ n.blocksize = t.blocksize /\ n.file = t.file
    BY <2>3 DEF Transfer
  <2>5. n \in Transfer
    BY <2>1, <2>3 DEF Transfer
  <2> HIDE DEF n
  <2>6. n \in Sound /\ n.file = t.file
    BY <2>3, <2>4, <2>5 DEF Sound
  <2> QED BY <2>2, <2>6 DEF n
<1>3. [t EXCEPT !.backoff = MaxBackoff] \in Sound
      /\ [t EXCEPT !.backoff = MaxBackoff].file = t.file
  BY <1>1, TftpAssumption DEF Sound, Transfer
<1>4. \/ UNCHANGED <<trans, files>>
      \/ Transmit(p, Acked(t)) \/ Transmit(p, [t EXCEPT !.backoff = MaxBackoff]) \/ Transmit(p, t)
  BY DEF Receive, Timeout, t
<1>5. CASE UNCHANGED <<trans, files>>
  BY <1>1, <1>5 DEF IInv
<1>6. ASSUME NEW n \in Sound, n.file = t.file, Transmit(p, n) PROVE IInv'
  BY <1>1, <1>6, TransmitInv DEF t
<1> QED
  BY <1>1, <1>2, <1>3, <1>4, <1>5, <1>6

LEMMA NewTransferOK ==
    ASSUME NEW peer \in Peer, NEW r \in Request, NEW f \in FileId
    PROVE  NewTransfer(peer, r, f) \in Sound /\ NewTransfer(peer, r, f).file = f
<1> DEFINE sized     == r.blksize # 0 /\ ~NoBlock
           blocksize == IF sized THEN (IF r.blksize > MaxBlock THEN MaxBlock ELSE r.blksize)
                        ELSE DefaultBlock
           block     == IF sized \/ (r.tsize /\ r.mode # "netascii") THEN 0 ELSE 1
           netascii  == r.mode = "netascii"
<1>1. blocksize \in Nat /\ block \in Nat /\ netascii \in BOOLEAN
  <2>1. r.blksize \in Nat
    BY TftpAssumption DEF Request
  <2> QED BY <2>1, TftpAssumption
<1>2. NewTransfer(peer, r, f) =
        [peer |-> peer, file |-> f, backoff |-> 1, offset |-> 0, expansion |-> 0,
         carrylf |-> FALSE, netascii |-> netascii, blocksize |-> blocksize, block |-> block]
  BY DEF NewTransfer
<1> HIDE DEF blocksize, block, netascii
<1> QED
  BY <1>1, <1>2 DEF Sound, Transfer

LEMMA RequestInv ==
    ASSUME IInv, NEW l \in Listener, TftpRequest(l)
    PROVE  IInv'
<1> DEFINE first == Head(requests[l])
           free  == Port \ Active
           port  == CHOOSE p \in free : \A q \in free : p <= q
           s     == Shared(first.r.name)
           new   == NewTransfer(first.peer, first.r, s.id)
           b     == GetBlock(new, s.files[s.id])
<1>1. /\ trans \in [Port -> Sound \cup {None}] /\ files \in [FileId -> Whole \cup {None}]
      /\ Counted(trans, files) /\ Apart(files)
      /\ requests \in [Listener -> Seq(Waiting)]
      /\ ready \subseteq Listener /\ \A k \in ready : requests[k] # <<>>
  BY DEF IInv
<1>2. l \in ready /\ ready' = ready \ {l} /\ requests' = [requests EXCEPT ![l] = Tail(requests[l])]
  BY DEF TftpRequest
<1>3. requests[l] \in Seq(Waiting) /\ requests[l] # <<>>
  BY <1>1, <1>2
<1>4. first \in Waiting /\ Tail(requests[l]) \in Seq(Waiting)
  BY <1>3
<1>5. first.peer \in Peer /\ first.r \in Request
  BY <1>4 DEF Waiting
<1>6. /\ requests' \in [Listener -> Seq(Waiting)]
      /\ ready' \subseteq Listener /\ \A k \in ready' : requests'[k] # <<>>
  BY <1>1, <1>2, <1>4
<1> HIDE DEF first
<1>7. \/ UNCHANGED <<trans, files>>
      \/ /\ free # {} /\ disk[first.r.name] \in Inode
         /\ trans' = [trans EXCEPT ![port] = b.t] /\ files' = s.files
  BY DEF TftpRequest, first
<1>8. ASSUME free # {}, disk[first.r.name] \in Inode,
             trans' = [trans EXCEPT ![port] = b.t], files' = s.files
      PROVE  /\ trans' \in [Port -> Sound \cup {None}] /\ files' \in [FileId -> Whole \cup {None}]
             /\ Counted(trans', files') /\ Apart(files')
  <2>1. port \in Port /\ trans[port] = None
    <3>1. free \in SUBSET Nat
      BY TftpAssumption
    <3>2. Min(free) \in free /\ \A x \in free : Min(free) <= x
      <4> HIDE DEF free
      <4> QED BY <1>8, <3>1, MinInSet
    <3>3. port \in free
      <4> HIDE DEF free
      <4> QED BY <3>2
    <3> QED BY <3>3 DEF Active
  <2>2. first.r.name \in {r.name : r \in Request}
    BY <1>5
  <2>3. /\ s.id \in FileId /\ s.files[s.id] \in Whole
        /\ s.files \in [FileId -> Whole \cup {None}] /\ Apart(s.files)
        /\ \A t \in Sound : t.file = s.id => Counted([trans EXCEPT ![port] = t], s.files)
    <3> HIDE DEF port
    <3> QED BY <1>8, <2>1, <2>2, Starts
  <2> HIDE DEF s, port
  <2>4. new \in Sound /\ new.file = s.id
    BY <1>5, <2>3, NewTransferOK
  <2> HIDE DEF new
  <2>5. b.t \in Sound /\ b.t.file = s.id
    BY <2>3, <2>4, GetBlockOK
  <2> HIDE DEF b
  <2> QED BY <1>1, <1>8, <2>1, <2>3, <2>5
<1> HIDE DEF free, port, s, new, b
<1>9. /\ trans' \in [Port -> Sound \cup {None}] /\ files' \in [FileId -> Whole \cup {None}]
      /\ Counted(trans', files') /\ Apart(files')
  <2>1. CASE UNCHANGED <<trans, files>>
    BY <1>1, <2>1
  <2> QED BY <1>7, <1>8, <2>1
<1> QED
  BY <1>6, <1>9 DEF IInv

LEMMA AskInv ==
    ASSUME IInv, NEW c \in Peer, NEW l \in Listener, NEW r \in Requests[c], Ask(c, l, r)
    PROVE  IInv'
<1> DEFINE asks == [peer |-> c, r |-> r]
<1>1. asks \in Waiting
  BY DEF Waiting, Request
<1>2. /\ requests \in [Listener -> Seq(Waiting)] /\ requests[l] \in Seq(Waiting)
      /\ requests' = [requests EXCEPT ![l] = Append(requests[l], asks)]
      /\ UNCHANGED <<ready, trans, files>>
  BY DEF IInv, Ask
<1> HIDE DEF asks
<1>3. Append(requests[l], asks) \in Seq(Waiting) /\ Append(requests[l], asks) # <<>>
  BY <1>1, <1>2
<1> QED
  BY <1>2, <1>3 DEF IInv

-----------------------------------------------------------------------------
(* The theorems about files *)

LEMMA InitInv == Init => IInv
<1> SUFFICES ASSUME Init PROVE IInv
  OBVIOUS
<1>1. /\ \A l \in Listener : requests[l] = <<>>
      /\ requests \in [Listener -> Seq(Waiting)] /\ ready = {}
  BY DEF Init
<1>2. /\ trans \in [Port -> Sound \cup {None}] /\ files \in [FileId -> Whole \cup {None}]
      /\ \A p \in Port : trans[p] = None
      /\ \A f \in FileId : files[f] = None
  BY DEF Init
<1> QED
  BY <1>1, <1>2 DEF IInv, Counted, Apart, Users

LEMMA StepInv == IInv /\ [Next]_vars => IInv'
<1> SUFFICES ASSUME IInv, [Next]_vars PROVE IInv'
  OBVIOUS
<1>1. CASE Select
  BY <1>1 DEF Select, IInv
<1>2. CASE Server
  BY <1>2, RequestInv DEF Server
<1>3. ASSUME NEW p \in Port, Receive(p) \/ Timeout(p) PROVE IInv'
  BY <1>3, TransferInv
<1>4. CASE Disk \/ (\E p \in Port : Lost(p)) \/ (\E c \in Peer : Hear(c)) \/ UNCHANGED vars
  <2>1. UNCHANGED <<requests, ready, trans, files>>
    BY <1>4 DEF Disk, Lost, Hear, vars
  <2> QED BY <2>1 DEF IInv
<1>5. ASSUME NEW c \in Peer, NEW l \in Listener, NEW r \in Requests[c], Ask(c, l, r)
      PROVE  IInv'
  BY <1>5, AskInv
<1> QED
  BY <1>1, <1>2, <1>3, <1>4, <1>5 DEF Next

THEOREM TftpInv == Spec => []IInv
BY InitInv, StepInv, PTL DEF Spec

(* However requests, acknowledgements, errors and time-outs come, and        *)
(* whatever becomes of the names on the disk, free_transfer closes a file    *)
(* with its last transfer, and check_tftp_fileperm finds the one that is open.*)
THEOREM TftpFilesCounted == Spec => []FilesCounted
<1>1. IInv => FilesCounted
  <2> SUFFICES ASSUME IInv PROVE FilesCounted
    OBVIOUS
  <2>1. \A f : {p \in Active : trans[p].file = f} = Users(trans, f)
    BY DEF Active, Users
  <2>2. Counted(trans, files) /\ Apart(files)
    BY DEF IInv
  <2> QED BY <2>1, <2>2 DEF FilesCounted, Counted, Apart
<1> QED
  BY <1>1, TftpInv, PTL

-----------------------------------------------------------------------------
(* What a client is sent, and what it has of it *)

(* The size of the blocks for a request. *)
BlockSize(r) ==
    IF r.blksize # 0 /\ ~NoBlock THEN (IF r.blksize > MaxBlock THEN MaxBlock ELSE r.blksize)
    ELSE DefaultBlock

(* No file has as many blocks as there are block numbers. *)
Short ==
    \A r \in Request : r.mode = "octet" =>
        \A i \in Inode : Len(Content[i]) < BlockNumbers * BlockSize(r)

(* A transfer is that of the request, and its place that of its block. *)
Follows(t, r) ==
    /\ t.netascii = (r.mode = "netascii") /\ t.blocksize = BlockSize(r)
    /\ r.mode = "octet" =>
         /\ t.expansion = 0
         /\ t.offset = IF t.block = 0 THEN 0 ELSE (t.block - 1) * BlockSize(r)

(* The first n bytes of a file end here. *)
End(file, n) == IF n < Len(file) THEN n ELSE Len(file)

(* Block n of a file, which begins where o blocks have ended. *)
IsBlock(m, n, o, size) ==
    /\ m.block = n % BlockNumbers /\ o <= Len(m.of)
    /\ m.bytes = SubSeq(m.of, o + 1, End(m.of, o + size))
    /\ m.last = (Len(m.of) < o + size)

Piece(m, size) ==
    /\ m.of \in Seq(STRING) /\ Len(m.of) < BlockNumbers * size
    /\ \E n \in 1..BlockNumbers : IsBlock(m, n, (n - 1) * size, size)

(* A packet for a client that asked r. *)
Fits(m, r) ==
    /\ m.op \in {"data", "oack", "error"}
    /\ m.op = "data" => r \in Request /\ (r.mode = "octet" => Piece(m, BlockSize(r)))

(* The client has got the first n bytes of the file. *)
Got(c, file, n) == c.got = SubSeq(file, 1, End(file, n)) /\ c.done = (Len(file) < n)

(* Unless its blocks are of two files, the client has those before c.block. *)
Takes(c, r) ==
    r.mode = "octet" =>
        /\ c.of \subseteq Seq(STRING)
        /\ \A file \in Seq(STRING) :
             c.of \subseteq {file} => Got(c, file, (c.block - 1) * BlockSize(r))

Fresh(c) == c.block = 1 /\ c.got = <<>> /\ c.of = {} /\ c.done = FALSE

Reads(c) ==
    /\ DOMAIN c = {"asked", "r", "port", "block", "got", "of", "done"}
    /\ c.r \in Request \cup {None} /\ c.block \in Nat \ {0}
    /\ IF c.r = None THEN Fresh(c) ELSE Takes(c, c.r)

(* The packets there are, whatever is in a block of a netascii transfer. *)
Bytes == Seq(STRING) \cup {SubSeq(s.out, 1, s.size) : s \in Buffer}
Packet == {Error} \cup {Oack(n) : n \in Nat}
          \cup {Data(n, b, w, e) : n \in Nat, b \in Bytes, w \in Seq(STRING), e \in BOOLEAN}
Parcel == [port : Port, packet : Packet]

(* The parts of the invariant: requests, transfers, packets and clients. *)
AsAsked == \A l \in Listener : \A i \in 1..Len(requests[l]) :
              client[requests[l][i].peer].r = requests[l][i].r
AsSent == \A p \in Port : trans[p] # None =>
              LET r == client[trans[p].peer].r IN r \in Request /\ Follows(trans[p], r)
UnderWay ==
    /\ toClient \in [Peer -> Seq(Parcel)]
    /\ \A c \in Peer : \A i \in 1..Len(toClient[c]) : Fits(toClient[c][i].packet, client[c].r)
AsRead == DOMAIN client = Peer /\ \A c \in Peer : Reads(client[c])

SentInv == AsAsked /\ AsSent /\ UnderWay /\ AsRead

LEMMA Sizes ==
    ASSUME NEW r \in Request
    PROVE  BlockSize(r) \in Nat \ {0} /\ r # None
<1>1. r.blksize \in Nat
  BY TftpAssumption DEF Request
<1> QED BY <1>1, TftpAssumption, NoneAssumption DEF BlockSize

LEMMA Products ==
    ASSUME NEW n \in Nat, NEW size \in Nat
    PROVE  n * size \in Nat /\ (n + 1) * size = n * size + size
OBVIOUS

(* What begins before the end of a short file has a number of its own. *)
LEMMA FewBlocks ==
    ASSUME NEW n \in Nat, NEW size \in Nat, NEW most \in Nat,
           n * size < most * size
    PROVE  n + 1 <= most
<1> SUFFICES ASSUME most <= n PROVE FALSE
  OBVIOUS
<1> DEFINE d == n - most
<1>1. d \in Nat /\ n = most + d
  OBVIOUS
<1> HIDE DEF d
<1>2. n * size = most * size + d * size /\ d * size \in Nat /\ most * size \in Nat
  BY <1>1
<1> QED BY <1>2

LEMMA OneNumber ==
    ASSUME NEW m \in Nat \ {0}, NEW n \in 1..m, NEW k \in 1..m, n % m = k % m
    PROVE  n = k
<1>1. \A x \in 1..m : x % m = IF x = m THEN 0 ELSE x
  OBVIOUS
<1> QED BY <1>1

LEMMA TwoParts ==
    ASSUME NEW file \in Seq(STRING), NEW o \in Nat, NEW e \in Nat, o <= e, e <= Len(file)
    PROVE  SubSeq(file, 1, o) \o SubSeq(file, o + 1, e) = SubSeq(file, 1, e)
OBVIOUS

(* The block that get_block makes is that of the file. *)
LEMMA BlockFits ==
    ASSUME Short, NEW t \in Sound, NEW f \in Whole, NEW r \in Request, Follows(t, r),
           r.mode = "octet", t.block # 0, t.offset <= f.size
    PROVE  LET size  == IF f.size - t.offset > t.blocksize THEN t.blocksize
                        ELSE f.size - t.offset
               whole == SubSeq(Content[f.inode], 1, f.size)
               bytes == SubSeq(whole, t.offset + 1, t.offset + size)
           IN  Piece(Data(t.block, bytes, whole, size < t.blocksize), BlockSize(r))
<1> DEFINE size  == IF f.size - t.offset > t.blocksize THEN t.blocksize ELSE f.size - t.offset
           whole == SubSeq(Content[f.inode], 1, f.size)
           bytes == SubSeq(whole, t.offset + 1, t.offset + size)
           m     == Data(t.block, bytes, whole, size < t.blocksize)
           each  == BlockSize(r)
           n     == t.block
<1>1. /\ n \in Nat \ {0} /\ t.offset \in Nat /\ t.blocksize = each /\ each \in Nat \ {0}
      /\ t.offset = (n - 1) * each
  BY Sizes DEF Sound, Transfer, Follows
<1>2. /\ f.size \in Nat /\ f.size <= Len(Content[f.inode]) /\ f.inode \in Inode
      /\ Content[f.inode] \in Seq(STRING)
  BY TftpAssumption DEF Whole, File
<1>3. whole \in Seq(STRING) /\ Len(whole) = f.size
  <2>1. 1 \in Nat \ {0} /\ 1 <= f.size + 1
    BY <1>2
  <2>2. Len(whole) = f.size - 1 + 1 /\ whole \in Seq(STRING)
    BY <1>2, <2>1, SubSeqOK
  <2> QED BY <1>2, <2>2
<1>4. Len(Content[f.inode]) < BlockNumbers * each
  BY <1>2 DEF Short
<1> HIDE DEF whole, each
<1>5. BlockNumbers \in Nat \ {0} /\ BlockNumbers * each \in Nat
  BY <1>1, TftpAssumption
<1>6. f.size < BlockNumbers * each
  BY <1>2, <1>4, <1>5
<1>7. n \in 1..BlockNumbers
  <2> DEFINE k == n - 1
  <2>1. k \in Nat /\ k * each \in Nat /\ k * each = t.offset /\ n = k + 1
    BY <1>1
  <2> HIDE DEF k, n
  <2>2. k * each < BlockNumbers * each
    BY <1>2, <1>5, <1>6, <2>1
  <2>3. k + 1 <= BlockNumbers
    BY <1>1, <1>5, <2>1, <2>2, FewBlocks
  <2> QED BY <1>5, <2>1, <2>3
<1>8. /\ m.of = whole /\ m.block = n % BlockNumbers
      /\ m.bytes = bytes /\ m.last = (size < t.blocksize)
  BY DEF Data
<1>9. /\ t.offset + size = End(whole, t.offset + each)
      /\ (size < t.blocksize) = (Len(whole) < t.offset + each)
  BY <1>1, <1>2, <1>3 DEF End
<1> HIDE DEF m, bytes, size, n
<1>10. IsBlock(m, n, t.offset, each)
  BY <1>3, <1>8, <1>9 DEF IsBlock, bytes
<1>11. IsBlock(m, n, (n - 1) * each, each)
  BY <1>1, <1>10
<1>12. Piece(m, each)
  BY <1>3, <1>6, <1>7, <1>8, <1>11 DEF Piece
<1> QED BY <1>12 DEF m, n, bytes, size, whole, each

(* What get_block sends is of the request, and the transfer is as before. *)
LEMMA PacketFits ==
    ASSUME Short, NEW t \in Sound, NEW f \in Whole, NEW r \in Request, Follows(t, r)
    PROVE  LET b == GetBlock(t, f)
           IN  /\ \/ b.packet \in Packet /\ Fits(b.packet, r)
                  \/ b.packet = None /\ t.offset > f.size
               /\ Follows(b.t, r) /\ b.t.peer = t.peer
<1> DEFINE b     == GetBlock(t, f)
           size  == IF f.size - t.offset > t.blocksize THEN t.blocksize ELSE f.size - t.offset
           whole == SubSeq(Content[f.inode], 1, f.size)
           bytes == SubSeq(whole, t.offset + 1, t.offset + size)
           s     == Netascii(t, bytes)
<1>1. t \in Transfer /\ t.offset \in Nat /\ f.size \in Nat
  BY DEF Sound, Transfer, Whole, File
<1>2. CASE t.block = 0
  <2>1. b = [packet |-> Oack(t.blocksize), t |-> t] /\ t.blocksize \in Nat
    BY <1>1, <1>2 DEF GetBlock, Transfer
  <2>2. Oack(t.blocksize) \in Packet
    BY <2>1 DEF Packet
  <2> QED BY <2>1, <2>2 DEF Fits, Oack
<1>3. CASE t.block # 0 /\ t.offset > f.size
  BY <1>1, <1>3 DEF GetBlock
<1>4. CASE t.block # 0 /\ ~(t.offset > f.size)
  <2>0. /\ bytes \in Seq(STRING) /\ whole \in Seq(STRING) /\ s \in Buffer
        /\ (size < t.blocksize) \in BOOLEAN /\ (s.size < t.blocksize) \in BOOLEAN
        /\ t.block \in Nat
    <3>1. /\ f.size \in Nat /\ f.size <= Len(Content[f.inode]) /\ t.blocksize \in Nat
          /\ Content[f.inode] \in Seq(STRING)
      BY TftpAssumption DEF Sound, Transfer, Whole, File
    <3>2. size \in Nat /\ t.offset + size <= f.size
      BY <1>1, <1>4, <3>1
    <3>3. whole \in Seq(STRING) /\ Len(whole) = f.size
      <4>1. 1 \in Nat \ {0} /\ 1 <= f.size + 1
        BY <3>1
      <4>2. Len(whole) = f.size - 1 + 1 /\ whole \in Seq(STRING)
        BY <3>1, <4>1, SubSeqOK
      <4> QED BY <3>1, <4>2
    <3> HIDE DEF whole, size
    <3>4. bytes \in Seq(STRING)
      <4>1. /\ t.offset + 1 \in Nat \ {0} /\ t.offset + size \in Nat
            /\ t.offset + 1 <= (t.offset + size) + 1 /\ t.offset + size <= Len(whole)
        BY <1>1, <3>2, <3>3
      <4> QED BY <3>3, <4>1, SubSeqOK
    <3>5. bytes \in Seq(Byte)
      <4> HIDE DEF bytes
      <4> QED BY <3>4 DEF Byte
    <3> HIDE DEF bytes
    <3>6. s \in Buffer
      BY <1>1, <3>5, NetasciiOK
    <3> QED BY <1>1, <3>3, <3>4, <3>6 DEF Transfer
  <2>1. \/ b = [packet |-> Error, t |-> t]
        \/ /\ t.netascii
           /\ b = [packet |-> Data(t.block, SubSeq(s.out, 1, s.size), whole, s.size < t.blocksize),
                   t |-> [t EXCEPT !.expansion = s.expansion, !.carrylf = s.carrylf]]
        \/ /\ ~t.netascii
           /\ b = [packet |-> Data(t.block, bytes, whole, size < t.blocksize),
                   t |-> [t EXCEPT !.expansion = 0]]
    BY <1>4 DEF GetBlock
  <2>2. CASE b = [packet |-> Error, t |-> t]
    BY <1>1, <2>2 DEF Fits, Error, Packet
  <2>3. CASE /\ t.netascii
             /\ b = [packet |-> Data(t.block, SubSeq(s.out, 1, s.size), whole,
                                     s.size < t.blocksize),
                     t |-> [t EXCEPT !.expansion = s.expansion, !.carrylf = s.carrylf]]
    <3>1. r.mode = "netascii" /\ b.packet.op = "data"
      <4>1. r.mode = "netascii"
        BY <2>3 DEF Follows
      <4> HIDE DEF whole, s
      <4>2. b.packet.op = "data"
        BY <2>3 DEF Data
      <4> QED BY <4>1, <4>2
    <3> DEFINE e == s.expansion  c == s.carrylf
    <3> HIDE DEF e, c
    <3>2. b.t = [t EXCEPT !.expansion = e, !.carrylf = c]
      BY <2>3 DEF e, c
    <3>3. Follows(b.t, r) /\ b.t.peer = t.peer
      <4> HIDE DEF b
      <4> QED BY <1>1, <3>1, <3>2 DEF Follows, Transfer
    <3>4. b.packet \in Packet
      <4> DEFINE bs == SubSeq(s.out, 1, s.size)  last == s.size < t.blocksize
      <4>1. b.packet = Data(t.block, bs, whole, last)
        BY <2>3
      <4>2. bs \in Bytes /\ last \in BOOLEAN
        BY <2>0 DEF Bytes
      <4> HIDE DEF bs, last, whole, b
      <4> QED BY <2>0, <4>1, <4>2 DEF Packet
    <3> QED BY <3>1, <3>3, <3>4 DEF Fits
  <2>4. CASE /\ ~t.netascii
             /\ b = [packet |-> Data(t.block, bytes, whole, size < t.blocksize),
                     t |-> [t EXCEPT !.expansion = 0]]
    <3>1. b.packet = Data(t.block, bytes, whole, size < t.blocksize)
          /\ b.packet.op = "data" /\ b.t = [t EXCEPT !.expansion = 0]
      BY <2>4 DEF Data
    <3>2. r.mode = "octet" => Piece(b.packet, BlockSize(r))
      <4> SUFFICES ASSUME r.mode = "octet" PROVE Piece(b.packet, BlockSize(r))
        OBVIOUS
      <4>1. t.offset <= f.size
        BY <1>1, <1>4
      <4>2. Piece(Data(t.block, bytes, whole, size < t.blocksize), BlockSize(r))
        BY <1>4, <4>1, BlockFits
      <4> QED BY <3>1, <4>2
    <3>3. Follows(b.t, r) /\ b.t.peer = t.peer
      <4> HIDE DEF b
      <4> QED BY <1>1, <3>1 DEF Follows, Transfer
    <3>4. b.packet \in Packet
      <4> DEFINE last == size < t.blocksize
      <4>1. b.packet = Data(t.block, bytes, whole, last)
        BY <2>4
      <4>2. bytes \in Bytes /\ last \in BOOLEAN
        BY <2>0 DEF Bytes
      <4> HIDE DEF bytes, last, whole, b
      <4> QED BY <2>0, <4>1, <4>2 DEF Packet
    <3> QED BY <3>1, <3>2, <3>3, <3>4 DEF Fits
  <2> QED BY <2>1, <2>2, <2>3, <2>4
<1> QED
  BY <1>2, <1>3, <1>4

(* A packet more, or less, under way to a client. *)
LEMMA OneMore ==
    ASSUME UnderWay, NEW p \in Peer, NEW x \in Parcel, Fits(x.packet, client[p].r),
           NEW queue \in Sent(toClient[p], x), toClient' = [toClient EXCEPT ![p] = queue],
           client' = client
    PROVE  UnderWay'
<1>1. toClient \in [Peer -> Seq(Parcel)] /\ toClient[p] \in Seq(Parcel)
  BY DEF UnderWay
<1>2. queue = toClient[p] \/ queue = Append(toClient[p], x)
  BY DEF Sent
<1>3. \A i \in 1..Len(toClient[p]) : Fits(toClient[p][i].packet, client[p].r)
  BY DEF UnderWay
<1>4. /\ queue \in Seq(Parcel)
      /\ \A i \in 1..Len(queue) : queue[i] = x \/ \E j \in 1..Len(toClient[p]) :
                                                   queue[i] = toClient[p][j]
  <2>1. CASE queue = toClient[p]
    BY <1>1, <2>1
  <2>2. CASE queue = Append(toClient[p], x)
    <3>1. /\ queue \in Seq(Parcel) /\ Len(queue) = Len(toClient[p]) + 1
          /\ Len(toClient[p]) \in Nat /\ queue[Len(toClient[p]) + 1] = x
          /\ \A i \in 1..Len(toClient[p]) : queue[i] = toClient[p][i]
      BY <1>1, <2>2
    <3>2. \A i \in 1..Len(queue) : i \in 1..Len(toClient[p]) \/ i = Len(toClient[p]) + 1
      BY <3>1
    <3> QED BY <3>1, <3>2
  <2> QED BY <1>2, <2>1, <2>2
<1>5. \A i \in 1..Len(queue) : Fits(queue[i].packet, client[p].r)
  BY <1>3, <1>4
<1>6. toClient' \in [Peer -> Seq(Parcel)]
  BY <1>1, <1>4
<1>7. ASSUME NEW c \in Peer, NEW i \in 1..Len(toClient'[c])
      PROVE  Fits(toClient'[c][i].packet, client'[c].r)
  <2>1. CASE c = p
    <3>1. toClient'[c] = queue
      BY <1>1, <2>1
    <3> QED BY <1>5, <1>7, <2>1, <3>1
  <2>2. CASE c # p
    <3>1. toClient'[c] = toClient[c]
      BY <1>1, <2>2
    <3> QED BY <1>7, <3>1 DEF UnderWay
  <2> QED BY <2>1, <2>2
<1>8. \A c \in Peer : \A i \in 1..Len(toClient'[c]) :
          Fits(toClient'[c][i].packet, client'[c].r)
  BY <1>7
<1> QED
  BY <1>6, <1>8 DEF UnderWay

LEMMA OneLess ==
    ASSUME UnderWay, NEW p \in Peer, toClient[p] # <<>>,
           toClient' = [toClient EXCEPT ![p] = Tail(toClient[p])],
           \A c \in Peer : client'[c].r = client[c].r
    PROVE  UnderWay'
<1>1. toClient \in [Peer -> Seq(Parcel)] /\ toClient[p] \in Seq(Parcel)
  BY DEF UnderWay
<1>2. /\ Tail(toClient[p]) \in Seq(Parcel)
      /\ \A i \in 1..Len(Tail(toClient[p])) :
            i + 1 \in 1..Len(toClient[p]) /\ Tail(toClient[p])[i] = toClient[p][i + 1]
  BY <1>1
<1>3. \A i \in 1..Len(Tail(toClient[p])) : Fits(Tail(toClient[p])[i].packet, client[p].r)
  BY <1>2 DEF UnderWay
<1>4. toClient' \in [Peer -> Seq(Parcel)]
  BY <1>1, <1>2
<1>5. ASSUME NEW c \in Peer, NEW i \in 1..Len(toClient'[c])
      PROVE  Fits(toClient'[c][i].packet, client'[c].r)
  <2>1. CASE c = p
    <3>1. toClient'[c] = Tail(toClient[p])
      BY <1>1, <2>1
    <3> QED BY <1>3, <1>5, <2>1, <3>1
  <2>2. CASE c # p
    <3>1. toClient'[c] = toClient[c]
      BY <1>1, <2>2
    <3> QED BY <1>5, <3>1 DEF UnderWay
  <2> QED BY <2>1, <2>2
<1>6. \A c \in Peer : \A i \in 1..Len(toClient'[c]) :
          Fits(toClient'[c][i].packet, client'[c].r)
  BY <1>5
<1> QED
  BY <1>4, <1>6 DEF UnderWay

LEMMA AckedFollows ==
    ASSUME NEW t \in Sound, NEW r \in Request, Follows(t, r)
    PROVE  /\ Acked(t) \in Sound /\ Acked(t).file = t.file /\ Acked(t).peer = t.peer
           /\ Follows(Acked(t), r)
<1> DEFINE offset == IF t.block = 0 THEN t.offset ELSE t.offset + t.blocksize - t.expansion
           block  == t.block + 1
           n      == [t EXCEPT !.block = block, !.backoff = 0, !.offset = offset]
<1>1. /\ t \in Transfer /\ t.expansion \in Nat /\ t.expansion <= t.blocksize /\ t.block \in Nat
      /\ t.offset \in Nat /\ t.blocksize \in Nat
  BY DEF Sound, Transfer
<1>2. offset \in Nat /\ block \in Nat
  BY <1>1
<1>3. r.mode = "octet" => offset = IF block = 0 THEN 0 ELSE (block - 1) * BlockSize(r)
  <2> SUFFICES ASSUME r.mode = "octet" PROVE offset = (block - 1) * BlockSize(r)
    BY <1>1
  <2>1. BlockSize(r) \in Nat /\ t.blocksize = BlockSize(r) /\ t.expansion = 0
        /\ t.offset = IF t.block = 0 THEN 0 ELSE (t.block - 1) * BlockSize(r)
    BY Sizes DEF Follows
  <2>2. CASE t.block = 0
    BY <2>1, <2>2
  <2>3. CASE t.block # 0
    <3> DEFINE k == t.block - 1
    <3>1. k \in Nat /\ t.block = k + 1 /\ block - 1 = k + 1
      BY <1>1, <2>3
    <3>2. (k + 1) * BlockSize(r) = k * BlockSize(r) + BlockSize(r) /\ k * BlockSize(r) \in Nat
      BY <2>1, <3>1, Products
    <3>3. offset = k * BlockSize(r) + BlockSize(r)
      BY <1>1, <2>1, <2>3, <3>1, <3>2
    <3> QED BY <3>1, <3>2, <3>3
  <2> QED BY <2>2, <2>3
<1>4. Acked(t) = n
  BY DEF Acked
<1> HIDE DEF offset, block
<1>5. /\ n.expansion = t.expansion /\ n.blocksize = t.blocksize /\ n.file = t.file
      /\ n.peer = t.peer /\ n.netascii = t.netascii /\ n.block = block /\ n.offset = offset
  BY <1>1 DEF Transfer
<1>6. n \in Transfer
  BY <1>1, <1>2 DEF Transfer
<1> HIDE DEF n
<1> QED
  BY <1>1, <1>3, <1>4, <1>5, <1>6 DEF Sound, Follows

LEMMA TransmitSent ==
    ASSUME Short, IInv, SentInv, NEW p \in Port, trans[p] # None, NEW t \in Sound,
           t.file = trans[p].file, t.peer = trans[p].peer, Follows(t, client[t.peer].r),
           Transmit(p, t), UNCHANGED <<requests, client>>
    PROVE  SentInv'
<1> DEFINE b    == GetBlock(t, files[t.file])
           next == Retried(b.t)
           r    == client[t.peer].r
<1>1. /\ trans \in [Port -> Sound \cup {None}] /\ files \in [FileId -> Whole \cup {None}]
      /\ Counted(trans, files) /\ AsAsked /\ AsSent /\ UnderWay /\ AsRead
  BY DEF IInv, SentInv
<1>2. t.file \in FileId /\ files[t.file] \in Whole /\ t.peer \in Peer /\ r \in Request
  <2>1. t.file \in FileId /\ t.peer \in Peer
    BY DEF Sound, Transfer
  <2>2. p \in Users(trans, t.file)
    BY DEF Users
  <2> QED BY <1>1, <2>1, <2>2 DEF Counted, AsSent
<1>3. /\ (b.packet \in Packet /\ Fits(b.packet, r)) \/ b.packet = None
      /\ b.t \in Sound /\ Follows(b.t, r) /\ b.t.peer = t.peer
  BY <1>2, PacketFits, GetBlockOK
<1>4. next # None => Follows(next, r) /\ next.peer = t.peer
  <2> HIDE DEF b
  <2>1. b.t \in Transfer
    BY <1>3 DEF Sound
  <2> QED BY <1>3, <2>1 DEF Retried, Follows, Transfer
<1>5. /\ trans' = [trans EXCEPT ![p] = None] \/ trans' = [trans EXCEPT ![p] = next]
      /\ \/ toClient' = toClient
         \/ /\ b.packet # None
            /\ \E queue \in Sent(toClient[t.peer], [port |-> p, packet |-> b.packet]) :
                  toClient' = [toClient EXCEPT ![t.peer] = queue]
  BY DEF Transmit
<1> HIDE DEF b, next
<1>6. AsSent'
  <2>1. ASSUME NEW q \in Port, trans'[q] # None
        PROVE  /\ client'[trans'[q].peer].r \in Request
               /\ Follows(trans'[q], client'[trans'[q].peer].r)
    <3>1. CASE q = p
      <4>1. trans'[q] = next
        BY <1>1, <1>5, <2>1, <3>1
      <4> QED BY <1>2, <1>4, <2>1, <4>1
    <3>2. CASE q # p
      <4>1. trans'[q] = trans[q]
        BY <1>1, <1>5, <3>2
      <4> QED BY <1>1, <2>1, <4>1 DEF AsSent
    <3> QED BY <3>1, <3>2
  <2> QED BY <2>1 DEF AsSent
<1>7. UnderWay'
  <2>1. CASE toClient' = toClient
    BY <1>1, <2>1 DEF UnderWay
  <2>2. CASE /\ b.packet # None
             /\ \E queue \in Sent(toClient[t.peer], [port |-> p, packet |-> b.packet]) :
                  toClient' = [toClient EXCEPT ![t.peer] = queue]
    <3> DEFINE x == [port |-> p, packet |-> b.packet]
    <3>1. x \in Parcel /\ Fits(x.packet, client[t.peer].r)
      BY <1>3, <2>2 DEF Parcel
    <3> HIDE DEF x
    <3>2. PICK queue \in Sent(toClient[t.peer], x) : toClient' = [toClient EXCEPT ![t.peer] = queue]
      BY <2>2 DEF x
    <3> QED BY <1>1, <1>2, <3>1, <3>2, OneMore
  <2> QED BY <1>5, <2>1, <2>2
<1>8. AsAsked' /\ AsRead'
  BY <1>1 DEF AsAsked, AsRead
<1> QED
  BY <1>6, <1>7, <1>8 DEF SentInv

LEMMA TransferSent ==
    ASSUME Short, IInv, SentInv, NEW p \in Port, Receive(p) \/ Timeout(p)
    PROVE  SentInv'
<1> DEFINE t == trans[p]
           last == [t EXCEPT !.backoff = MaxBackoff]
           r == client[t.peer].r
<1>1. t # None /\ t \in Sound /\ UNCHANGED <<requests, client>>
  BY DEF IInv, Receive, Timeout
<1>2. r \in Request /\ Follows(t, r)
  BY <1>1 DEF SentInv, AsSent
<1> HIDE DEF t
<1>3. /\ Acked(t) \in Sound /\ Acked(t).file = t.file /\ Acked(t).peer = t.peer
      /\ Follows(Acked(t), r)
  BY <1>1, <1>2, AckedFollows
<1>4. last \in Sound /\ last.file = t.file /\ last.peer = t.peer /\ Follows(last, r)
  BY <1>1, <1>2, TftpAssumption DEF Sound, Transfer, Follows
<1>5. \/ UNCHANGED <<trans, toClient>>
      \/ Transmit(p, Acked(t)) \/ Transmit(p, last) \/ Transmit(p, t)
  BY DEF Receive, Timeout, t
<1>6. CASE UNCHANGED <<trans, toClient>>
  BY <1>1, <1>6 DEF SentInv, AsAsked, AsSent, UnderWay, AsRead
<1> HIDE DEF last
<1>7. ASSUME NEW n \in Sound, n.file = t.file, n.peer = t.peer, Follows(n, r), Transmit(p, n)
      PROVE  SentInv'
  BY <1>1, <1>7, TransmitSent DEF t
<1> QED
  BY <1>1, <1>2, <1>3, <1>4, <1>5, <1>6, <1>7

LEMMA NewFollows ==
    ASSUME NEW peer \in Peer, NEW r \in Request, NEW f \in FileId
    PROVE  LET t == NewTransfer(peer, r, f)
           IN  Follows(t, r) /\ t.peer = peer /\ t.offset = 0
<1> DEFINE sized    == r.blksize # 0 /\ ~NoBlock
           block    == IF sized \/ (r.tsize /\ r.mode # "netascii") THEN 0 ELSE 1
           netascii == r.mode = "netascii"
           each     == BlockSize(r)
<1>1. NewTransfer(peer, r, f) =
        [peer |-> peer, file |-> f, backoff |-> 1, offset |-> 0, expansion |-> 0,
         carrylf |-> FALSE, netascii |-> netascii, blocksize |-> each, block |-> block]
  BY DEF NewTransfer, BlockSize
<1>2. /\ each \in Nat /\ block \in {0, 1}
      /\ (block - 1) * each = IF block = 1 THEN 0 ELSE (block - 1) * each
  BY Sizes
<1> HIDE DEF block, each
<1> QED
  BY <1>1, <1>2 DEF Follows, each

LEMMA RequestSent ==
    ASSUME Short, IInv, SentInv, NEW l \in Listener, TftpRequest(l)
    PROVE  SentInv'
<1> DEFINE first == Head(requests[l])
           free  == Port \ Active
           port  == CHOOSE p \in free : \A q \in free : p <= q
           s     == Shared(first.r.name)
           new   == NewTransfer(first.peer, first.r, s.id)
           b     == GetBlock(new, s.files[s.id])
           told(m) == \E queue \in Sent(toClient[first.peer], [port |-> port, packet |-> m]) :
                         toClient' = [toClient EXCEPT ![first.peer] = queue]
<1>1. /\ trans \in [Port -> Sound \cup {None}] /\ requests \in [Listener -> Seq(Waiting)]
      /\ requests[l] # <<>> /\ requests[l] \in Seq(Waiting)
      /\ AsAsked /\ AsSent /\ UnderWay /\ AsRead
  BY DEF IInv, SentInv, TftpRequest
<1>2. /\ requests' = [requests EXCEPT ![l] = Tail(requests[l])] /\ client' = client
  BY DEF TftpRequest
<1>3. /\ first \in Waiting /\ Len(requests[l]) \in Nat \ {0} /\ first = requests[l][1]
      /\ \A i \in 1..Len(Tail(requests[l])) :
            i + 1 \in 1..Len(requests[l]) /\ Tail(requests[l])[i] = requests[l][i + 1]
  BY <1>1
<1>4. first.peer \in Peer /\ first.r \in Request /\ client[first.peer].r = first.r
  <2>1. 1 \in 1..Len(requests[l])
    BY <1>3
  <2>2. client[requests[l][1].peer].r = requests[l][1].r
    BY <1>1, <2>1 DEF AsAsked
  <2> QED BY <1>3, <2>2 DEF Waiting
<1>5. AsAsked'
  <2>1. ASSUME NEW k \in Listener, NEW i \in 1..Len(requests'[k])
        PROVE  client'[requests'[k][i].peer].r = requests'[k][i].r
    <3>1. CASE k = l
      <4>1. requests'[k] = Tail(requests[l])
        BY <1>1, <1>2, <3>1
      <4> QED BY <1>1, <1>2, <1>3, <2>1, <4>1 DEF AsAsked
    <3>2. CASE k # l
      <4>1. requests'[k] = requests[k]
        BY <1>1, <1>2, <3>2
      <4> QED BY <1>1, <1>2, <2>1, <4>1 DEF AsAsked
    <3> QED BY <3>1, <3>2
  <2>2. \A k \in Listener : \A i \in 1..Len(requests'[k]) :
           client'[requests'[k][i].peer].r = requests'[k][i].r
    BY <2>1
  <2> QED BY <2>2 DEF AsAsked
<1> HIDE DEF first
<1>6. \/ UNCHANGED <<trans, toClient>>
      \/ free # {} /\ told(Error) /\ UNCHANGED trans
      \/ /\ free # {} /\ disk[first.r.name] \in Inode
         /\ told(b.packet) /\ (trans' = trans \/ trans' = [trans EXCEPT ![port] = b.t])
  BY DEF TftpRequest, first
<1>7. free # {} => port \in Port /\ trans[port] = None
  <2> SUFFICES ASSUME free # {} PROVE port \in free
    BY DEF Active
  <2>1. free \in SUBSET Nat
    BY TftpAssumption
  <2> HIDE DEF free
  <2> QED BY <2>1, MinInSet
<1>8. ASSUME free # {}, disk[first.r.name] \in Inode
      PROVE  b.packet \in Packet /\ Fits(b.packet, first.r) /\ b.t.peer = first.peer
             /\ Follows(b.t, first.r)
  <2>1. port \in Port /\ trans[port] = None /\ first.r.name \in {r.name : r \in Request}
    BY <1>4, <1>7, <1>8
  <2>2. s.id \in FileId /\ s.files[s.id] \in Whole
    <3> HIDE DEF port
    <3> QED BY <1>8, <2>1, Starts
  <2> HIDE DEF s
  <2>3. new \in Sound /\ Follows(new, first.r) /\ new.peer = first.peer /\ new.offset = 0
    BY <1>4, <2>2, NewTransferOK, NewFollows
  <2> HIDE DEF new
  <2>4. ~(new.offset > s.files[s.id].size)
    BY <2>2, <2>3 DEF Whole, File
  <2> QED BY <1>4, <2>2, <2>3, <2>4, PacketFits
<1> HIDE DEF free, port, b
<1>9. ASSUME NEW m \in Packet, Fits(m, first.r), free # {}, told(m) PROVE UnderWay'
  <2> DEFINE x == [port |-> port, packet |-> m]
  <2>1. x \in Parcel /\ Fits(x.packet, client[first.peer].r)
    BY <1>4, <1>7, <1>9 DEF Parcel
  <2> HIDE DEF x
  <2>2. PICK queue \in Sent(toClient[first.peer], x) :
           toClient' = [toClient EXCEPT ![first.peer] = queue]
    BY <1>9 DEF x
  <2> QED BY <1>1, <1>2, <1>4, <2>1, <2>2, OneMore
<1>10. UnderWay'
  <2>1. CASE UNCHANGED toClient
    BY <1>1, <1>2, <2>1 DEF UnderWay
  <2>2. CASE free # {} /\ told(Error)
    <3>1. Error \in Packet /\ Fits(Error, first.r)
      BY DEF Packet, Fits, Error
    <3> QED BY <1>9, <2>2, <3>1
  <2>3. CASE free # {} /\ disk[first.r.name] \in Inode /\ told(b.packet)
    BY <1>8, <1>9, <2>3
  <2> HIDE DEF told
  <2> QED BY <1>6, <2>1, <2>2, <2>3
<1> HIDE DEF told
<1>11. AsSent'
  <2>1. CASE trans' = trans
    BY <1>1, <1>2, <2>1 DEF AsSent
  <2>2. CASE free # {} /\ disk[first.r.name] \in Inode /\ trans' = [trans EXCEPT ![port] = b.t]
    <3>1. ASSUME NEW q \in Port, trans'[q] # None
          PROVE  /\ client'[trans'[q].peer].r \in Request
                 /\ Follows(trans'[q], client'[trans'[q].peer].r)
      <4>1. CASE q = port
        <5>1. trans'[q] = b.t
          BY <1>1, <1>7, <2>2, <4>1
        <5> QED BY <1>2, <1>4, <1>8, <2>2, <5>1
      <4>2. CASE q # port
        <5>1. trans'[q] = trans[q]
          BY <1>1, <2>2, <4>2
        <5> QED BY <1>1, <1>2, <3>1, <5>1 DEF AsSent
      <4> QED BY <4>1, <4>2
    <3> QED BY <3>1 DEF AsSent
  <2> QED BY <1>6, <2>1, <2>2
<1>12. AsRead'
  BY <1>1, <1>2 DEF AsRead
<1> QED
  BY <1>5, <1>10, <1>11, <1>12 DEF SentInv

LEMMA AskSent ==
    ASSUME IInv, SentInv, NEW c \in Peer, NEW l \in Listener, NEW r \in Requests[c], Ask(c, l, r)
    PROVE  SentInv'
<1> DEFINE asks == [peer |-> c, r |-> r]
           old  == client[c]
           more == old.asked + 1
           new  == [old EXCEPT !.asked = more, !.r = r]
<1>1. /\ requests \in [Listener -> Seq(Waiting)] /\ AsRead /\ DOMAIN client = Peer
      /\ AsAsked /\ AsSent /\ UnderWay
  BY DEF IInv, SentInv, AsRead
<1>2. /\ old.r \in {None, r} /\ r \in Request
      /\ client' = [client EXCEPT ![c] = new]
      /\ requests' = [requests EXCEPT ![l] = Append(requests[l], asks)]
      /\ UNCHANGED <<trans, toClient>>
  BY DEF Ask, Request
<1>3. DOMAIN client' = Peer /\ client'[c] = new /\ \A d \in Peer : d # c => client'[d] = client[d]
  BY <1>1, <1>2
<1>4. Reads(old) /\ r # None /\ None \notin Request
  BY <1>1, <1>2, NoneAssumption DEF AsRead
<1> HIDE DEF more
<1>5. /\ DOMAIN new = DOMAIN old /\ new.r = r /\ new.block = old.block /\ new.got = old.got
      /\ new.of = old.of /\ new.done = old.done
  BY <1>4 DEF Reads
<1> HIDE DEF new
<1>6. Reads(new)
  <2>1. CASE old.r = r
    BY <1>4, <1>5, <2>1 DEF Reads, Takes, Got
  <2>2. CASE old.r = None
    <3>1. Fresh(old)
      BY <1>4, <2>2 DEF Reads
    <3>2. BlockSize(r) \in Nat
      BY <1>2, Sizes
    <3>3. \A file \in Seq(STRING) : Got(new, file, (new.block - 1) * BlockSize(r))
      <4>1. (new.block - 1) * BlockSize(r) = 0 /\ new.got = <<>> /\ new.done = FALSE
        BY <1>5, <3>1, <3>2 DEF Fresh
      <4>2. ASSUME NEW file \in Seq(STRING) PROVE Got(new, file, 0)
        <5>1. Len(file) \in Nat /\ End(file, 0) = 0 /\ SubSeq(file, 1, 0) = <<>>
          BY DEF End
        <5>2. new.done = (Len(file) < 0)
          <6>1. (Len(file) < 0) = FALSE
            BY <5>1
          <6> QED BY <4>1, <6>1
        <5>3. new.got = SubSeq(file, 1, End(file, 0))
          BY <4>1, <5>1
        <5> QED BY <5>2, <5>3 DEF Got
      <4> QED BY <4>1, <4>2
    <3>4. Takes(new, r)
      BY <1>5, <3>1, <3>3 DEF Takes, Fresh
    <3> QED BY <1>2, <1>4, <1>5, <3>4 DEF Reads
  <2> QED BY <1>2, <2>1, <2>2
<1>7. \A d \in Peer : client[d].r \in Request => client'[d].r = client[d].r
  BY <1>2, <1>3, <1>4, <1>5
<1>8. AsSent' /\ UnderWay'
  <2>1. ASSUME NEW p \in Port, trans[p] # None
        PROVE  /\ client'[trans[p].peer].r \in Request
               /\ Follows(trans[p], client'[trans[p].peer].r)
    <3>1. trans[p].peer \in Peer
      BY <2>1 DEF IInv, Sound, Transfer
    <3> QED BY <1>1, <1>7, <2>1, <3>1 DEF AsSent
  <2>2. ASSUME NEW d \in Peer, NEW i \in 1..Len(toClient[d])
        PROVE  Fits(toClient[d][i].packet, client'[d].r)
    <3>1. Fits(toClient[d][i].packet, client[d].r)
      BY <1>1 DEF UnderWay
    <3> QED BY <1>7, <3>1 DEF Fits
  <2> QED BY <1>1, <1>2, <2>1, <2>2 DEF AsSent, UnderWay
<1>9. AsAsked'
  <2>1. ASSUME NEW k \in Listener, NEW i \in 1..Len(requests'[k])
        PROVE  client'[requests'[k][i].peer].r = requests'[k][i].r
    <3>1. \A j \in 1..Len(requests[k]) :
             client'[requests[k][j].peer].r = requests[k][j].r
      <4>1. ASSUME NEW j \in 1..Len(requests[k])
            PROVE  client'[requests[k][j].peer].r = requests[k][j].r
        <5>1. requests[k] \in Seq(Waiting)
          BY <1>1
        <5>2. requests[k][j] \in Waiting
          BY <5>1
        <5>3. requests[k][j].peer \in Peer /\ requests[k][j].r \in Request
          BY <5>2 DEF Waiting
        <5>4. client[requests[k][j].peer].r = requests[k][j].r
          BY <1>1 DEF AsAsked
        <5> QED BY <1>7, <5>3, <5>4
      <4> QED BY <4>1
    <3>2. CASE k = l
      <4>1. requests[l] \in Seq(Waiting) /\ requests'[k] = Append(requests[l], asks)
        BY <1>1, <1>2, <3>2
      <4>2. /\ requests'[k][Len(requests[l]) + 1] = asks /\ Len(requests[l]) \in Nat
            /\ Len(requests'[k]) = Len(requests[l]) + 1
            /\ \A j \in 1..Len(requests[l]) : requests'[k][j] = requests[l][j]
        <5> HIDE DEF asks
        <5> DEFINE q == requests[l]
        <5>1. q \in Seq(Waiting) /\ asks \in Waiting
          BY <1>2, <4>1 DEF asks, Waiting
        <5> HIDE DEF q
        <5>2. /\ Append(q, asks)[Len(q) + 1] = asks /\ Len(q) \in Nat
              /\ Len(Append(q, asks)) = Len(q) + 1
              /\ \A j \in 1..Len(q) : Append(q, asks)[j] = q[j]
          BY <5>1
        <5> QED BY <4>1, <5>2 DEF q
      <4>3. i \in 1..Len(requests[l]) \/ i = Len(requests[l]) + 1
        BY <4>2
      <4>4. client'[asks.peer].r = asks.r
        BY <1>3, <1>5
      <4> HIDE DEF asks
      <4> QED BY <3>1, <3>2, <4>2, <4>3, <4>4
    <3>3. CASE k # l
      <4>1. requests'[k] = requests[k]
        BY <1>1, <1>2, <3>3
      <4> QED BY <2>1, <3>1, <4>1
    <3> QED BY <3>2, <3>3
  <2>2. \A k \in Listener : \A i \in 1..Len(requests'[k]) :
           client'[requests'[k][i].peer].r = requests'[k][i].r
    BY <2>1
  <2> QED BY <2>2 DEF AsAsked
<1>10. AsRead'
  BY <1>1, <1>3, <1>6 DEF AsRead
<1> QED
  BY <1>8, <1>9, <1>10 DEF SentInv

(* The block a client expects is the next one of the file. *)
LEMMA TakesBlock ==
    ASSUME NEW c, Reads(c), c.r \in Request, c.r.mode = "octet", ~c.done,
           NEW m, Piece(m, BlockSize(c.r)), m.block = c.block % BlockNumbers,
           NEW n, n.r = c.r, n.block = c.block + 1, n.got = c.got \o m.bytes,
           n.of = c.of \cup {m.of}, n.done = m.last
    PROVE  Takes(n, c.r)
<1> DEFINE each == BlockSize(c.r)
           o    == (c.block - 1) * each
           e    == End(m.of, o + each)
<1>1. /\ Takes(c, c.r) /\ c.block \in Nat \ {0} /\ each \in Nat \ {0}
      /\ BlockNumbers \in Nat \ {0}
  BY Sizes, TftpAssumption DEF Reads
<1>2. PICK k \in 1..BlockNumbers : IsBlock(m, k, (k - 1) * each, each)
  BY DEF Piece
<1>3. m.of \in Seq(STRING) /\ Len(m.of) \in Nat /\ Len(m.of) < BlockNumbers * each
  BY DEF Piece
<1> HIDE DEF each
<1>4. o \in Nat /\ c.block * each = o + each /\ o + each \in Nat
  <2> DEFINE i == c.block - 1
  <2>1. i \in Nat /\ c.block = i + 1
    BY <1>1
  <2>2. o = i * each
    OBVIOUS
  <2> HIDE DEF i, o
  <2>3. i * each \in Nat /\ (i + 1) * each = i * each + each
    BY <1>1, <2>1, Products
  <2> QED BY <1>1, <2>1, <2>2, <2>3
<1> HIDE DEF o
<1>5. SUFFICES ASSUME NEW file \in Seq(STRING), n.of \subseteq {file}
               PROVE  Got(n, file, o + each)
  <2>1. n.of \subseteq Seq(STRING)
    BY <1>1, <1>3 DEF Takes
  <2>2. (n.block - 1) * each = o + each
    <3>1. n.block - 1 = c.block
      BY <1>1
    <3> QED BY <1>4, <3>1
  <2> QED BY <1>5, <2>1, <2>2 DEF Takes, each
<1>6. m.of = file /\ c.of \subseteq {file}
  BY <1>5
<1>7. Got(c, file, o)
  BY <1>1, <1>6 DEF Takes, o, each
<1>8. o <= Len(file) /\ End(file, o) = o
  <2>1. c.done = (Len(file) < o)
    BY <1>7 DEF Got
  <2>2. ~(Len(file) < o)
    BY <2>1
  <2> QED BY <1>3, <1>4, <1>6, <2>2 DEF End
<1>9. c.block \in 1..BlockNumbers
  <2> DEFINE i == c.block - 1
  <2>1. i \in Nat /\ c.block = i + 1 /\ i * each = o /\ BlockNumbers * each \in Nat
    BY <1>1 DEF o
  <2>2. i * each < BlockNumbers * each
    BY <1>3, <1>4, <1>6, <1>8, <2>1
  <2> HIDE DEF i
  <2>3. i + 1 <= BlockNumbers
    BY <1>1, <2>1, <2>2, FewBlocks
  <2> QED BY <1>1, <2>1, <2>3
<1>10. k = c.block
  BY <1>1, <1>2, <1>9, OneNumber DEF IsBlock
<1>11. IsBlock(m, c.block, o, each)
  BY <1>2, <1>10 DEF o
<1>12. e \in Nat /\ o <= e /\ e <= Len(file)
  BY <1>1, <1>3, <1>4, <1>6, <1>8 DEF End
<1>13. n.got = SubSeq(file, 1, e)
  <2>1. n.got = SubSeq(file, 1, o) \o SubSeq(file, o + 1, e)
    BY <1>6, <1>7, <1>8, <1>11 DEF Got, IsBlock
  <2> HIDE DEF e
  <2> QED BY <1>4, <1>12, <2>1, TwoParts
<1>14. n.done = (Len(file) < o + each)
  BY <1>6, <1>11 DEF IsBlock
<1> QED
  BY <1>6, <1>13, <1>14 DEF Got

LEMMA HearSent ==
    ASSUME IInv, SentInv, NEW p \in Peer, Hear(p)
    PROVE  SentInv'
<1> DEFINE c    == client[p]
           port == Head(toClient[p]).port
           m    == Head(toClient[p]).packet
           next == [c EXCEPT !.port = port, !.block = c.block + 1, !.got = c.got \o m.bytes,
                             !.of = c.of \cup {m.of}, !.done = m.last]
           near == [c EXCEPT !.port = port]
<1>1. /\ AsAsked /\ AsSent /\ UnderWay /\ AsRead /\ DOMAIN client = Peer /\ Reads(c)
      /\ toClient[p] # <<>> /\ toClient[p] \in Seq(Parcel)
      /\ toClient' = [toClient EXCEPT ![p] = Tail(toClient[p])]
      /\ requests' = requests /\ trans' = trans
  BY DEF SentInv, AsRead, UnderWay, Hear
<1>2. Fits(m, c.r)
  <2>1. Len(toClient[p]) \in Nat \ {0} /\ Head(toClient[p]) = toClient[p][1]
    BY <1>1
  <2>2. 1 \in 1..Len(toClient[p])
    BY <2>1
  <2> QED BY <1>1, <2>1, <2>2 DEF UnderWay
<1>3. \/ client' = client
      \/ client' = [client EXCEPT ![p] = near]
      \/ /\ m.op = "data" /\ m.block = c.block % BlockNumbers /\ ~c.done
         /\ client' = [client EXCEPT ![p] = next]
  <2>1. m.op \in {"data", "oack", "error"}
    BY <1>2 DEF Fits
  <2>2. CASE c.port \notin {None, port}
    BY <2>2 DEF Hear
  <2>3. CASE c.port \in {None, port} /\ m.op = "error"
    BY <2>3 DEF Hear
  <2>4. CASE c.port \in {None, port} /\ m.op = "oack"
    BY <2>4 DEF Hear
  <2>5. CASE c.port \in {None, port} /\ m.op = "data"
    BY <2>5 DEF Hear
  <2> QED BY <2>1, <2>2, <2>3, <2>4, <2>5
<1> HIDE DEF port
<1>4. Reads(near) /\ near.r = c.r
  BY <1>1 DEF Reads, Fresh, Takes, Got
<1>5. ASSUME m.op = "data", m.block = c.block % BlockNumbers, ~c.done
      PROVE  Reads(next) /\ next.r = c.r
  <2> DEFINE block == c.block + 1  got == c.got \o m.bytes  of == c.of \cup {m.of}  last == m.last
             new   == [c EXCEPT !.port = port, !.block = block, !.got = got, !.of = of,
                                !.done = last]
  <2>1. /\ c.r \in Request /\ c.r # None /\ (c.r.mode = "octet" => Piece(m, BlockSize(c.r)))
        /\ block \in Nat \ {0} /\ DOMAIN c = {"asked", "r", "port", "block", "got", "of", "done"}
    BY <1>1, <1>2, <1>5, Sizes DEF Fits, Reads
  <2> HIDE DEF block, got, of, last, c, m
  <2>2. /\ DOMAIN new = DOMAIN c /\ new.r = c.r /\ new.block = block /\ new.got = got
        /\ new.of = of /\ new.done = last
    BY <2>1
  <2> HIDE DEF new
  <2>3. Takes(new, c.r)
    <3>1. CASE c.r.mode = "octet"
      BY <1>1, <1>5, <2>1, <2>2, <3>1, TakesBlock DEF block, got, of, last
    <3>2. CASE c.r.mode # "octet"
      BY <3>2 DEF Takes
    <3> QED BY <3>1, <3>2
  <2>4. Reads(new)
    BY <2>1, <2>2, <2>3 DEF Reads
  <2> QED BY <2>2, <2>4 DEF new, block, got, of, last
<1> HIDE DEF near, next, m
<1>6. /\ DOMAIN client' = Peer
      /\ \A d \in Peer : Reads(client'[d]) /\ client'[d].r = client[d].r
  <2>1. CASE client' = client
    BY <1>1, <2>1 DEF AsRead
  <2>2. CASE client' = [client EXCEPT ![p] = near]
    BY <1>1, <1>4, <2>2 DEF AsRead, c
  <2>3. CASE client' = [client EXCEPT ![p] = next] /\ m.op = "data"
             /\ m.block = c.block % BlockNumbers /\ ~c.done
    <3>1. Reads(next) /\ next.r = c.r
      BY <1>5, <2>3
    <3> QED BY <1>1, <2>3, <3>1 DEF AsRead, c
  <2> QED BY <1>3, <2>1, <2>2, <2>3
<1>7. UnderWay'
  BY <1>1, <1>6, OneLess
<1>8. AsAsked' /\ AsSent'
  <2>1. AsAsked'
    <3>1. ASSUME NEW l \in Listener, NEW i \in 1..Len(requests[l])
          PROVE  client'[requests[l][i].peer].r = requests[l][i].r
      <4>1. requests[l] \in Seq(Waiting)
        BY DEF IInv
      <4>2. requests[l][i] \in Waiting
        BY <4>1
      <4>3. requests[l][i].peer \in Peer
        BY <4>2 DEF Waiting
      <4> QED BY <1>1, <1>6, <4>3 DEF AsAsked
    <3> QED BY <1>1, <3>1 DEF AsAsked
  <2>2. AsSent'
    <3>1. \A q \in Port : trans[q] # None => trans[q].peer \in Peer
      BY DEF IInv, Sound, Transfer
    <3> QED BY <1>1, <1>6, <3>1 DEF AsSent
  <2> QED BY <2>1, <2>2
<1>9. AsRead'
  BY <1>6 DEF AsRead
<1> QED
  BY <1>7, <1>8, <1>9 DEF SentInv

LEMMA InitSent == Init => SentInv
<1> SUFFICES ASSUME Init PROVE SentInv
  OBVIOUS
<1>1. /\ \A l \in Listener : requests[l] = <<>>
      /\ \A p \in Port : trans[p] = None
      /\ toClient \in [Peer -> Seq(Parcel)] /\ \A p \in Peer : toClient[p] = <<>>
  BY DEF Init
<1>2. DOMAIN client = Peer
  BY DEF Init
<1>3. \A p \in Peer : Reads(client[p])
  BY DEF Init, Reads, Fresh
<1> QED
  BY <1>1, <1>2, <1>3 DEF SentInv, AsAsked, AsSent, UnderWay, AsRead

LEMMA StepSent == Short /\ IInv /\ SentInv /\ [Next]_vars => SentInv'
<1> SUFFICES ASSUME Short, IInv, SentInv, [Next]_vars PROVE SentInv'
  OBVIOUS
<1>1. CASE Server
  BY <1>1, RequestSent DEF Server
<1>2. ASSUME NEW p \in Port, Receive(p) \/ Timeout(p) PROVE SentInv'
  BY <1>2, TransferSent
<1>3. ASSUME NEW c \in Peer, Hear(c) PROVE SentInv'
  BY <1>3, HearSent
<1>4. ASSUME NEW c \in Peer, NEW l \in Listener, NEW r \in Requests[c], Ask(c, l, r)
      PROVE  SentInv'
  BY <1>4, AskSent
<1>5. CASE Disk \/ Select \/ (\E p \in Port : Lost(p)) \/ UNCHANGED vars
  <2>1. UNCHANGED <<requests, trans, toClient, client>>
    BY <1>5 DEF Disk, Select, Lost, vars
  <2> QED BY <2>1 DEF SentInv, AsAsked, AsSent, UnderWay, AsRead
<1> QED
  BY <1>1, <1>2, <1>3, <1>4, <1>5 DEF Next

(* What a client has of a file is its beginning, and all of it when the last *)
(* block has come, although blocks and acknowledgements are lost and sent    *)
(* again, other clients use the port, and the file is replaced or cut short. *)
(* The number of a block in a packet says which block it is as long as files *)
(* have no more blocks than there are numbers: in a longer one a client may  *)
(* take a block of a second transfer for one it expects.                     *)
THEOREM TftpDelivered == ASSUME Short PROVE Spec => []Delivered
<1>1. SentInv => Delivered
  <2> SUFFICES ASSUME SentInv, NEW p \in Peer, client[p].r # None, client[p].r.mode = "octet",
                      NEW file \in client[p].of, client[p].of = {file}
               PROVE  IsPrefix(client[p].got, file) /\ (client[p].done => client[p].got = file)
    BY DEF Delivered
  <2> DEFINE c == client[p]
             n == (c.block - 1) * BlockSize(c.r)
  <2>1. c.r \in Request /\ Takes(c, c.r) /\ c.block \in Nat \ {0}
    BY DEF SentInv, AsRead, Reads
  <2>2. file \in Seq(STRING) /\ Got(c, file, n)
    BY <2>1 DEF Takes
  <2>3. n \in Nat
    <3> DEFINE i == c.block - 1
    <3>1. i \in Nat /\ BlockSize(c.r) \in Nat
      BY <2>1, Sizes
    <3> HIDE DEF i
    <3>2. i * BlockSize(c.r) \in Nat
      BY <3>1, Products
    <3> QED BY <3>2 DEF i
  <2> HIDE DEF n
  <2>4. c.got = SubSeq(file, 1, End(file, n)) /\ c.done = (Len(file) < n)
    BY <2>2 DEF Got
  <2>5. /\ End(file, n) \in Nat /\ End(file, n) <= Len(file)
        /\ Len(file) < n => End(file, n) = Len(file)
    BY <2>2, <2>3 DEF End
  <2> DEFINE e == End(file, n)
  <2> HIDE DEF c, e
  <2>6. /\ Len(c.got) = e /\ e \in Nat /\ e <= Len(file)
        /\ c.got = SubSeq(file, 1, e) /\ c.got \in Seq(STRING)
    BY <2>2, <2>4, <2>5 DEF e
  <2>7. IsPrefix(c.got, file)
    <3>1. SubSeq(c.got, 1, Len(c.got)) = c.got
      BY <2>6
    <3> QED BY <2>6, <3>1 DEF IsPrefix
  <2>8. c.done => c.got = file
    <3> SUFFICES ASSUME c.done PROVE c.got = file
      OBVIOUS
    <3>1. e = Len(file)
      BY <2>4, <2>5 DEF e
    <3>2. SubSeq(file, 1, Len(file)) = file
      BY <2>2
    <3> QED BY <2>6, <3>1, <3>2
  <2> QED BY <2>7, <2>8 DEF c
<1>2. Init => SentInv
  BY InitSent
<1>3. IInv /\ SentInv /\ [Next]_vars => SentInv'
  BY StepSent
<1> QED
  BY <1>1, <1>2, <1>3, TftpInv, PTL DEF Spec
=============================================================================
