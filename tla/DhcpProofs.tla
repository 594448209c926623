----------------------------- MODULE DhcpProofs -----------------------------
(***************************************************************************)
(* The lease table of the DHCP server for any number of machines,          *)
(* addresses, ranges and configurations: no two leases ever share an       *)
(* address, a host name or a client identifier, whatever packets, files    *)
(* and restarts come in what order; by a second invariant, on what the     *)
(* machines have been told, no two machines ever share an address; by a    *)
(* third, a table that is not dirty is its file, and the alarm comes; by a *)
(* fourth, the names the DNS can find are those of leases; by a fifth the  *)
(* script has been told what there is, or will be; and by a sixth, on the  *)
(* dhcp-host entries, an address that is offered is given when asked for.  *)
(***************************************************************************)
EXTENDS Dhcp, InductionLemmas

(* No two leases of a table have one address, name or identifier. *)
Unique(t) ==
    \A i, j \in 1..Len(t.leases) : i # j =>
        /\ t.leases[i].addr # t.leases[j].addr
        /\ t.leases[i].name # NoName => t.leases[i].name # t.leases[j].name
        /\ t.leases[i].clid # NoClid => t.leases[i].clid # t.leases[j].clid

Sound == {t \in Table : Unique(t)}
Good  == {t \in Sound : Len(t.leases) <= DhcpMax}

(* The part of it that a table has while the file is read, whatever is in it. *)
NamesApart(t) ==
    \A i, j \in 1..Len(t.leases) :
        i # j /\ t.leases[i].name # NoName => t.leases[i].name # t.leases[j].name

Named == {t \in Table : NamesApart(t)}

(* Nor do two lines of the file; a name may be in two, as one that is moved
   by reading them.                                                         *)
FileUnique(f) ==
    \A i, j \in 1..Len(f) : i # j =>
        f[i].addr # f[j].addr /\ (f[i].clid # NoClid => f[i].clid # f[j].clid)

IInv ==
    /\ TypeOK /\ OneLeaseEach
    /\ Len(file) <= DhcpMax /\ FileUnique(file)
    /\ \A h \in Hw : held[h].addr = NoAddr => held[h] = Nowhere

-----------------------------------------------------------------------------
(* Searches *)

LEMMA FindByAddrOK ==
    ASSUME NEW t \in Table, NEW a
    PROVE  LET i == FindByAddr(t, a) IN
           /\ i \in 0..Len(t.leases) /\ Len(t.leases) \in Nat
           /\ i = 0 => \A j \in 1..Len(t.leases) : t.leases[j].addr # a
           /\ i # 0 => i \in 1..Len(t.leases) /\ t.leases[i].addr = a
<1> DEFINE n == Len(t.leases)
           S == {j \in 1..n : t.leases[j].addr = a}
           i == FindByAddr(t, a)
<1>1. n \in Nat /\ S \in SUBSET (1..n)
  BY DEF Table
<1>2. i = IF S # {} THEN Min(S) ELSE 0
  BY DEF FindByAddr, SelectInSeq
<1>3. i \in 0..n /\ (i = 0 => S = {}) /\ (i # 0 => i \in S /\ i \in 1..n)
  <2> HIDE DEF S, n, i
  <2> QED BY <1>1, <1>2, FirstPlace
<1> HIDE DEF i
<1> QED
  BY <1>1, <1>3 DEF i

(* A client identifier that finds no lease is in none; one that finds a lease
   is in that one or in none.                                               *)
LEMMA FindByClientOK ==
    ASSUME NEW t \in Table, NEW hw, NEW clid
    PROVE  LET i == FindByClient(t, hw, clid) IN
           /\ i \in 0..Len(t.leases)
           /\ (\A j \in 1..Len(t.leases) : clid # NoClid => t.leases[j].clid # clid)
              \/ (i # 0 /\ clid # NoClid /\ t.leases[i].clid = clid)
           /\ i # 0 => (clid # NoClid /\ t.leases[i].clid = clid) \/ t.leases[i].hw = hw
<1> DEFINE n == Len(t.leases)
           S == {j \in 1..n : clid # NoClid /\ t.leases[j].clid = clid}
           T == {j \in 1..n : (t.leases[j].clid = NoClid \/ clid = NoClid) /\ t.leases[j].hw = hw}
           byClid == IF S # {} THEN Min(S) ELSE 0
           byHw   == IF T # {} THEN Min(T) ELSE 0
           i == FindByClient(t, hw, clid)
<1>1. n \in Nat /\ S \in SUBSET (1..n) /\ T \in SUBSET (1..n)
  BY DEF Table
<1>2. i = IF byClid # 0 THEN byClid ELSE byHw
  BY DEF FindByClient, SelectInSeq
<1>3. byClid \in 0..n /\ (byClid = 0 => S = {}) /\ (byClid # 0 => byClid \in S)
  <2> HIDE DEF S, n, i
  <2> QED BY <1>1, FirstPlace
<1>4. byHw \in 0..n /\ (byHw # 0 => byHw \in T)
  <2> HIDE DEF T, n, i
  <2> QED BY <1>1, FirstPlace
<1> HIDE DEF i, byClid, byHw
<1> QED
  BY <1>1, <1>2, <1>3, <1>4 DEF i

-----------------------------------------------------------------------------
(* The operations on a table *)

(* The leases of u have the addresses, names and identifiers of those of t. *)
Alike(t, u) ==
    /\ Len(u.leases) = Len(t.leases)
    /\ \A j \in 1..Len(t.leases) : /\ u.leases[j].addr = t.leases[j].addr
                                   /\ u.leases[j].name = t.leases[j].name
                                   /\ u.leases[j].clid = t.leases[j].clid

(* What a machine relies on: the lease of its address, in the table and in the
   file, which is not taken to be up to date when a lease is not the same.   *)
Tied(l, k) == l.addr = k.addr /\ l.hw = k.hw /\ l.clid = k.clid /\ l.left = k.left

SameNames(t, u) == \A j \in 1..Len(t.leases) : u.leases[j].name = t.leases[j].name

Spared(t, u) ==
    /\ Len(u.leases) = Len(t.leases)
    /\ \A j \in 1..Len(t.leases) : Tied(u.leases[j], t.leases[j])
    /\ ~u.fileDirty => ~t.fileDirty /\ SameNames(t, u)

LEMMA SparedTrans ==
    ASSUME NEW t, NEW u, NEW v, Spared(t, u), Spared(u, v) PROVE Spared(t, v)
BY DEF Spared, SameNames, Tied

LEMMA SparedSelf == ASSUME NEW t PROVE Spared(t, t)
BY DEF Spared, SameNames, Tied

LEMMA AlikeSound ==
    ASSUME NEW t \in Sound, NEW u \in Table, Alike(t, u)
    PROVE  u \in Sound /\ (t \in Good => u \in Good)
BY DEF Sound, Good, Alike, Unique

(* One lease is replaced. *)
LEMMA LeaseSet ==
    ASSUME NEW t \in Table, NEW i \in 1..Len(t.leases), NEW l \in Lease
    PROVE  LET ls == [t.leases EXCEPT ![i] = l] IN
           /\ ls \in Seq(Lease) /\ Len(ls) = Len(t.leases) /\ Len(t.leases) \in Nat
           /\ \A j \in 1..Len(t.leases) : ls[j] = (IF j = i THEN l ELSE t.leases[j])
           /\ [t EXCEPT !.leases = ls] = [t EXCEPT !.leases[i] = l]
BY DEF Table

LEMMA LeaseAt ==
    ASSUME NEW t \in Table, NEW i \in 1..Len(t.leases)
    PROVE  t.leases[i] \in Lease
BY DEF Table

(* A lease is given a time. *)
Lasting(t, u, i, left) ==
    /\ \A j \in 1..Len(t.leases) :
         /\ u.leases[j].hw = t.leases[j].hw
         /\ u.leases[j].left = (IF j = i THEN left ELSE t.leases[j].left)
    /\ ~u.fileDirty => ~t.fileDirty /\ t.leases[i].left = left

LEMMA SetExpiresOK ==
    ASSUME NEW t \in Table, NEW i \in 1..Len(t.leases), NEW left \in Left
    PROVE  LET u == SetExpires(t, i, left) IN
           u \in Table /\ Alike(t, u) /\ Lasting(t, u, i, left)
<1> DEFINE k == t.leases[i]
           l == [k EXCEPT !.left = left]
           ls == [t.leases EXCEPT ![i] = l]
           u == [t EXCEPT !.leases = ls, !.dnsDirty = TRUE, !.fileDirty = TRUE]
<1>1. SetExpires(t, i, left) = u \/ (SetExpires(t, i, left) = t /\ k.left = left)
  BY DEF SetExpires
<1>2. k \in Lease
  BY LeaseAt
<1>3. l \in Lease /\ l.addr = k.addr /\ l.name = k.name /\ l.clid = k.clid
      /\ l.hw = k.hw /\ l.left = left
  <2> HIDE DEF k
  <2> QED BY <1>2 DEF Lease
<1>4. ls \in Seq(Lease) /\ Len(ls) = Len(t.leases)
      /\ \A j \in 1..Len(t.leases) : ls[j] = IF j = i THEN l ELSE t.leases[j]
  <2> HIDE DEF l
  <2> QED BY <1>3, LeaseSet
<1> HIDE DEF l, ls
<1>5. u \in Table /\ u.leases = ls /\ u.fileDirty
  BY <1>4 DEF Table
<1> HIDE DEF u
<1>6. Alike(t, u) /\ Alike(t, t) /\ Lasting(t, u, i, left)
  BY <1>3, <1>4, <1>5 DEF Alike, Lasting
<1>7. k.left = left => Lasting(t, t, i, left)
  BY DEF Lasting
<1> QED
  BY <1>1, <1>5, <1>6, <1>7

LEMMA SetInterfaceOK ==
    ASSUME NEW t \in Table, NEW i \in 1..Len(t.leases)
    PROVE  SetInterface(t, i) \in Table /\ Alike(t, SetInterface(t, i))
           /\ Spared(t, SetInterface(t, i))
<1> DEFINE k == t.leases[i]
           l == [k EXCEPT !.seen = TRUE, !.changed = TRUE]
           ls == [t.leases EXCEPT ![i] = l]
           u == [t EXCEPT !.leases = ls]
<1>1. k \in Lease
  BY LeaseAt
<1>2. l \in Lease /\ l.addr = k.addr /\ l.name = k.name /\ l.clid = k.clid /\ Tied(l, k)
  <2> HIDE DEF k
  <2> QED BY <1>1 DEF Lease, Tied
<1>3. ls \in Seq(Lease) /\ Len(ls) = Len(t.leases)
      /\ \A j \in 1..Len(t.leases) : ls[j] = IF j = i THEN l ELSE t.leases[j]
  <2> HIDE DEF l
  <2> QED BY <1>2, LeaseSet
<1>4. SetInterface(t, i) \in {t, u}
  <2>1. [t EXCEPT !.leases[i].seen = TRUE, !.leases[i].changed = TRUE] = u
    BY DEF Table
  <2> HIDE DEF u
  <2> QED BY <2>1 DEF SetInterface
<1> HIDE DEF l, ls
<1>5. u \in Table /\ u.leases = ls /\ u.fileDirty = t.fileDirty
  BY <1>3 DEF Table
<1> HIDE DEF u
<1>6. Alike(t, u) /\ Alike(t, t) /\ Spared(t, u) /\ Spared(t, t)
  BY <1>2, <1>3, <1>5 DEF Alike, Spared, SameNames, Tied
<1> QED
  BY <1>4, <1>5, <1>6

(* Announcing all leases again, ageing them, and what the script is told. *)
LEMMA RerunScriptsOK ==
    ASSUME NEW t \in Table
    PROVE  RerunScripts(t) \in Table /\ Alike(t, RerunScripts(t))
           /\ Spared(t, RerunScripts(t))
<1> DEFINE l(i) == [t.leases[i] EXCEPT !.changed = TRUE]
           ls == [i \in DOMAIN t.leases |-> l(i)]
<1>1. ASSUME NEW i \in 1..Len(t.leases)
      PROVE  /\ l(i) \in Lease /\ l(i).addr = t.leases[i].addr
             /\ l(i).name = t.leases[i].name /\ l(i).clid = t.leases[i].clid
             /\ Tied(l(i), t.leases[i])
  <2> DEFINE k == t.leases[i]
  <2>1. k \in Lease
    BY LeaseAt
  <2> HIDE DEF k
  <2>2. LET m == [k EXCEPT !.changed = TRUE] IN
        m \in Lease /\ m.addr = k.addr /\ m.name = k.name /\ m.clid = k.clid
        /\ Tied(m, k)
    BY <2>1 DEF Lease, Tied
  <2> QED BY <2>2 DEF k
<1> HIDE DEF l
<1>2. DOMAIN t.leases = 1..Len(t.leases) /\ Len(t.leases) \in Nat
  BY DEF Table
<1>3. ls \in Seq(Lease) /\ Len(ls) = Len(t.leases) /\ \A i \in 1..Len(t.leases) : ls[i] = l(i)
  BY <1>1, <1>2
<1>4. RerunScripts(t) = [t EXCEPT !.leases = ls]
  BY DEF RerunScripts, l
<1> HIDE DEF ls
<1>5. /\ RerunScripts(t) \in Table /\ RerunScripts(t).leases = ls
      /\ RerunScripts(t).fileDirty = t.fileDirty
  BY <1>3, <1>4 DEF Table
<1> QED
  BY <1>1, <1>3, <1>5 DEF Alike, Spared, SameNames

LEMMA LaterOK ==
    ASSUME NEW left \in Left PROVE Later(left) \in Left
BY LeasesAssumption DEF Left, Later, LongGone

LEMMA AgedLeases ==
    ASSUME NEW ls \in Seq(Lease)
    PROVE  /\ Aged(ls) \in Seq(Lease) /\ Len(Aged(ls)) = Len(ls)
           /\ \A i \in 1..Len(ls) : /\ Aged(ls)[i].addr = ls[i].addr
                                    /\ Aged(ls)[i].name = ls[i].name
                                    /\ Aged(ls)[i].clid = ls[i].clid
                                    /\ Aged(ls)[i].hw = ls[i].hw
                                    /\ Aged(ls)[i].left = Later(ls[i].left)
<1> DEFINE l(i) == [ls[i] EXCEPT !.left = Later(@)]
<1>1. ASSUME NEW i \in 1..Len(ls)
      PROVE  l(i) \in Lease /\ l(i).addr = ls[i].addr /\ l(i).name = ls[i].name
             /\ l(i).clid = ls[i].clid /\ l(i).hw = ls[i].hw
             /\ l(i).left = Later(ls[i].left)
  <2> DEFINE k == ls[i]  left == Later(k.left)
  <2>1. k \in Lease
    OBVIOUS
  <2> HIDE DEF k
  <2>2. left \in Left
    BY <2>1, LaterOK DEF Lease
  <2> HIDE DEF left
  <2>3. LET m == [k EXCEPT !.left = left] IN
        m \in Lease /\ m.addr = k.addr /\ m.name = k.name /\ m.clid = k.clid
        /\ m.hw = k.hw /\ m.left = left
    BY <2>1, <2>2 DEF Lease
  <2> QED BY <2>1, <2>3 DEF k, left, Lease
<1> HIDE DEF l
<1>2. Aged(ls) = [i \in 1..Len(ls) |-> l(i)] /\ Len(ls) \in Nat
  BY DEF Aged, l
<1> QED
  BY <1>1, <1>2

LEMMA AgedLines ==
    ASSUME NEW f \in Seq(Stored)
    PROVE  /\ Aged(f) \in Seq(Stored) /\ Len(Aged(f)) = Len(f)
           /\ \A i \in 1..Len(f) : /\ Aged(f)[i].addr = f[i].addr
                                   /\ Aged(f)[i].name = f[i].name
                                   /\ Aged(f)[i].clid = f[i].clid
                                   /\ Aged(f)[i].hw = f[i].hw
                                   /\ Aged(f)[i].left = Later(f[i].left)
<1> DEFINE l(i) == [f[i] EXCEPT !.left = Later(@)]
<1>1. ASSUME NEW i \in 1..Len(f)
      PROVE  l(i) \in Stored /\ l(i).addr = f[i].addr /\ l(i).name = f[i].name
             /\ l(i).clid = f[i].clid
             /\ l(i).hw = f[i].hw /\ l(i).left = Later(f[i].left)
  <2> DEFINE k == f[i]  left == Later(k.left)
  <2>1. k \in Stored
    OBVIOUS
  <2> HIDE DEF k
  <2>2. left \in Left
    BY <2>1, LaterOK DEF Stored
  <2> HIDE DEF left
  <2>3. LET m == [k EXCEPT !.left = left] IN
        m \in Stored /\ m.addr = k.addr /\ m.name = k.name /\ m.clid = k.clid
        /\ m.hw = k.hw /\ m.left = left
    BY <2>1, <2>2 DEF Stored
  <2> QED BY <2>1, <2>3 DEF k, left, Stored
<1> HIDE DEF l
<1>2. Aged(f) = [i \in 1..Len(f) |-> l(i)] /\ Len(f) \in Nat
  BY DEF Aged, l
<1> QED
  BY <1>1, <1>2

(* Without a script nothing is kept for it. *)
LEMMA DrainedOK ==
    ASSUME NEW t \in Table
    PROVE  Drained(t) \in Table /\ Alike(t, Drained(t))
           /\ Spared(t, Drained(t))
<1> DEFINE l(i) == [t.leases[i] EXCEPT !.oldName = NoName, !.new = FALSE, !.changed = FALSE]
           ls == [i \in DOMAIN t.leases |-> l(i)]
<1>1. ASSUME NEW i \in 1..Len(t.leases)
      PROVE  /\ l(i) \in Lease /\ l(i).addr = t.leases[i].addr
             /\ l(i).name = t.leases[i].name /\ l(i).clid = t.leases[i].clid
             /\ Tied(l(i), t.leases[i])
  <2> DEFINE k == t.leases[i]
  <2>1. k \in Lease
    BY LeaseAt
  <2> HIDE DEF k
  <2>2. LET m == [k EXCEPT !.oldName = NoName, !.new = FALSE, !.changed = FALSE] IN
        m \in Lease /\ m.addr = k.addr /\ m.name = k.name /\ m.clid = k.clid
        /\ Tied(m, k)
    BY <2>1 DEF Lease, Tied
  <2> QED BY <2>2 DEF k
<1> HIDE DEF l
<1>2. DOMAIN t.leases = 1..Len(t.leases) /\ Len(t.leases) \in Nat
  BY DEF Table
<1>3. ls \in Seq(Lease) /\ Len(ls) = Len(t.leases) /\ \A i \in 1..Len(t.leases) : ls[i] = l(i)
  BY <1>1, <1>2
<1>4. Drained(t) = [t EXCEPT !.old = <<>>, !.leases = ls]
  BY DEF Drained, l
<1> HIDE DEF ls
<1>5. /\ Drained(t) \in Table /\ Drained(t).leases = ls
      /\ Drained(t).fileDirty = t.fileDirty
  <2>1. <<>> \in Seq(Lease)
    OBVIOUS
  <2> QED BY <1>3, <1>4, <2>1 DEF Table
<1> QED
  BY <1>1, <1>3, <1>5 DEF Alike, Spared, SameNames

(* Only the state of announcements changes when the script is run. *)
LEMMA DoScriptRunOK ==
    ASSUME NEW t \in Table, ~NothingToRun(t)
    PROVE  DoScriptRun(t) \in Table /\ Alike(t, DoScriptRun(t))
           /\ Spared(t, DoScriptRun(t))
<1> DEFINE n == Len(t.leases)
           S == {j \in 1..n : t.leases[j].oldName # NoName}
           T == {j \in 1..n : t.leases[j].new \/ t.leases[j].changed}
<1>1. n \in Nat /\ S \in SUBSET (1..n) /\ T \in SUBSET (1..n)
  BY DEF Table
<1>2. Renamed(t) = (IF S # {} THEN Min(S) ELSE 0) /\ Announced(t) = (IF T # {} THEN Min(T) ELSE 0)
  BY DEF Renamed, Announced, SelectInSeq
<1>3. Renamed(t) # 0 => Renamed(t) \in 1..n
  <2> HIDE DEF S, T, n
  <2> QED BY <1>1, <1>2, FirstPlace
<1>4. Announced(t) # 0 => Announced(t) \in 1..n
  <2> HIDE DEF S, T, n
  <2> QED BY <1>1, <1>2, FirstPlace
<1> HIDE DEF S, T
<1>5. CASE t.old # <<>>
  <2> DEFINE k == t.old[1]
             l == [k EXCEPT !.oldName = NoName]
             os == [t.old EXCEPT ![1] = l]
  <2>1. t.old \in Seq(Lease) /\ k \in Lease /\ Tail(t.old) \in Seq(Lease) /\ 1 \in DOMAIN t.old
    BY <1>5 DEF Table
  <2>2. l \in Lease
    <3> HIDE DEF k
    <3> QED BY <2>1 DEF Lease
  <2>3. os \in Seq(Lease)
    <3> HIDE DEF l
    <3> QED BY <2>1, <2>2
  <2>4. [t EXCEPT !.old[1].oldName = NoName] = [t EXCEPT !.old = os]
    BY DEF Table
  <2> HIDE DEF os
  <2>5. DoScriptRun(t) \in {[t EXCEPT !.old = os], [t EXCEPT !.old = Tail(t.old)]}
    BY <1>5, <2>4 DEF DoScriptRun
  <2>6. \A o \in Seq(Lease) : /\ [t EXCEPT !.old = o] \in Table
                             /\ [t EXCEPT !.old = o].leases = t.leases
                             /\ [t EXCEPT !.old = o].fileDirty = t.fileDirty
    BY DEF Table
  <2> QED BY <2>1, <2>3, <2>5, <2>6 DEF Alike, Spared, SameNames, Tied
<1>6. ASSUME NEW i \in 1..n, NEW l \in Lease, NEW k, k = t.leases[i],
             l.addr = k.addr, l.name = k.name, l.clid = k.clid, Tied(l, k),
             DoScriptRun(t) = [t EXCEPT !.leases[i] = l]
      PROVE  DoScriptRun(t) \in Table /\ Alike(t, DoScriptRun(t))
             /\ Spared(t, DoScriptRun(t))
  <2> DEFINE ls == [t.leases EXCEPT ![i] = l]
  <2>1. ls \in Seq(Lease) /\ Len(ls) = Len(t.leases)
        /\ (\A j \in 1..Len(t.leases) : ls[j] = IF j = i THEN l ELSE t.leases[j])
        /\ DoScriptRun(t) = [t EXCEPT !.leases = ls]
    BY <1>6, LeaseSet
  <2> HIDE DEF ls
  <2>2. DoScriptRun(t) \in Table /\ DoScriptRun(t).leases = ls
        /\ DoScriptRun(t).fileDirty = t.fileDirty
    BY <2>1 DEF Table
  <2> QED BY <1>6, <2>1, <2>2 DEF Alike, Spared, SameNames, Tied
<1>7. CASE t.old = <<>> /\ Renamed(t) # 0
  <2> DEFINE i == Renamed(t)  k == t.leases[i]
             l == [k EXCEPT !.oldName = NoName]
  <2>1. i \in 1..n /\ k \in Lease
    BY <1>3, <1>7, LeaseAt
  <2>2. DoScriptRun(t) = [t EXCEPT !.leases[i] = l]
    <3>1. DoScriptRun(t) = [t EXCEPT !.leases[i].oldName = NoName]
      BY <1>7 DEF DoScriptRun
    <3> QED BY <2>1, <3>1 DEF Table
  <2> HIDE DEF k, i
  <2>3. l \in Lease /\ l.addr = k.addr /\ l.name = k.name /\ l.clid = k.clid
        /\ Tied(l, k)
    BY <2>1 DEF Lease, Tied
  <2> HIDE DEF l
  <2> QED BY <1>6, <2>1, <2>2, <2>3 DEF k
<1>8. CASE t.old = <<>> /\ Renamed(t) = 0
  <2> DEFINE i == Announced(t)  k == t.leases[i]
             l == [k EXCEPT !.new = FALSE, !.changed = FALSE]
  <2>1. i \in 1..n /\ k \in Lease
    BY <1>4, <1>8, LeaseAt DEF NothingToRun
  <2>2. DoScriptRun(t) = [t EXCEPT !.leases[i] = l]
    <3>1. DoScriptRun(t) = [t EXCEPT !.leases[i].new = FALSE, !.leases[i].changed = FALSE]
      BY <1>8 DEF DoScriptRun
    <3> HIDE DEF i
    <3>2. t = [t EXCEPT !.leases = t.leases] /\ i \in DOMAIN t.leases
      BY <2>1 DEF Table
    <3> QED BY <3>1, <3>2
  <2> HIDE DEF k, i
  <2>3. l \in Lease /\ l.addr = k.addr /\ l.name = k.name /\ l.clid = k.clid
        /\ Tied(l, k)
    BY <2>1 DEF Lease, Tied
  <2> HIDE DEF l
  <2> QED BY <1>6, <2>1, <2>2, <2>3 DEF k
<1> QED
  BY <1>5, <1>7, <1>8

(* A new lease is the first one, with an address and nothing else. *)
LEMMA LeaseAllocateOK ==
    ASSUME NEW t \in Table, NEW a \in Addr
    PROVE  LET u == LeaseAllocate(t, a) IN
           /\ u \in Table /\ Len(u.leases) = Len(t.leases) + 1
           /\ u.leases[1].addr = a /\ u.leases[1].name = NoName /\ u.leases[1].clid = NoClid
           /\ u.fileDirty
           /\ \A j \in 2..Len(u.leases) : u.leases[j] = t.leases[j - 1]
<1> DEFINE l == [addr |-> a, hw |-> NoHw, clid |-> NoClid, name |-> NoName,
                 oldName |-> NoName, auth |-> FALSE, left |-> LongGone,
                 new |-> TRUE, changed |-> FALSE, seen |-> FALSE]
           ls == <<l>> \o t.leases
           u == LeaseAllocate(t, a)
<1>1. LongGone \in Left
  BY LeasesAssumption DEF Left, LongGone
<1>2. l \in Lease /\ l.addr = a /\ l.name = NoName /\ l.clid = NoClid
  BY <1>1 DEF Lease
<1>3. u = [t EXCEPT !.leases = ls, !.fileDirty = TRUE]
  BY DEF LeaseAllocate
<1> HIDE DEF l
<1>4. /\ ls \in Seq(Lease) /\ Len(ls) = Len(t.leases) + 1 /\ ls[1] = l
      /\ \A j \in 2..Len(ls) : ls[j] = t.leases[j - 1]
  BY <1>2 DEF Table
<1> HIDE DEF ls, u
<1>5. u \in Table /\ u.leases = ls /\ u.fileDirty
  BY <1>3, <1>4 DEF Table
<1> QED
  BY <1>2, <1>4, <1>5 DEF u

(* It takes an address that no other lease has. *)
LEMMA AllocatedSound ==
    ASSUME NEW t \in Sound, NEW a \in Addr, \A j \in 1..Len(t.leases) : t.leases[j].addr # a
    PROVE  LET u == LeaseAllocate(t, a) IN
           u \in Sound /\ (t \in Good /\ Len(t.leases) < DhcpMax => u \in Good)
<1> DEFINE u == LeaseAllocate(t, a)
<1>1. t \in Table /\ Unique(t)
  BY DEF Sound
<1>2. /\ u \in Table /\ Len(u.leases) = Len(t.leases) + 1
      /\ u.leases[1].addr = a /\ u.leases[1].name = NoName /\ u.leases[1].clid = NoClid
      /\ \A j \in 2..Len(u.leases) : u.leases[j] = t.leases[j - 1]
  BY <1>1, LeaseAllocateOK
<1>3. Len(t.leases) \in Nat /\ DhcpMax \in Nat
  BY <1>1, LeasesAssumption DEF Table
<1> HIDE DEF u
<1>4. \A j \in 1..Len(u.leases) : j = 1 \/ (j \in 2..Len(u.leases) /\ j - 1 \in 1..Len(t.leases))
  BY <1>2, <1>3
<1>5. Unique(u)
  <2> SUFFICES ASSUME NEW i \in 1..Len(u.leases), NEW j \in 1..Len(u.leases), i # j
               PROVE  /\ u.leases[i].addr # u.leases[j].addr
                      /\ u.leases[i].name # NoName => u.leases[i].name # u.leases[j].name
                      /\ u.leases[i].clid # NoClid => u.leases[i].clid # u.leases[j].clid
    BY DEF Unique
  <2>1. CASE i # 1 /\ j # 1
    <3> DEFINE g == i - 1  h == j - 1
    <3>1. g \in 1..Len(t.leases) /\ h \in 1..Len(t.leases) /\ g # h
      BY <1>2, <1>3, <2>1
    <3>2. u.leases[i] = t.leases[g] /\ u.leases[j] = t.leases[h]
      BY <1>2, <1>4, <2>1
    <3> HIDE DEF g, h
    <3> QED BY <1>1, <3>1, <3>2 DEF Unique
  <2>2. CASE i = 1 \/ j = 1
    <3>1. \A x \in 1..Len(u.leases) : x # 1 =>
             x - 1 \in 1..Len(t.leases) /\ u.leases[x] = t.leases[x - 1]
      BY <1>2, <1>4
    <3>2. \A x \in 1..Len(u.leases) : x # 1 => u.leases[x].addr # a
      BY <3>1
    <3> QED BY <1>2, <2>2, <3>2
  <2> QED BY <2>1, <2>2
<1> QED
  BY <1>2, <1>3, <1>5 DEF Sound, Good, u

(* A lease is given its machine; the identifier is that of the request, if it
   has one.                                                                  *)
Rehoused(t, u, i, hw, clid) ==
    /\ Len(u.leases) = Len(t.leases)
    /\ \A j \in 1..Len(t.leases) :
         /\ u.leases[j].addr = t.leases[j].addr
         /\ u.leases[j].name = t.leases[j].name
         /\ u.leases[j].clid = (IF j = i /\ clid # NoClid THEN clid ELSE t.leases[j].clid)
         /\ u.leases[j].hw = (IF j = i THEN hw ELSE t.leases[j].hw)
         /\ u.leases[j].left = t.leases[j].left
    /\ ~u.fileDirty => /\ ~t.fileDirty /\ t.leases[i].hw = hw
                        /\ u.leases[i].clid = t.leases[i].clid

LEMMA SetHwaddrOK ==
    ASSUME NEW t \in Table, NEW i \in 1..Len(t.leases), NEW hw \in Hw \cup {NoHw},
           NEW clid \in Clid \cup {NoClid}
    PROVE  LET u == SetHwaddr(t, i, hw, clid) IN
           u \in Table /\ Rehoused(t, u, i, hw, clid)
<1> DEFINE k == t.leases[i]
           newHw == hw # k.hw
           newClid == clid # NoClid /\ clid # k.clid
           c == k.changed \/ newHw
           d == IF clid # NoClid THEN clid ELSE k.clid
           l == [k EXCEPT !.hw = hw, !.changed = c, !.clid = d]
           ls == [t.leases EXCEPT ![i] = l]
           dirty == t.fileDirty \/ newHw \/ newClid
           u == SetHwaddr(t, i, hw, clid)
<1>1. k \in Lease
  BY LeaseAt
<1>2. u = [t EXCEPT !.leases = ls, !.fileDirty = dirty]
  BY DEF SetHwaddr, Table
<1>3. /\ c \in BOOLEAN /\ d \in Clid \cup {NoClid} /\ dirty \in BOOLEAN
      /\ ~dirty => ~t.fileDirty /\ k.hw = hw /\ d = k.clid
  BY <1>1 DEF Lease, Table
<1> HIDE DEF k, c, d, dirty
<1>4. l \in Lease /\ l.addr = k.addr /\ l.name = k.name /\ l.clid = d
      /\ l.hw = hw /\ l.left = k.left
  BY <1>1, <1>3 DEF Lease
<1> HIDE DEF l
<1>5. /\ ls \in Seq(Lease) /\ Len(ls) = Len(t.leases)
      /\ \A j \in 1..Len(t.leases) : ls[j] = IF j = i THEN l ELSE t.leases[j]
  BY <1>4, LeaseSet
<1> HIDE DEF ls, u
<1>6. u \in Table /\ u.leases = ls /\ u.fileDirty = dirty
  BY <1>2, <1>3, <1>5 DEF Table
<1> QED
  BY <1>3, <1>4, <1>5, <1>6 DEF Rehoused, u, k, d

(* It is not that of another lease. *)
LEMMA HwaddrSound ==
    ASSUME NEW t \in Sound, NEW i \in 1..Len(t.leases), NEW hw \in Hw \cup {NoHw},
           NEW clid \in Clid \cup {NoClid},
           \A j \in 1..Len(t.leases) : j # i /\ clid # NoClid => t.leases[j].clid # clid
    PROVE  LET u == SetHwaddr(t, i, hw, clid) IN
           /\ u \in Sound /\ (t \in Good => u \in Good)
           /\ Len(u.leases) = Len(t.leases)
<1> DEFINE u == SetHwaddr(t, i, hw, clid)
<1>1. t \in Table /\ Unique(t)
  BY DEF Sound
<1>2. u \in Table /\ Rehoused(t, u, i, hw, clid)
  BY <1>1, SetHwaddrOK
<1> HIDE DEF u
<1>3. Unique(u)
  BY <1>1, <1>2 DEF Unique, Rehoused
<1> QED
  BY <1>2, <1>3 DEF Rehoused, Sound, Good, u

(* A name given to a lease is taken from the one that had it. *)
LEMMA SetHostnameNamed ==
    ASSUME NEW t \in Named, NEW i \in 1..Len(t.leases), NEW name \in Name, NEW auth \in BOOLEAN
    PROVE  LET u == SetHostname(t, i, name, auth) IN
           /\ u \in Named /\ Spared(t, u)
           /\ (\A j \in 1..Len(t.leases) : t.leases[j].name # name) =>
                \A j \in 1..Len(t.leases) :
                   u.leases[j].name = IF j = i THEN name ELSE t.leases[j].name
<1> DEFINE n == Len(t.leases)
           S == {j \in 1..n : t.leases[j].name = name}
           holder == IF S # {} THEN Min(S) ELSE 0
           k == t.leases[i]
           o == IF k.name # NoName THEN k.name ELSE k.oldName
           renamed == [k EXCEPT !.oldName = o, !.name = name, !.auth = auth, !.changed = TRUE]
           marked == [k EXCEPT !.auth = auth]
           lost(j) == [t.leases[j] EXCEPT !.oldName = name, !.name = NoName]
           ms == [t.leases EXCEPT ![i] = marked]
           ls == [j \in DOMAIN t.leases |-> IF j = i THEN renamed
                                            ELSE IF j = holder THEN lost(j) ELSE t.leases[j]]
           u == SetHostname(t, i, name, auth)
           v == [t EXCEPT !.leases = ls, !.fileDirty = TRUE, !.dnsDirty = TRUE]
           w == [t EXCEPT !.leases = ms]
           free == \A j \in 1..n : t.leases[j].name # name
           Given(x) == \A j \in 1..n :
                          x.leases[j].name = IF j = i THEN name ELSE t.leases[j].name
<1>1. /\ t \in Table /\ NamesApart(t) /\ n \in Nat /\ DOMAIN t.leases = 1..n
      /\ \A j \in 1..n : t.leases[j] \in Lease
  BY DEF Named, Table
<1>2. S \in SUBSET (1..n) /\ k \in Lease
  BY <1>1
<1>3. holder \in 0..n /\ (holder = 0 => S = {}) /\ (holder # 0 => holder \in S)
  <2> HIDE DEF S, n
  <2> QED BY <1>1, <1>2, FirstPlace
<1>4. (u \in {t, w} /\ ~free) \/ (u = v /\ k.name # name)
  <2>1. SelectInSeq(t.leases, LAMBDA h : h.name = name) = holder
    BY DEF SelectInSeq
  <2>2. [t EXCEPT !.leases[i].auth = auth] = w
    BY <1>1 DEF Table
  <2>3. v = [t EXCEPT !.leases = [j \in DOMAIN @ |->
                                    IF j = i THEN renamed
                                    ELSE IF j = holder
                                    THEN [@[j] EXCEPT !.oldName = name, !.name = NoName]
                                    ELSE @[j]],
                      !.fileDirty = TRUE, !.dnsDirty = TRUE]
    OBVIOUS
  <2>4. holder # 0 \/ k.name = name => ~free
    <3> HIDE DEF holder
    <3> QED BY <1>2, <1>3
  <2> HIDE DEF holder, w, v, n, S, free
  <2> QED BY <2>1, <2>2, <2>3, <2>4 DEF SetHostname
<1>10. free => holder = 0
  <2> HIDE DEF holder
  <2> QED BY <1>2, <1>3
<1> HIDE DEF S, u, free
<1>5. w \in Table /\ Alike(t, w) /\ Spared(t, w)
  <2>1. marked \in Lease /\ marked.addr = k.addr /\ marked.name = k.name /\ marked.clid = k.clid
        /\ Tied(marked, k)
    <3> HIDE DEF k
    <3> QED BY <1>2 DEF Lease, Tied
  <2> HIDE DEF marked
  <2>2. ms \in Seq(Lease) /\ Len(ms) = n
        /\ \A j \in 1..n : ms[j] = IF j = i THEN marked ELSE t.leases[j]
    BY <1>1, <2>1, LeaseSet
  <2> HIDE DEF ms
  <2>3. w \in Table /\ w.leases = ms /\ w.fileDirty = t.fileDirty
    BY <1>1, <2>2 DEF Table
  <2> HIDE DEF w
  <2> QED BY <2>1, <2>2, <2>3 DEF Alike, Spared, SameNames, Tied
<1>6. ASSUME k.name # name
      PROVE  v \in Named /\ Spared(t, v) /\ (free => Given(v))
  <2>1. o \in Name \cup {NoName}
    BY <1>2 DEF Lease
  <2>2. /\ renamed \in Lease /\ renamed.addr = k.addr /\ renamed.name = name
        /\ renamed.clid = k.clid /\ Tied(renamed, k)
    <3> HIDE DEF k, o
    <3> QED BY <1>2, <2>1 DEF Lease, Tied
  <2> HIDE DEF renamed
  <2>3. ASSUME NEW j \in 1..n
        PROVE  /\ lost(j) \in Lease /\ lost(j).addr = t.leases[j].addr
               /\ lost(j).name = NoName /\ lost(j).clid = t.leases[j].clid
               /\ Tied(lost(j), t.leases[j])
    <3> DEFINE h == t.leases[j]
    <3>1. h \in Lease
      BY <1>1
    <3> HIDE DEF h
    <3>2. LET m == [h EXCEPT !.oldName = name, !.name = NoName] IN
          m \in Lease /\ m.addr = h.addr /\ m.name = NoName /\ m.clid = h.clid
          /\ Tied(m, h)
      BY <3>1 DEF Lease, Tied
    <3> QED BY <3>2 DEF h
  <2> HIDE DEF lost, holder
  <2>4. \A j \in 1..n : ls[j] = IF j = i THEN renamed
                                ELSE IF j = holder THEN lost(j) ELSE t.leases[j]
    BY <1>1
  <2>5. ls \in Seq(Lease) /\ Len(ls) = n
    BY <1>1, <2>2, <2>3
  <2> HIDE DEF ls
  <2>6. v \in Table /\ v.leases = ls /\ v.fileDirty
    BY <1>1, <2>5 DEF Table
  <2> HIDE DEF v
  <2>7. \A j \in 1..n : j # i => ls[j].name # name
    <3> SUFFICES ASSUME NEW j \in 1..n, j # i PROVE ls[j].name # name
      OBVIOUS
    <3>1. CASE j = holder
      BY <2>3, <2>4, <3>1, LeasesAssumption
    <3>2. CASE j # holder
      <4>1. ls[j] = t.leases[j]
        BY <2>4, <3>2
      <4>2. t.leases[j].name = name => j \in S
        BY DEF S
      <4>3. t.leases[j].name = name => holder # 0 /\ t.leases[holder].name = name /\ holder \in 1..n
        BY <1>2, <1>3, <4>2 DEF S
      <4>4. name # NoName
        BY LeasesAssumption
      <4> QED BY <1>1, <3>2, <4>1, <4>3, <4>4 DEF NamesApart
    <3> QED BY <3>1, <3>2
  <2>8. \A j \in 1..n : /\ ls[j].addr = t.leases[j].addr /\ ls[j].clid = t.leases[j].clid
                        /\ j # i => ls[j].name \in {t.leases[j].name, NoName}
                        /\ j = i => ls[j].name = name
                        /\ Tied(ls[j], t.leases[j])
    <3>1. \A j \in 1..n : Tied(t.leases[j], t.leases[j])
      BY DEF Tied
    <3> QED BY <2>2, <2>3, <2>4, <3>1
  <2>9. NamesApart(v)
    <3> SUFFICES ASSUME NEW j \in 1..n, NEW h \in 1..n, j # h, ls[j].name # NoName
                 PROVE  ls[j].name # ls[h].name
      BY <2>5, <2>6 DEF NamesApart
    <3>1. t.leases[j].name # NoName => t.leases[j].name # t.leases[h].name
      BY <1>1 DEF NamesApart
    <3> QED BY <2>7, <2>8, <3>1
  <2>10. free => Given(v)
    <3>1. ASSUME free, NEW j \in 1..n
          PROVE  v.leases[j].name = IF j = i THEN name ELSE t.leases[j].name
      BY <1>1, <1>10, <2>2, <2>4, <2>6, <3>1
    <3> QED BY <3>1
  <2> HIDE DEF Given
  <2> QED BY <2>5, <2>6, <2>8, <2>9, <2>10 DEF Named, Spared
<1> HIDE DEF Given
<1>7. ASSUME u \in {t, w} PROVE u \in Named /\ Spared(t, u)
  <2>1. Alike(t, u) /\ u \in Table /\ Spared(t, u)
    <3>1. Alike(t, t)
      BY DEF Alike
    <3> QED BY <1>1, <1>5, <1>7, <3>1, SparedSelf
  <2>2. NamesApart(u)
    BY <1>1, <2>1 DEF NamesApart, Alike
  <2> QED BY <2>1, <2>2 DEF Named
<1> QED
  BY <1>4, <1>6, <1>7 DEF u, free, Given

LEMMA SetHostnameOK ==
    ASSUME NEW t \in Sound, NEW i \in 1..Len(t.leases), NEW name \in Name, NEW auth \in BOOLEAN
    PROVE  LET u == SetHostname(t, i, name, auth) IN
           u \in Sound /\ (t \in Good => u \in Good) /\ Spared(t, u)
<1> DEFINE u == SetHostname(t, i, name, auth)
<1>1. t \in Named /\ Unique(t)
  BY DEF Sound, Named, NamesApart, Unique
<1>2. u \in Named /\ Spared(t, u)
  BY <1>1, SetHostnameNamed
<1> HIDE DEF u
<1>3. Unique(u)
  BY <1>1, <1>2 DEF Unique, Named, NamesApart, Spared, Tied
<1> QED
  BY <1>2, <1>3 DEF Sound, Good, Named, Spared, u

(* Pruning leaves leases of the table, none of which was pointed to. *)
LEMMA LeasePruneOK ==
    ASSUME NEW t \in Sound, NEW target
    PROVE  LET u == LeasePrune(t, target) IN
           /\ u \in Sound /\ (t \in Good => u \in Good)
           /\ Len(u.leases) \in 0..Len(t.leases)
           /\ \A j \in 1..Len(u.leases) : \E k \in 1..Len(t.leases) :
                k # target /\ ~Expired(t.leases[k]) /\ u.leases[j] = t.leases[k]
           /\ \A k \in 1..Len(t.leases) : k # target /\ ~Expired(t.leases[k]) =>
                \E j \in 1..Len(u.leases) : u.leases[j] = t.leases[k]
           /\ ~u.fileDirty => /\ ~t.fileDirty
                              /\ \A k \in 1..Len(t.leases) : k # target /\ ~Expired(t.leases[k])
<1> DEFINE n == Len(t.leases)
           out == {i \in DOMAIN t.leases : Expired(t.leases[i]) \/ i = target}
           kept == DOMAIN t.leases \ out
           ls == Sifted(t.leases, kept)
           os == Reverse(Sifted(t.leases, out)) \o t.old
           fd == t.fileDirty \/ out # {}
           dd == t.dnsDirty \/ \E i \in out : t.leases[i].name # NoName
           u == LeasePrune(t, target)
<1>1. /\ t \in Table /\ Unique(t) /\ n \in Nat /\ DOMAIN t.leases = 1..n
      /\ t.leases \in Seq(Lease) /\ t.old \in Seq(Lease)
  BY DEF Sound, Table
<1>2. u = [t EXCEPT !.leases = ls, !.old = os, !.fileDirty = fd, !.dnsDirty = dd]
  BY DEF LeasePrune
<1>3. /\ kept \in SUBSET (1..Len(t.leases)) /\ out \in SUBSET (1..Len(t.leases))
      /\ \A i \in kept : i # target /\ ~Expired(t.leases[i])
      /\ out = {} => \A i \in 1..Len(t.leases) : i # target /\ ~Expired(t.leases[i])
      /\ \A i \in 1..Len(t.leases) : i # target /\ ~Expired(t.leases[i]) => i \in kept
  BY <1>1
<1> HIDE DEF kept, out
<1>4. ls \in Seq(Lease) /\ SiftedFrom(ls, t.leases, kept)
  BY <1>1, <1>3, SiftedOK
<1>5. os \in Seq(Lease)
  <2>1. Sifted(t.leases, out) \in Seq(Lease)
    BY <1>1, <1>3, SiftedOK
  <2>2. Reverse(Sifted(t.leases, out)) \in Seq(Lease)
    BY <2>1, ReverseType
  <2> QED BY <1>1, <2>2
<1>6. PICK m \in 0..n : \E p \in [1..m -> 1..n] :
           Listed(p, m, kept) /\ ls = [j \in 1..m |-> t.leases[p[j]]]
  BY <1>4 DEF SiftedFrom
<1>7. PICK p \in [1..m -> 1..n] : Listed(p, m, kept) /\ ls = [j \in 1..m |-> t.leases[p[j]]]
  BY <1>6
<1> HIDE DEF ls, os, u
<1>8. fd \in BOOLEAN /\ dd \in BOOLEAN /\ (~fd => ~t.fileDirty /\ out = {})
  BY <1>1 DEF Table
<1> HIDE DEF fd, dd
<1>9. u \in Table /\ u.leases = ls /\ u.fileDirty = fd
  BY <1>1, <1>2, <1>4, <1>5, <1>8 DEF Table
<1>10. Len(ls) = m /\ m \in Nat /\ m <= n
  BY <1>1, <1>7
<1>11. ASSUME NEW i \in 1..m, NEW j \in 1..m, i # j PROVE p[i] # p[j]
  <2>1. p[i] < p[j] \/ p[j] < p[i]
    <3>1. i < j \/ j < i
      BY <1>10, <1>11
    <3> QED BY <1>7, <3>1 DEF Listed
  <2>2. p[i] \in Nat /\ p[j] \in Nat
    BY <1>1, <1>7
  <2> QED BY <2>1, <2>2
<1>12. Unique(u)
  <2> SUFFICES ASSUME NEW i \in 1..m, NEW j \in 1..m, i # j
               PROVE  /\ ls[i].addr # ls[j].addr
                      /\ ls[i].name # NoName => ls[i].name # ls[j].name
                      /\ ls[i].clid # NoClid => ls[i].clid # ls[j].clid
    BY <1>9, <1>10 DEF Unique
  <2>1. ls[i] = t.leases[p[i]] /\ ls[j] = t.leases[p[j]]
    BY <1>7
  <2>2. p[i] \in 1..n /\ p[j] \in 1..n /\ p[i] # p[j]
    BY <1>7, <1>11
  <2> QED BY <1>1, <2>1, <2>2 DEF Unique
<1>13. \A j \in 1..m : p[j] \in 1..n /\ p[j] # target /\ ~Expired(t.leases[p[j]])
                      /\ ls[j] = t.leases[p[j]]
  BY <1>3, <1>7 DEF Listed
<1>14. Len(t.leases) <= DhcpMax => m <= DhcpMax
  BY <1>1, <1>10, LeasesAssumption
<1>15. u \in Sound /\ (t \in Good => u \in Good)
  BY <1>9, <1>10, <1>12, <1>14 DEF Sound, Good
<1>16. \A k \in 1..n : k # target /\ ~Expired(t.leases[k]) =>
          \E j \in 1..m : ls[j] = t.leases[k]
  BY <1>3, <1>7 DEF Listed
<1> QED
  BY <1>3, <1>8, <1>9, <1>10, <1>13, <1>15, <1>16 DEF u

-----------------------------------------------------------------------------
(* What the DNS and the script are told *)

Announces(l) == l.new \/ l.changed

Gone(t, a) == \E j \in 1..Len(t.old) : t.old[j].addr = a

(* The script knows a lease, but for a name it will be told the lease lost. *)
Reported(l, v) ==
    /\ v[l.addr].hw = l.hw
    /\ IF l.oldName = NoName THEN v[l.addr].name = l.name ELSE l.name = NoName

(* What it knows of a lease is so, or the lease will be announced; nothing that
   is left to tell of a former lease takes it back.                         *)
Heeded(t, v) ==
    \A i \in 1..Len(t.leases) :
        Announces(t.leases[i]) \/ (Reported(t.leases[i], v) /\ ~Gone(t, t.leases[i].addr))

(* It knows no other address, or will be told that its lease is gone.       *)
Clear(t, v) ==
    \A a \in Addr : (\E i \in 1..Len(t.leases) : t.leases[i].addr = a) \/ Gone(t, a)
                     \/ v[a] = Unknown

Informed(t, v) == Heeded(t, v) /\ Clear(t, v)

(* The names of t, with their addresses and times, are names of u. *)
SameEntry(l, k) == l.addr = k.addr /\ l.name = k.name /\ l.left = k.left

Echoed(t, u) ==
    \A i \in 1..Len(t.leases) : t.leases[i].name # NoName =>
        \E j \in 1..Len(u.leases) : SameEntry(t.leases[i], u.leases[j])

(* An operation from t to u leaves to tell what there is to tell: the DNS takes
   the names from the leases again unless they are all there, and a script
   that will have been told what t is will have been told what u is.        *)
Tells(t, u) ==
    /\ ~u.dnsDirty => ~t.dnsDirty /\ Echoed(t, u)
    /\ \A v : Heeded(t, v) => Heeded(u, v)
    /\ \A v : Clear(t, v) => Clear(u, v)

LEMMA EchoedTrans ==
    ASSUME NEW t, NEW u, NEW v, Echoed(t, u), Echoed(u, v) PROVE Echoed(t, v)
<1>1. ASSUME NEW i \in 1..Len(t.leases), t.leases[i].name # NoName
      PROVE  \E k \in 1..Len(v.leases) : SameEntry(t.leases[i], v.leases[k])
  <2>1. PICK j \in 1..Len(u.leases) : SameEntry(t.leases[i], u.leases[j])
    BY <1>1 DEF Echoed
  <2>2. PICK k \in 1..Len(v.leases) : SameEntry(u.leases[j], v.leases[k])
    BY <1>1, <2>1 DEF Echoed, SameEntry
  <2> QED BY <2>1, <2>2 DEF SameEntry
<1> QED
  BY <1>1 DEF Echoed

LEMMA TellsSelf == ASSUME NEW t PROVE Tells(t, t)
BY DEF Tells, Echoed, SameEntry

LEMMA TellsTrans ==
    ASSUME NEW t, NEW u, NEW v, Tells(t, u), Tells(u, v) PROVE Tells(t, v)
BY EchoedTrans DEF Tells

(* A lease that becomes another of its address: what is not announced stays,
   or loses its name.                                                       *)
Heeds(k, l) ==
    /\ l.addr = k.addr
    /\ \/ Announces(l)
       \/ /\ ~Announces(k) /\ l.hw = k.hw
          /\ \/ l.name = k.name /\ l.oldName = k.oldName
             \/ l.name = NoName /\ l.oldName # NoName

HeedsAll(t, u) ==
    /\ Len(u.leases) = Len(t.leases)
    /\ \A j \in 1..Len(t.leases) : Heeds(t.leases[j], u.leases[j])
    /\ \A a : Gone(u, a) <=> Gone(t, a)

LEMMA HeedsEach ==
    ASSUME NEW t, NEW u, HeedsAll(t, u), NEW v
    PROVE  (Heeded(t, v) => Heeded(u, v)) /\ (Clear(t, v) => Clear(u, v))
<1>1. ASSUME Heeded(t, v), NEW i \in 1..Len(u.leases), ~Announces(u.leases[i])
      PROVE  Reported(u.leases[i], v) /\ ~Gone(u, u.leases[i].addr)
  <2> DEFINE k == t.leases[i]  l == u.leases[i]
  <2>1. Heeds(k, l) /\ (Announces(k) \/ (Reported(k, v) /\ ~Gone(t, k.addr)))
    BY <1>1 DEF HeedsAll, Heeded
  <2>2. ~Announces(l)
    BY <1>1
  <2> HIDE DEF k, l
  <2>3. Reported(l, v) /\ ~Gone(t, l.addr)
    BY <2>1, <2>2 DEF Heeds, Reported
  <2> QED BY <2>3 DEF l, HeedsAll
<1>2. Heeded(t, v) => Heeded(u, v)
  BY <1>1 DEF Heeded
<1>3. Clear(t, v) => Clear(u, v)
  BY DEF Clear, HeedsAll, Heeds
<1> QED
  BY <1>2, <1>3

(* An operation that leaves the former leases alone. *)
LEMMA TellsEach ==
    ASSUME NEW t, NEW u, u.old = t.old, Len(u.leases) = Len(t.leases),
           \A j \in 1..Len(t.leases) : Heeds(t.leases[j], u.leases[j]),
           ~u.dnsDirty => /\ ~t.dnsDirty
                          /\ \A j \in 1..Len(t.leases) :
                               SameEntry(t.leases[j], u.leases[j])
    PROVE  Tells(t, u)
<1>1. HeedsAll(t, u)
  BY DEF HeedsAll, Gone
<1>2. ~u.dnsDirty => ~t.dnsDirty /\ Echoed(t, u)
  BY DEF Echoed
<1> QED
  BY <1>1, <1>2, HeedsEach DEF Tells

(* One that does so to one lease. *)
LEMMA TellsOne ==
    ASSUME NEW t \in Table, NEW i \in 1..Len(t.leases), NEW l \in Lease, NEW fd, NEW dd,
           Heeds(t.leases[i], l),
           ~dd => ~t.dnsDirty /\ SameEntry(t.leases[i], l)
    PROVE  Tells(t, [t EXCEPT !.leases = [t.leases EXCEPT ![i] = l],
                              !.fileDirty = fd, !.dnsDirty = dd])
<1> DEFINE ls == [t.leases EXCEPT ![i] = l]
           u == [t EXCEPT !.leases = ls, !.fileDirty = fd, !.dnsDirty = dd]
<1>1. /\ Len(ls) = Len(t.leases)
      /\ \A j \in 1..Len(t.leases) : ls[j] = IF j = i THEN l ELSE t.leases[j]
  BY LeaseSet
<1> HIDE DEF ls
<1>2. u.leases = ls /\ u.old = t.old /\ u.dnsDirty = dd
  BY DEF Table
<1> HIDE DEF u
<1>3. \A j \in 1..Len(t.leases) : Heeds(t.leases[j], t.leases[j])
                                   /\ SameEntry(t.leases[j], t.leases[j])
  BY DEF Heeds, SameEntry
<1>4. Tells(t, u)
  BY <1>1, <1>2, <1>3, TellsEach
<1> QED
  BY <1>4 DEF u, ls

LEMMA SetExpiresTells ==
    ASSUME NEW t \in Table, NEW i \in 1..Len(t.leases), NEW left \in Left
    PROVE  Tells(t, SetExpires(t, i, left))
<1> DEFINE k == t.leases[i]
           l == [k EXCEPT !.left = left]
           u == [t EXCEPT !.leases = [t.leases EXCEPT ![i] = l],
                          !.fileDirty = TRUE, !.dnsDirty = TRUE]
<1>1. k \in Lease
  BY LeaseAt
<1>2. SetExpires(t, i, left) \in {t, u}
  BY DEF SetExpires, Table
<1>3. l \in Lease /\ Heeds(k, l)
  <2> HIDE DEF k
  <2> QED BY <1>1 DEF Lease, Heeds, Announces
<1> HIDE DEF l
<1>4. Tells(t, u)
  BY <1>3, TellsOne
<1> HIDE DEF u
<1> QED
  BY <1>2, <1>4, TellsSelf

LEMMA SetHwaddrTells ==
    ASSUME NEW t \in Table, NEW i \in 1..Len(t.leases), NEW hw \in Hw \cup {NoHw},
           NEW clid \in Clid \cup {NoClid}
    PROVE  Tells(t, SetHwaddr(t, i, hw, clid))
<1> DEFINE k == t.leases[i]
           newHw == hw # k.hw
           newClid == clid # NoClid /\ clid # k.clid
           c == k.changed \/ newHw
           d == IF clid # NoClid THEN clid ELSE k.clid
           l == [k EXCEPT !.hw = hw, !.changed = c, !.clid = d]
           dirty == t.fileDirty \/ newHw \/ newClid
           u == [t EXCEPT !.leases = [t.leases EXCEPT ![i] = l],
                          !.fileDirty = dirty, !.dnsDirty = t.dnsDirty]
<1>1. k \in Lease
  BY LeaseAt
<1>2. SetHwaddr(t, i, hw, clid) = u
  BY DEF SetHwaddr, Table
<1>3. l \in Lease /\ Heeds(k, l) /\ SameEntry(k, l)
  <2>1. d \in Clid \cup {NoClid} /\ c \in BOOLEAN
    BY <1>1 DEF Lease
  <2> HIDE DEF k, d
  <2> QED BY <1>1, <2>1 DEF Lease, Heeds, Announces, SameEntry
<1> HIDE DEF l
<1>4. Tells(t, u)
  BY <1>3, TellsOne
<1> QED
  BY <1>2, <1>4

(* There is more to announce of a lease than before. *)
LEMMA AnnouncedTells ==
    ASSUME NEW t \in Table, NEW i \in 1..Len(t.leases), NEW l \in Lease, l.changed,
           SameEntry(t.leases[i], l)
    PROVE  Tells(t, [t EXCEPT !.leases = [t.leases EXCEPT ![i] = l]])
<1> DEFINE u == [t EXCEPT !.leases = [t.leases EXCEPT ![i] = l],
                          !.fileDirty = t.fileDirty, !.dnsDirty = t.dnsDirty]
<1>1. u = [t EXCEPT !.leases = [t.leases EXCEPT ![i] = l]]
  BY DEF Table
<1>2. Heeds(t.leases[i], l)
  BY DEF Heeds, Announces, SameEntry
<1>3. Tells(t, u)
  BY <1>2, TellsOne
<1> QED
  BY <1>1, <1>3

LEMMA SetInterfaceTells ==
    ASSUME NEW t \in Table, NEW i \in 1..Len(t.leases)
    PROVE  Tells(t, SetInterface(t, i))
<1> DEFINE k == t.leases[i]
           l == [k EXCEPT !.seen = TRUE, !.changed = TRUE]
           u == [t EXCEPT !.leases = [t.leases EXCEPT ![i] = l]]
<1>1. k \in Lease
  BY LeaseAt
<1>2. SetInterface(t, i) \in {t, u}
  <2>1. [t EXCEPT !.leases[i].seen = TRUE, !.leases[i].changed = TRUE] = u
    BY DEF Table
  <2> HIDE DEF u
  <2> QED BY <2>1 DEF SetInterface
<1>3. l \in Lease /\ l.changed /\ SameEntry(k, l)
  <2> HIDE DEF k
  <2> QED BY <1>1 DEF Lease, SameEntry
<1> HIDE DEF l
<1>4. Tells(t, u)
  BY <1>3, AnnouncedTells
<1> HIDE DEF u
<1> QED
  BY <1>2, <1>4, TellsSelf

LEMMA MarkedTells ==
    ASSUME NEW t \in Table, NEW i \in 1..Len(t.leases)
    PROVE  Tells(t, [t EXCEPT !.leases[i].changed = TRUE])
<1> DEFINE k == t.leases[i]
           l == [k EXCEPT !.changed = TRUE]
           u == [t EXCEPT !.leases = [t.leases EXCEPT ![i] = l]]
<1>1. k \in Lease
  BY LeaseAt
<1>2. [t EXCEPT !.leases[i].changed = TRUE] = u
  BY DEF Table
<1>3. l \in Lease /\ l.changed /\ SameEntry(k, l)
  <2> HIDE DEF k
  <2> QED BY <1>1 DEF Lease, SameEntry
<1> HIDE DEF l
<1>4. Tells(t, u)
  BY <1>3, AnnouncedTells
<1> QED
  BY <1>2, <1>4

(* The lease that a name is taken from is not announced, but its old name is. *)
LEMMA SetHostnameTells ==
    ASSUME NEW t \in Table, NEW i \in 1..Len(t.leases), NEW name \in Name, NEW auth \in BOOLEAN
    PROVE  Tells(t, SetHostname(t, i, name, auth))
<1> DEFINE n == Len(t.leases)
           holder == SelectInSeq(t.leases, LAMBDA h : h.name = name)
           k == t.leases[i]
           o == IF k.name # NoName THEN k.name ELSE k.oldName
           renamed == [k EXCEPT !.oldName = o, !.name = name, !.auth = auth, !.changed = TRUE]
           marked == [k EXCEPT !.auth = auth]
           lost(j) == [t.leases[j] EXCEPT !.oldName = name, !.name = NoName]
           ls == [j \in DOMAIN t.leases |-> IF j = i THEN renamed
                                            ELSE IF j = holder THEN lost(j) ELSE t.leases[j]]
           u == SetHostname(t, i, name, auth)
           v == [t EXCEPT !.leases = ls, !.fileDirty = TRUE, !.dnsDirty = TRUE]
           w == [t EXCEPT !.leases = [t.leases EXCEPT ![i] = marked],
                          !.fileDirty = t.fileDirty, !.dnsDirty = t.dnsDirty]
<1>1. /\ n \in Nat /\ DOMAIN t.leases = 1..n /\ k \in Lease
      /\ \A j \in 1..n : t.leases[j] \in Lease
  BY DEF Table
<1>2. u \in {t, v, w}
  <2>1. [t EXCEPT !.leases[i].auth = auth] = w
    BY <1>1 DEF Table
  <2> HIDE DEF holder, w
  <2> QED BY <2>1 DEF SetHostname, holder
<1>3. Tells(t, w)
  <2>1. marked \in Lease /\ Heeds(k, marked) /\ SameEntry(k, marked)
    <3> HIDE DEF k
    <3> QED BY <1>1 DEF Lease, Heeds, Announces, SameEntry
  <2> HIDE DEF marked
  <2> QED BY <2>1, TellsOne
<1>4. Tells(t, v)
  <2>1. Heeds(k, renamed)
    <3> HIDE DEF k, o
    <3> QED BY <1>1 DEF Lease, Heeds, Announces
  <2>2. ASSUME NEW j \in 1..n PROVE Heeds(t.leases[j], lost(j))
    <3> DEFINE h == t.leases[j]
    <3>1. h \in Lease
      BY <1>1
    <3> HIDE DEF h
    <3>2. LET m == [h EXCEPT !.oldName = name, !.name = NoName] IN Heeds(h, m)
      BY <3>1, LeasesAssumption DEF Lease, Heeds, Announces
    <3> QED BY <3>2 DEF h
  <2> HIDE DEF renamed, lost, holder
  <2>3. \A j \in 1..n : ls[j] = IF j = i THEN renamed
                                ELSE IF j = holder THEN lost(j) ELSE t.leases[j]
    BY <1>1
  <2>4. Len(ls) = n
    BY <1>1
  <2> HIDE DEF ls
  <2>5. v.leases = ls /\ v.old = t.old /\ v.dnsDirty
    BY DEF Table
  <2> HIDE DEF v
  <2>6. \A j \in 1..n : Heeds(t.leases[j], t.leases[j])
    BY DEF Heeds
  <2>7. \A j \in 1..n : Heeds(t.leases[j], v.leases[j])
    BY <2>1, <2>2, <2>3, <2>5, <2>6
  <2> QED BY <2>4, <2>5, <2>7, TellsEach
<1> HIDE DEF u, v, w
<1> QED
  BY <1>2, <1>3, <1>4, TellsSelf DEF u

LEMMA LeaseAllocateTells ==
    ASSUME NEW t \in Table, NEW a \in Addr
    PROVE  Tells(t, LeaseAllocate(t, a))
<1> DEFINE u == LeaseAllocate(t, a)
           l == [addr |-> a, hw |-> NoHw, clid |-> NoClid, name |-> NoName,
                 oldName |-> NoName, auth |-> FALSE, left |-> LongGone,
                 new |-> TRUE, changed |-> FALSE, seen |-> FALSE]
           ls == <<l>> \o t.leases
<1>1. /\ Len(u.leases) = Len(t.leases) + 1
      /\ \A j \in 2..Len(u.leases) : u.leases[j] = t.leases[j - 1]
  BY LeaseAllocateOK
<1>2. u = [t EXCEPT !.leases = ls, !.fileDirty = TRUE] /\ l.new /\ ls[1] = l
  BY DEF LeaseAllocate, Table
<1> HIDE DEF l, ls
<1>3. u.old = t.old /\ u.dnsDirty = t.dnsDirty /\ Announces(u.leases[1])
  BY <1>2 DEF Table, Announces
<1>4. Len(t.leases) \in Nat
  BY DEF Table
<1> HIDE DEF u
<1>5. ASSUME NEW i \in 1..Len(t.leases)
      PROVE  i + 1 \in 1..Len(u.leases) /\ u.leases[i + 1] = t.leases[i]
  BY <1>1, <1>4
<1>6. ASSUME NEW i \in 1..Len(u.leases)
      PROVE  Announces(u.leases[i]) \/ \E j \in 1..Len(t.leases) : u.leases[i] = t.leases[j]
  <2>1. i = 1 \/ (i \in 2..Len(u.leases) /\ i - 1 \in 1..Len(t.leases))
    BY <1>1, <1>4
  <2> QED BY <1>1, <1>3, <2>1
<1>7. \A b : Gone(u, b) <=> Gone(t, b)
  BY <1>3 DEF Gone
<1>8. Echoed(t, u)
  BY <1>5 DEF Echoed, SameEntry
<1>9. ASSUME NEW v, Heeded(t, v) PROVE Heeded(u, v)
  BY <1>6, <1>7, <1>9 DEF Heeded
<1>10. ASSUME NEW v, Clear(t, v) PROVE Clear(u, v)
  <2>1. \A b : (\E i \in 1..Len(t.leases) : t.leases[i].addr = b)
                 => \E j \in 1..Len(u.leases) : u.leases[j].addr = b
    BY <1>5
  <2> QED BY <1>7, <1>10, <2>1 DEF Clear
<1> QED
  BY <1>3, <1>8, <1>9, <1>10 DEF Tells, u

(* What is pruned is told of as gone; no other lease has its address. *)
LEMMA LeasePruneTells ==
    ASSUME NEW t \in Sound, NEW target
    PROVE  Tells(t, LeasePrune(t, target))
<1> DEFINE n == Len(t.leases)
           out == {i \in DOMAIN t.leases : Expired(t.leases[i]) \/ i = target}
           kept == DOMAIN t.leases \ out
           ls == Sifted(t.leases, kept)
           gs == Sifted(t.leases, out)
           os == Reverse(gs) \o t.old
           fd == t.fileDirty \/ out # {}
           dd == t.dnsDirty \/ \E i \in out : t.leases[i].name # NoName
           u == LeasePrune(t, target)
<1>1. /\ t \in Table /\ Unique(t) /\ n \in Nat /\ DOMAIN t.leases = 1..n
      /\ t.leases \in Seq(Lease) /\ t.old \in Seq(Lease)
  BY DEF Sound, Table
<1>2. u = [t EXCEPT !.leases = ls, !.old = os, !.fileDirty = fd, !.dnsDirty = dd]
  BY DEF LeasePrune
<1>3. kept \in SUBSET (1..n) /\ out \in SUBSET (1..n) /\ \A i \in 1..n : i \in kept <=> i \notin out
  BY <1>1
<1>4. dd = (t.dnsDirty \/ \E i \in out : t.leases[i].name # NoName)
  OBVIOUS
<1> HIDE DEF kept, out, fd, dd
<1>5. ls \in Seq(Lease) /\ SiftedFrom(ls, t.leases, kept)
  BY <1>1, <1>3, SiftedOK
<1>6. gs \in Seq(Lease) /\ SiftedFrom(gs, t.leases, out)
  BY <1>1, <1>3, SiftedOK
<1> HIDE DEF ls, gs, n
<1>15. Len(t.leases) \in Nat
  BY <1>1 DEF n
<1>7. /\ \A j \in 1..Len(ls) : \E k \in kept : ls[j] = t.leases[k]
      /\ \A k \in kept : \E j \in 1..Len(ls) : ls[j] = t.leases[k]
  <2>1. PicksFrom(ls, t.leases, kept)
    BY <1>1, <1>5, SiftedPicks
  <2> QED BY <2>1 DEF PicksFrom
<1>8. /\ \A j \in 1..Len(gs) : \E k \in out : gs[j] = t.leases[k]
      /\ \A k \in out : \E j \in 1..Len(gs) : gs[j] = t.leases[k]
  <2>1. PicksFrom(gs, t.leases, out)
    BY <1>1, <1>6, SiftedPicks
  <2> QED BY <2>1 DEF PicksFrom
<1>9. \A a : (\E j \in 1..Len(os) : os[j].addr = a) <=>
             (\E k \in out : t.leases[k].addr = a) \/ Gone(t, a)
  <2> DEFINE rs == Reverse(gs)
  <2>1. rs \in Seq(Lease) /\ Range(rs) = Range(gs)
    BY <1>6, ReverseType, ReverseRange
  <2> HIDE DEF rs
  <2>2. \A x : (\E j \in 1..Len(rs) : rs[j] = x) <=> (\E j \in 1..Len(gs) : gs[j] = x)
    <3>1. \A s \in Seq(Lease) : Range(s) = {s[j] : j \in 1..Len(s)}
      BY DEF Range
    <3> QED BY ONLY <1>6, <2>1, <3>1
  <2>3. /\ \A j \in 1..Len(os) :
             \/ \E i \in 1..Len(rs) : os[j] = rs[i]
             \/ \E i \in 1..Len(t.old) : os[j] = t.old[i]
        /\ \A i \in 1..Len(rs) : \E j \in 1..Len(os) : os[j] = rs[i]
        /\ \A i \in 1..Len(t.old) : \E j \in 1..Len(os) : os[j] = t.old[i]
    <3> DEFINE o == t.old
    <3>1. o \in Seq(Lease) /\ os = rs \o o
      BY <1>1 DEF rs
    <3> HIDE DEF o, os
    <3>2. /\ Len(rs) \in Nat /\ Len(o) \in Nat /\ Len(os) = Len(rs) + Len(o)
          /\ \A j \in 1..Len(os) : os[j] = IF j <= Len(rs) THEN rs[j] ELSE o[j - Len(rs)]
      BY <2>1, <3>1
    <3>3. ASSUME NEW j \in 1..Len(os)
          PROVE  \/ \E i \in 1..Len(rs) : os[j] = rs[i]
                 \/ \E i \in 1..Len(o) : os[j] = o[i]
      <4>1. CASE j <= Len(rs)
        BY <3>2, <4>1
      <4>2. CASE j > Len(rs)
        <5>1. j - Len(rs) \in 1..Len(o) /\ os[j] = o[j - Len(rs)]
          BY <3>2, <4>2
        <5> QED BY <5>1
      <4> QED BY <3>2, <4>1, <4>2
    <3>4. ASSUME NEW i \in 1..Len(rs) PROVE i \in 1..Len(os) /\ os[i] = rs[i]
      BY <3>2
    <3>5. ASSUME NEW i \in 1..Len(o)
          PROVE  Len(rs) + i \in 1..Len(os) /\ os[Len(rs) + i] = o[i]
      BY <3>2
    <3> QED BY <3>3, <3>4, <3>5 DEF o
  <2> HIDE DEF os
  <2>4. \A a : (\E i \in 1..Len(rs) : rs[i].addr = a) <=>
               (\E i \in 1..Len(gs) : gs[i].addr = a)
    BY ONLY <2>2
  <2>5. \A a : (\E i \in 1..Len(gs) : gs[i].addr = a) <=>
               (\E k \in out : t.leases[k].addr = a)
    BY ONLY <1>8
  <2>6. \A a : (\E j \in 1..Len(os) : os[j].addr = a) <=>
               \/ \E i \in 1..Len(rs) : rs[i].addr = a
               \/ \E i \in 1..Len(t.old) : t.old[i].addr = a
    <3>1. ASSUME NEW j \in 1..Len(os)
          PROVE  \/ \E i \in 1..Len(rs) : rs[i].addr = os[j].addr
                 \/ \E i \in 1..Len(t.old) : t.old[i].addr = os[j].addr
      BY <2>3
    <3>2. ASSUME NEW i \in 1..Len(rs) PROVE \E j \in 1..Len(os) : os[j].addr = rs[i].addr
      BY <2>3
    <3>3. ASSUME NEW i \in 1..Len(t.old) PROVE \E j \in 1..Len(os) : os[j].addr = t.old[i].addr
      BY <2>3
    <3>4. ASSUME NEW a, NEW j \in 1..Len(os), os[j].addr = a
          PROVE  \/ \E i \in 1..Len(rs) : rs[i].addr = a
                 \/ \E i \in 1..Len(t.old) : t.old[i].addr = a
      BY <3>1, <3>4
    <3>5. ASSUME NEW a, \/ \E i \in 1..Len(rs) : rs[i].addr = a
                       \/ \E i \in 1..Len(t.old) : t.old[i].addr = a
          PROVE  \E j \in 1..Len(os) : os[j].addr = a
      BY <3>2, <3>3, <3>5
    <3> QED BY <3>4, <3>5
  <2> QED BY ONLY <2>4, <2>5, <2>6 DEF Gone
<1>10. u.leases = ls /\ u.old = os /\ u.dnsDirty = dd
  BY <1>1, <1>2 DEF Table
<1> HIDE DEF u, os
<1>11. \A a : Gone(u, a) <=> (\E k \in out : t.leases[k].addr = a) \/ Gone(t, a)
  BY <1>9, <1>10 DEF Gone
<1>12. ASSUME ~u.dnsDirty PROVE ~t.dnsDirty /\ Echoed(t, u)
  BY <1>3, <1>4, <1>7, <1>10, <1>12 DEF Echoed, SameEntry, n
<1>13. ASSUME NEW v, Heeded(t, v) PROVE Heeded(u, v)
  <2> SUFFICES ASSUME NEW i \in 1..Len(ls), ~Announces(ls[i])
               PROVE  Reported(ls[i], v) /\ ~Gone(u, ls[i].addr)
    BY <1>10 DEF Heeded
  <2>1. PICK k \in kept : ls[i] = t.leases[k]
    BY <1>7
  <2>2. k \in 1..n /\ Reported(ls[i], v) /\ ~Gone(t, ls[i].addr)
    BY <1>3, <1>13, <2>1 DEF Heeded, n
  <2>3. \A h \in out : t.leases[h].addr # ls[i].addr
    BY <1>1, <1>3, <2>1, <2>2 DEF Unique, n
  <2> QED BY <1>11, <2>2, <2>3
<1>14. ASSUME NEW v, Clear(t, v) PROVE Clear(u, v)
  <2>1. \A a : (\E i \in 1..n : t.leases[i].addr = a)
               => (\E j \in 1..Len(ls) : ls[j].addr = a) \/ Gone(u, a)
    BY <1>3, <1>7, <1>11
  <2> QED BY <1>10, <1>11, <1>14, <2>1 DEF Clear, n
<1> QED
  BY <1>12, <1>13, <1>14 DEF Tells, u

(* An operation that leaves nothing untold keeps a lease or will tell that it is
   gone.                                                                    *)
LEMMA ClearKnown ==
    ASSUME NEW t, NEW u, \A v : Clear(t, v) => Clear(u, v), NEW a \in Addr,
           \E i \in 1..Len(t.leases) : t.leases[i].addr = a
    PROVE  (\E j \in 1..Len(u.leases) : u.leases[j].addr = a) \/ Gone(u, a)
<1>1. PICK x : x # Unknown
  <2> DEFINE y == {}  z == {{}}
  <2>1. y # z
    OBVIOUS
  <2> HIDE DEF y, z
  <2>2. y # Unknown \/ z # Unknown
    BY <2>1
  <2> QED BY <2>2
<1> DEFINE v == [b \in Addr |-> IF b = a THEN x ELSE Unknown]
<1>2. Clear(t, v)
  BY DEF Clear
<1>3. Clear(u, v)
  BY <1>2
<1> QED
  BY <1>1, <1>3 DEF Clear

-----------------------------------------------------------------------------
(* The file *)

LEMMA LinesOK ==
    ASSUME NEW t \in Good
    PROVE  /\ Lines(t) \in Seq(Stored) /\ Len(Lines(t)) = Len(t.leases)
           /\ Len(Lines(t)) <= DhcpMax /\ FileUnique(Lines(t))
<1> DEFINE n == Len(t.leases)
           line(l) == [addr |-> l.addr, hw |-> l.hw, clid |-> l.clid, name |-> l.name,
                       left |-> l.left]
<1>1. /\ t \in Table /\ Unique(t) /\ n \in Nat /\ DOMAIN t.leases = 1..n /\ n <= DhcpMax
  BY DEF Good, Sound, Table
<1>2. ASSUME NEW l \in Lease
      PROVE  line(l) \in Stored /\ line(l).addr = l.addr /\ line(l).clid = l.clid
  BY DEF Lease, Stored
<1>3. Lines(t) = [i \in 1..n |-> line(t.leases[i])]
  BY <1>1 DEF Lines
<1>4. \A i \in 1..n : t.leases[i] \in Lease
  BY <1>1, LeaseAt
<1> HIDE DEF line
<1>5. /\ Lines(t) \in Seq(Stored) /\ Len(Lines(t)) = n
      /\ \A i \in 1..n : Lines(t)[i].addr = t.leases[i].addr /\ Lines(t)[i].clid = t.leases[i].clid
  BY <1>1, <1>2, <1>3, <1>4
<1> QED
  BY <1>1, <1>5 DEF FileUnique, Unique

(* A file that is cut short is a file of fewer leases. *)
LEMMA FileCut ==
    ASSUME NEW f \in Seq(Stored), Len(f) <= DhcpMax, FileUnique(f), NEW n \in 0..Len(f)
    PROVE  LET g == SubSeq(f, 1, n) IN
           g \in Seq(Stored) /\ Len(g) <= DhcpMax /\ FileUnique(g)
<1> DEFINE g == SubSeq(f, 1, n)
<1>1. /\ Len(f) \in Nat /\ g \in Seq(Stored) /\ Len(g) = n /\ \A i \in 1..n : g[i] = f[i]
  OBVIOUS
<1> HIDE DEF g
<1>2. n <= DhcpMax
  BY <1>1, LeasesAssumption
<1>3. \A i \in 1..n : i \in 1..Len(f)
  BY <1>1
<1> QED
  BY <1>1, <1>2, <1>3 DEF FileUnique, g

LEMMA NextAlarmOK ==
    ASSUME NEW t \in Table, NEW alarm0 \in Nat \cup {NoAlarm}, NEW failed \in BOOLEAN
    PROVE  NextAlarm(t, alarm0, failed) \in Nat \cup {NoAlarm}
<1> DEFINE ends == {t.leases[i].left : i \in DOMAIN t.leases} \ {Never}
           events == {left + Slop : left \in ends} \cup IF failed THEN {Retry} ELSE {}
           shifted == {e + 1 : e \in events}
           next == CHOOSE e \in events : \A f \in events : e <= f
<1>1. \A left \in ends : left \in LongGone..MaxLeft
  <2>1. ASSUME NEW i \in DOMAIN t.leases PROVE t.leases[i].left \in Left
    <3>1. t.leases[i] \in Lease
      BY DEF Table
    <3> QED BY <3>1 DEF Lease
  <2> QED BY <2>1 DEF Left
<1>2. Slop \in Nat /\ Retry \in Nat
  BY LeasesAssumption
<1> HIDE DEF ends
<1>3. \A e \in events : e \in Int /\ e + 1 \in Nat
  BY <1>1, <1>2 DEF LongGone
<1> HIDE DEF events
<1>4. ASSUME events # {} PROVE next \in events
  <2>1. shifted \in SUBSET Nat /\ shifted # {}
    BY <1>3, <1>4
  <2>2. Min(shifted) \in shifted /\ \A x \in shifted : Min(shifted) <= x
    <3> HIDE DEF shifted
    <3> QED BY <2>1, MinInSet
  <2>3. PICK e \in events : Min(shifted) = e + 1
    BY <2>2
  <2>4. \A f \in events : e + 1 <= f + 1
    BY <2>2, <2>3
  <2>5. \A f \in events : e <= f
    BY <1>3, <2>4
  <2> QED BY <2>5
<1> HIDE DEF next
<1>5. NextAlarm(t, alarm0, failed) = IF events = {} THEN alarm0
                                    ELSE IF next > 0 THEN next ELSE NoAlarm
  BY DEF NextAlarm, events, ends, next
<1> QED
  BY <1>3, <1>4, <1>5

(* What is found after the file is written, or is not. *)
LEMMA LeaseUpdateFileOK ==
    ASSUME NEW t \in Good, NEW f \in Seq(Stored), Len(f) <= DhcpMax, FileUnique(f),
           NEW alarm0 \in Nat \cup {NoAlarm}, NEW mayFail \in BOOLEAN,
           NEW o \in LeaseUpdateFile(t, f, alarm0, mayFail)
    PROVE  /\ o.t \in Good /\ Alike(t, o.t)
           /\ o.file \in Seq(Stored) /\ Len(o.file) <= DhcpMax /\ FileUnique(o.file)
           /\ o.alarm \in Nat \cup {NoAlarm}
<1> DEFINE stopped(g) == [t |-> t, file |-> g, alarm |-> NextAlarm(t, alarm0, TRUE)]
           clean == [t EXCEPT !.fileDirty = FALSE]
           done == [t |-> clean, file |-> IF t.fileDirty THEN Lines(t) ELSE f,
                    alarm |-> NextAlarm(t, alarm0, FALSE)]
<1>1. t \in Table /\ clean \in Table /\ Alike(t, clean) /\ Alike(t, t)
  BY DEF Good, Sound, Table, Alike
<1>2. clean \in Good
  BY <1>1, AlikeSound DEF Good
<1>3. /\ Lines(t) \in Seq(Stored) /\ Len(Lines(t)) = Len(t.leases)
      /\ Len(Lines(t)) <= DhcpMax /\ FileUnique(Lines(t))
  BY LinesOK
<1>4. NextAlarm(t, alarm0, TRUE) \in Nat \cup {NoAlarm}
      /\ NextAlarm(t, alarm0, FALSE) \in Nat \cup {NoAlarm}
  BY <1>1, NextAlarmOK
<1> HIDE DEF clean
<1>5. o = done \/ o = stopped(f) \/ \E n \in 0..Len(t.leases) : o = stopped(SubSeq(Lines(t), 1, n))
  BY DEF LeaseUpdateFile, clean
<1>6. CASE o = done
  BY <1>1, <1>2, <1>3, <1>4, <1>6
<1>7. ASSUME NEW n \in 0..Len(t.leases), o = stopped(SubSeq(Lines(t), 1, n))
      PROVE  /\ o.t \in Good /\ Alike(t, o.t)
             /\ o.file \in Seq(Stored) /\ Len(o.file) <= DhcpMax /\ FileUnique(o.file)
             /\ o.alarm \in Nat \cup {NoAlarm}
  <2> DEFINE g == SubSeq(Lines(t), 1, n)
  <2>1. g \in Seq(Stored) /\ Len(g) <= DhcpMax /\ FileUnique(g)
    BY <1>3, FileCut
  <2> HIDE DEF g
  <2>2. o.t = t /\ o.file = g /\ o.alarm = NextAlarm(t, alarm0, TRUE)
    BY <1>7 DEF g
  <2> QED BY <1>1, <1>4, <2>1, <2>2
<1>8. CASE o = stopped(f)
  BY <1>1, <1>4, <1>8
<1> QED
  BY <1>5, <1>6, <1>7, <1>8

-----------------------------------------------------------------------------
(* Reading the file at the start *)

LEMMA AllocatedNamed ==
    ASSUME NEW t \in Named, NEW a \in Addr PROVE LeaseAllocate(t, a) \in Named
<1> DEFINE u == LeaseAllocate(t, a)
<1>1. t \in Table /\ NamesApart(t) /\ Len(t.leases) \in Nat
  BY DEF Named, Table
<1>2. /\ u \in Table /\ Len(u.leases) = Len(t.leases) + 1 /\ u.leases[1].name = NoName
      /\ \A j \in 2..Len(u.leases) : u.leases[j] = t.leases[j - 1]
  BY <1>1, LeaseAllocateOK
<1> HIDE DEF u
<1>3. ASSUME NEW i \in 1..Len(u.leases), NEW j \in 1..Len(u.leases), i # j,
             u.leases[i].name # NoName
      PROVE  u.leases[i].name # u.leases[j].name
  <2>1. i \in 2..Len(u.leases) /\ i - 1 \in 1..Len(t.leases)
    BY <1>1, <1>2, <1>3
  <2>2. CASE j = 1
    BY <1>2, <1>3, <2>2
  <2>3. CASE j # 1
    <3> DEFINE g == i - 1  h == j - 1
    <3>1. h \in 1..Len(t.leases) /\ g \in 1..Len(t.leases) /\ g # h /\ j \in 2..Len(u.leases)
      BY <1>1, <1>2, <1>3, <2>1, <2>3
    <3>2. u.leases[i] = t.leases[g] /\ u.leases[j] = t.leases[h]
      BY <1>2, <2>1, <3>1
    <3> HIDE DEF g, h
    <3> QED BY <1>1, <1>3, <3>1, <3>2 DEF NamesApart
  <2> QED BY <2>2, <2>3
<1> QED
  BY <1>2, <1>3 DEF Named, NamesApart, u

(* A line of the file is a lease before those of the lines read before it. *)
LEMMA AlikeNamed ==
    ASSUME NEW t \in Named, NEW u \in Table, Alike(t, u) PROVE u \in Named
BY DEF Named, NamesApart, Alike

LEMMA ReadLeaseOK ==
    ASSUME NEW t \in Named, NEW s \in Stored
    PROVE  LET u == ReadLease(t, s) IN
           /\ u \in Named /\ Len(u.leases) = Len(t.leases) + 1
           /\ Tied(u.leases[1], s)
           /\ \A j \in 2..Len(u.leases) : Tied(u.leases[j], t.leases[j - 1])
           /\ (\A j \in 1..Len(t.leases) : s.name # NoName => t.leases[j].name # s.name) =>
                /\ u.leases[1].name = s.name
                /\ \A j \in 2..Len(u.leases) : u.leases[j].name = t.leases[j - 1].name
<1> DEFINE one   == LeaseAllocate(t, s.addr)
           timed == [one EXCEPT !.leases[1].left = s.left]
           two   == SetHwaddr(timed, 1, s.hw, s.clid)
           three == IF s.name # NoName THEN SetHostname(two, 1, s.name, FALSE) ELSE two
           u     == ReadLease(t, s)
           n     == Len(t.leases) + 1
           free  == \A j \in 1..Len(t.leases) : s.name # NoName => t.leases[j].name # s.name
           Given(x, name) == /\ x.leases[1].name = name
                             /\ \A j \in 2..n : x.leases[j].name = t.leases[j - 1].name
<1>1. /\ s.addr \in Addr /\ s.hw \in Hw \cup {NoHw} /\ s.clid \in Clid \cup {NoClid}
      /\ s.name \in Name \cup {NoName} /\ s.left \in Left
  BY DEF Stored
<1>2. t \in Table /\ Len(t.leases) \in Nat
  BY DEF Named, Table
<1>3. /\ one \in Named /\ one \in Table /\ Len(one.leases) = n
      /\ one.leases[1].addr = s.addr /\ one.leases[1].clid = NoClid
      /\ one.leases[1].name = NoName
      /\ \A j \in 2..n : one.leases[j] = t.leases[j - 1]
  BY <1>1, <1>2, AllocatedNamed, LeaseAllocateOK
<1> HIDE DEF one
<1>4. /\ timed \in Named /\ timed \in Table /\ Alike(one, timed)
      /\ timed.leases[1].left = s.left
      /\ \A j \in 2..n : timed.leases[j] = one.leases[j]
  <2> DEFINE k == one.leases[1]
             l == [k EXCEPT !.left = s.left]
             ls == [one.leases EXCEPT ![1] = l]
  <2>1. 1 \in 1..Len(one.leases)
    BY <1>2, <1>3
  <2>2. k \in Lease
    BY <1>3, <2>1, LeaseAt
  <2>3. /\ l \in Lease /\ l.addr = k.addr /\ l.name = k.name /\ l.clid = k.clid
        /\ l.left = s.left
    <3> HIDE DEF k
    <3> QED BY <1>1, <2>2 DEF Lease
  <2>4. timed = [one EXCEPT !.leases = ls]
    BY <1>3 DEF Table
  <2> HIDE DEF l
  <2>5. ls \in Seq(Lease) /\ Len(ls) = Len(one.leases)
        /\ \A j \in 1..Len(one.leases) : ls[j] = IF j = 1 THEN l ELSE one.leases[j]
    BY <1>3, <2>1, <2>3, LeaseSet
  <2> HIDE DEF ls, timed
  <2>6. timed \in Table /\ timed.leases = ls
    BY <1>3, <2>4, <2>5 DEF Table
  <2>7. Alike(one, timed)
    BY <2>3, <2>5, <2>6 DEF Alike
  <2>8. timed.leases[1].left = s.left
    BY <2>1, <2>3, <2>5, <2>6
  <2>9. \A j \in 2..n : timed.leases[j] = one.leases[j]
    <3>1. \A j \in 2..n : j \in 1..Len(one.leases) /\ j # 1
      BY <1>2, <1>3
    <3> HIDE DEF n
    <3> QED BY <2>5, <2>6, <3>1
  <2>10. timed \in Named
    BY <1>3, <2>6, <2>7, AlikeNamed
  <2> QED BY <2>6, <2>7, <2>8, <2>9, <2>10
<1> HIDE DEF timed
<1>5. /\ two \in Named /\ two \in Table /\ Len(two.leases) = n
      /\ Tied(two.leases[1], s)
      /\ \A j \in 2..n : Tied(two.leases[j], t.leases[j - 1])
      /\ Given(two, NoName)
  <2>1. 1 \in 1..n /\ Len(timed.leases) = n /\ \A j \in 2..n : j \in 1..n /\ j # 1
    BY <1>2, <1>3, <1>4 DEF Alike
  <2> HIDE DEF n
  <2>2. two \in Table /\ Rehoused(timed, two, 1, s.hw, s.clid)
    <3>1. 1 \in 1..Len(timed.leases)
      BY <2>1
    <3> QED BY <1>1, <1>4, <3>1, SetHwaddrOK
  <2> HIDE DEF two
  <2>3. two \in Named
    BY <1>4, <2>1, <2>2 DEF Named, NamesApart, Rehoused
  <2>4. Tied(two.leases[1], s)
    BY <1>3, <1>4, <2>1, <2>2 DEF Alike, Rehoused, Tied
  <2>5. ASSUME NEW j \in 2..n PROVE Tied(two.leases[j], t.leases[j - 1])
    <3>1. j \in 1..n /\ j # 1 /\ timed.leases[j] = t.leases[j - 1]
      BY <1>3, <1>4, <2>1
    <3> QED BY <2>1, <2>2, <3>1 DEF Rehoused, Tied
  <2>6. Given(two, NoName)
    <3>1. \A j \in 1..n : two.leases[j].name = timed.leases[j].name
      BY <2>1, <2>2 DEF Rehoused
    <3>2. \A j \in 2..n : timed.leases[j] = t.leases[j - 1]
      BY <1>3, <1>4
    <3>3. timed.leases[1].name = NoName
      BY <1>3, <1>4, <2>1 DEF Alike
    <3> QED BY <2>1, <3>1, <3>2, <3>3
  <2> HIDE DEF Given
  <2> QED BY <2>1, <2>2, <2>3, <2>4, <2>5, <2>6 DEF Rehoused
<1> HIDE DEF two, free
<1>6. /\ three \in Named /\ three \in Table /\ Len(three.leases) = n
      /\ Tied(three.leases[1], s) /\ \A j \in 2..n : Tied(three.leases[j], t.leases[j - 1])
      /\ free => Given(three, s.name)
  <2>1. 1 \in 1..n /\ \A j \in 2..n : j \in 1..n
    BY <1>2
  <2>2. CASE s.name = NoName
    <3>1. three = two
      BY <2>2
    <3> HIDE DEF three, Given
    <3> QED BY <1>5, <2>2, <3>1
  <2>3. CASE s.name # NoName
    <3>1. three = SetHostname(two, 1, s.name, FALSE) /\ s.name \in Name
      BY <1>1, <2>3
    <3> HIDE DEF three, n
    <3>2. /\ three \in Named /\ Spared(two, three)
          /\ (\A j \in 1..Len(two.leases) : two.leases[j].name # s.name) =>
               \A j \in 1..Len(two.leases) :
                  three.leases[j].name = IF j = 1 THEN s.name ELSE two.leases[j].name
      <4> DEFINE name == s.name  auth == FALSE
      <4>1. two \in Named /\ 1 \in 1..Len(two.leases) /\ name \in Name /\ auth \in BOOLEAN
            /\ three = SetHostname(two, 1, name, auth)
        BY <1>5, <2>1, <3>1
      <4> HIDE DEF name, auth
      <4>2. /\ three \in Named /\ Spared(two, three)
            /\ (\A j \in 1..Len(two.leases) : two.leases[j].name # name) =>
                 \A j \in 1..Len(two.leases) :
                    three.leases[j].name = IF j = 1 THEN name ELSE two.leases[j].name
        BY ONLY <4>1, SetHostnameNamed
      <4> QED BY <4>2 DEF name
    <3>3. Len(three.leases) = n /\ \A j \in 1..n : Tied(three.leases[j], two.leases[j])
      BY <1>5, <3>2 DEF Spared
    <3>4. Tied(three.leases[1], s)
      BY <1>5, <2>1, <3>3 DEF Tied
    <3>5. \A j \in 2..n : Tied(three.leases[j], t.leases[j - 1])
      BY <1>5, <2>1, <3>3 DEF Tied
    <3>6. ASSUME free PROVE Given(three, s.name)
      <4>1. ASSUME NEW j \in 1..n PROVE two.leases[j].name # s.name
        <5>1. CASE j = 1
          BY <1>5, <2>3, <5>1
        <5>2. CASE j # 1
          <6> DEFINE h == j - 1
          <6>1. j \in 2..n /\ h \in 1..Len(t.leases)
            BY <1>2, <5>2 DEF n
          <6>2. two.leases[j].name = t.leases[h].name
            BY <1>5, <6>1
          <6> HIDE DEF h
          <6> QED BY <2>3, <3>6, <6>1, <6>2 DEF free
        <5> QED BY <5>1, <5>2
      <4>2. \A j \in 1..n : three.leases[j].name = IF j = 1 THEN s.name ELSE two.leases[j].name
        BY <1>5, <3>2, <4>1
      <4>3. \A j \in 2..n : j # 1
        OBVIOUS
      <4> QED BY <1>5, <2>1, <4>2, <4>3
    <3> HIDE DEF Given
    <3> QED BY <3>2, <3>3, <3>4, <3>5, <3>6 DEF Named
  <2> QED BY <2>2, <2>3
<1> HIDE DEF three
<1>7. u \in Named /\ Alike(three, u) /\ \A j \in 1..n : Tied(u.leases[j], three.leases[j])
  <2> DEFINE k == three.leases[1]
             l == [k EXCEPT !.new = FALSE, !.changed = FALSE]
             ls == [three.leases EXCEPT ![1] = l]
  <2>1. 1 \in 1..Len(three.leases)
    BY <1>2, <1>6
  <2>2. k \in Lease
    BY <1>6, <2>1, LeaseAt
  <2>3. /\ l \in Lease /\ l.addr = k.addr /\ l.name = k.name /\ l.clid = k.clid
        /\ Tied(l, k)
    <3> HIDE DEF k
    <3> QED BY <2>2 DEF Lease, Tied
  <2>4. u = [three EXCEPT !.leases = ls]
    <3>1. u = [three EXCEPT !.leases[1].new = FALSE, !.leases[1].changed = FALSE]
      BY DEF ReadLease, three, two, timed, one
    <3> HIDE DEF u
    <3> QED BY <1>6, <3>1 DEF Table
  <2> HIDE DEF l
  <2>5. ls \in Seq(Lease) /\ Len(ls) = Len(three.leases)
        /\ \A j \in 1..Len(three.leases) : ls[j] = IF j = 1 THEN l ELSE three.leases[j]
    BY <1>6, <2>1, <2>3, LeaseSet
  <2> HIDE DEF ls, u
  <2>6. u \in Table /\ u.leases = ls
    BY <1>6, <2>4, <2>5 DEF Table
  <2>7. Alike(three, u)
    BY <2>3, <2>5, <2>6 DEF Alike
  <2>8. \A j \in 1..n : Tied(u.leases[j], three.leases[j])
    <3> HIDE DEF n
    <3> QED BY <1>6, <2>3, <2>5, <2>6 DEF Tied
  <2>9. u \in Named
    BY <1>6, <2>6, <2>7, AlikeNamed
  <2> QED BY <2>7, <2>8, <2>9
<1> HIDE DEF u
<1>8. 1 \in 1..n /\ (\A j \in 2..n : j \in 1..n) /\ Len(u.leases) = n
  BY <1>2, <1>6, <1>7 DEF Alike
<1>10. free => Given(u, s.name)
  BY <1>6, <1>7, <1>8 DEF Alike
<1> HIDE DEF n
<1>9. Tied(u.leases[1], s) /\ \A j \in 2..n : Tied(u.leases[j], t.leases[j - 1])
  BY <1>6, <1>7, <1>8 DEF Tied
<1> QED
  BY <1>7, <1>8, <1>9, <1>10 DEF n, u, free

(* What the file holds becomes a table, whose names are taken from one lease
   by another where they are in two lines.                                  *)
NamesOnce(f) ==
    \A i, j \in 1..Len(f) : i # j /\ f[i].name # NoName => f[i].name # f[j].name

ReadFrom(l, k, once) == Tied(l, k) /\ (once => l.name = k.name)

LEMMA LeaseInitOK ==
    ASSUME NEW f \in Seq(Stored), Len(f) <= DhcpMax, FileUnique(f)
    PROVE  LET u == LeaseInit(f) IN
           /\ u \in Good
           /\ \A j \in 1..Len(u.leases) : 
                /\ ~Expired(u.leases[j])
                /\ \E k \in 1..Len(f) : ReadFrom(u.leases[j], f[k], NamesOnce(f))
           /\ \A k \in 1..Len(f) : ~Expired(f[k]) \/ ~u.fileDirty =>
                \E j \in 1..Len(u.leases) : ReadFrom(u.leases[j], f[k], NamesOnce(f))
           /\ u.dnsDirty
           /\ \A k \in 1..Len(f) :
                (\E j \in 1..Len(u.leases) : u.leases[j].addr = f[k].addr) \/ Gone(u, f[k].addr)
<1> DEFINE n == Len(f)
           it == CHOOSE iter : iter = [S \in SUBSET DOMAIN f |->
                    IF S = {} THEN NoLeases ELSE ReadLease(iter[S \ {Max(S)}], f[Max(S)])]
           step == [x \in (1..n) \X Named |-> ReadLease(x[2], f[x[1]])]
           table == FoldLeft(ReadLease, NoLeases, f)
           clean == [table EXCEPT !.fileDirty = FALSE]
           pruned == LeasePrune(clean, 0)
           once == NamesOnce(f)
<1>1. n \in Nat /\ DOMAIN f = 1..n /\ \A k \in 1..n : f[k] \in Stored
  OBVIOUS
<1>2. NoLeases \in Named /\ Len(NoLeases.leases) = 0
  <2>1. <<>> \in Seq(Lease)
    OBVIOUS
  <2> QED BY <2>1 DEF NoLeases, Named, Table, NamesApart
<1>3. step \in [(1..n) \X Named -> Named]
  <2>1. ASSUME NEW x \in (1..n) \X Named PROVE ReadLease(x[2], f[x[1]]) \in Named
    BY <1>1, ReadLeaseOK
  <2> QED BY <2>1
<1>4. table = it[DOMAIN f]
  BY DEF FoldLeft, MapThenFoldSet
<1>5. it = [S \in SUBSET (1..n) |->
              IF S = {} THEN NoLeases ELSE ReadLease(it[S \ {Max(S)}], f[Max(S)])]
  <2>1. PICK some \in [SUBSET (1..n) -> Named] : IteratesOn(some, n, Named, NoLeases, step)
    <3> HIDE DEF n, step
    <3> QED BY <1>1, <1>2, <1>3, IterateEach
  <2>2. ASSUME NEW S \in SUBSET (1..n)
        PROVE  some[S] = IF S = {} THEN NoLeases
                         ELSE ReadLease(some[S \ {Max(S)}], f[Max(S)])
    BY <2>1 DEF IteratesOn
  <2>3. some = [S \in SUBSET (1..n) |->
                  IF S = {} THEN NoLeases ELSE ReadLease(some[S \ {Max(S)}], f[Max(S)])]
    <3>1. some = [S \in SUBSET (1..n) |-> some[S]]
      OBVIOUS
    <3> QED BY <2>2, <3>1
  <2> QED BY <1>1, <2>3
<1> HIDE DEF it, step, table
<1>6. it[1..0] = NoLeases
  BY <1>1, <1>5
<1>7. ASSUME NEW k \in 1..n PROVE it[1..k] = ReadLease(it[1..(k - 1)], f[k])
  <2> DEFINE S == 1..k
  <2>1. S \in SUBSET (1..n) /\ S # {} /\ Max(S) = k /\ S \ {Max(S)} = 1..(k - 1)
    BY <1>1, Segment
  <2> HIDE DEF S, n
  <2>2. it[S] = ReadLease(it[S \ {Max(S)}], f[Max(S)])
    BY <1>5, <2>1
  <2> QED BY <2>1, <2>2 DEF S
<1> DEFINE Read(t, k) == /\ t \in Named /\ Len(t.leases) = k
                         /\ \A j \in 1..k : ReadFrom(t.leases[j], f[k + 1 - j], once)
<1>8. \A k \in 0..n : Read(it[1..k], k)
  <2> DEFINE P == {k \in 0..n : Read(it[1..k], k)}
  <2>1. 0 \in P
    BY <1>1, <1>2, <1>6
  <2>2. ASSUME NEW k \in 1..n, k - 1 \in P PROVE k \in P
    <3> DEFINE t == it[1..(k - 1)]  u == it[1..k]
    <3>1. Read(t, k - 1) /\ u = ReadLease(t, f[k]) /\ k \in 0..n /\ f[k] \in Stored
      BY <1>1, <1>7, <2>2
    <3> HIDE DEF t, u
    <3>2. t \in Named /\ Len(t.leases) = k - 1
      BY <3>1
    <3>3. /\ u \in Named /\ Len(u.leases) = k
          /\ ReadFrom(u.leases[1], f[k], once)
          /\ \A j \in 2..k : ReadFrom(u.leases[j], t.leases[j - 1], once)
      <4>1. /\ u \in Named /\ Len(u.leases) = Len(t.leases) + 1
            /\ Tied(u.leases[1], f[k])
            /\ \A j \in 2..Len(u.leases) : Tied(u.leases[j], t.leases[j - 1])
            /\ (\A j \in 1..Len(t.leases) :
                   f[k].name # NoName => t.leases[j].name # f[k].name) =>
                 /\ u.leases[1].name = f[k].name
                 /\ \A j \in 2..Len(u.leases) : u.leases[j].name = t.leases[j - 1].name
        BY <3>1, <3>2, ReadLeaseOK
      <4>2. Len(u.leases) = k
        BY <3>2, <4>1
      <4>3. ASSUME once, NEW j \in 1..Len(t.leases), f[k].name # NoName
            PROVE  t.leases[j].name # f[k].name
        <5> DEFINE h == (k - 1) + 1 - j
        <5>1. j \in 1..(k - 1) /\ h \in 1..(k - 1)
          BY <3>2, <4>3
        <5>2. ReadFrom(t.leases[j], f[h], once)
          BY <3>1, <5>1
        <5>3. h \in 1..n /\ h # k /\ k \in 1..n
          BY <1>1, <5>1
        <5> HIDE DEF h
        <5>4. f[k].name # f[h].name
          BY <4>3, <5>3 DEF once, NamesOnce
        <5> QED BY <4>3, <5>2, <5>4 DEF ReadFrom
      <4> QED BY <4>1, <4>2, <4>3 DEF ReadFrom
    <3>4. ASSUME NEW j \in 1..k
          PROVE  ReadFrom(u.leases[j], f[k + 1 - j], once)
      <4>1. CASE j = 1
        <5>1. k + 1 - j = k
          BY <4>1
        <5> QED BY <3>3, <4>1, <5>1
      <4>2. CASE j # 1
        <5> DEFINE i == j - 1
        <5>1. j \in 2..k /\ i \in 1..(k - 1) /\ (k - 1) + 1 - i = k + 1 - j
          BY <4>2
        <5>2. ReadFrom(t.leases[i], f[(k - 1) + 1 - i], once)
          <6> HIDE DEF i
          <6> QED BY <3>1, <5>1
        <5> QED BY <3>3, <5>1, <5>2 DEF ReadFrom, Tied
      <4> QED BY <4>1, <4>2
    <3>5. Read(u, k)
      BY <3>3, <3>4
    <3> HIDE DEF Read
    <3> QED BY <3>1, <3>5 DEF u
  <2> HIDE DEF P, n
  <2>3. \A k \in 0..n : k \in P
    BY <1>1, <2>1, <2>2, UpTo
  <2> QED BY <2>3 DEF P
<1>9. Read(table, n)
  <2> HIDE DEF Read
  <2> QED BY <1>1, <1>4, <1>8
<1>10. table \in Good
  <2>1. ASSUME NEW i \in 1..n, NEW j \in 1..n, i # j
        PROVE  /\ table.leases[i].addr # table.leases[j].addr
               /\ table.leases[i].clid # NoClid => table.leases[i].clid # table.leases[j].clid
    <3> DEFINE g == n + 1 - i  h == n + 1 - j
    <3>1. g \in 1..n /\ h \in 1..n /\ g # h
      <4> HIDE DEF n
      <4> QED BY <1>1, <2>1
    <3>2. /\ table.leases[i].addr = f[g].addr /\ table.leases[i].clid = f[g].clid
          /\ table.leases[j].addr = f[h].addr /\ table.leases[j].clid = f[h].clid
      BY <1>9 DEF ReadFrom, Tied
    <3> HIDE DEF g, h
    <3> QED BY <3>1, <3>2 DEF FileUnique
  <2>2. Unique(table)
    BY <1>9, <2>1 DEF Unique, Named, NamesApart
  <2> QED BY <1>9, <2>2 DEF Good, Sound, Named
<1>11. /\ \A i \in 1..n : \E k \in 1..n : ReadFrom(table.leases[i], f[k], once)
       /\ \A k \in 1..n : \E i \in 1..n : ReadFrom(table.leases[i], f[k], once)
  <2> HIDE DEF n
  <2>1. ASSUME NEW i \in 1..n PROVE n + 1 - i \in 1..n /\ n + 1 - (n + 1 - i) = i
    BY <1>1
  <2>2. \A i \in 1..n : ReadFrom(table.leases[i], f[n + 1 - i], once)
    BY <1>9
  <2>3. ASSUME NEW k \in 1..n 
        PROVE  \E i \in 1..n : ReadFrom(table.leases[i], f[k], once)
    <3> DEFINE i == n + 1 - k
    <3>1. i \in 1..n /\ n + 1 - i = k
      BY <2>1
    <3> HIDE DEF i
    <3> QED BY <2>2, <3>1
  <2> QED BY <2>1, <2>2, <2>3
<1>12. Len(table.leases) = n
  BY <1>9
<1> HIDE DEF Read
<1>13. clean \in Good /\ clean.leases = table.leases
  <2>1. clean \in Table /\ Alike(table, clean)
    BY <1>10 DEF Good, Sound, Table, Alike
  <2>2. clean.leases = table.leases
    BY <1>10 DEF Good, Sound, Table
  <2> QED BY <1>10, <2>1, <2>2, AlikeSound DEF Good
<1> HIDE DEF clean
<1>20. ASSUME NEW k \in 1..n
       PROVE  (\E j \in 1..Len(pruned.leases) : pruned.leases[j].addr = f[k].addr)
              \/ Gone(pruned, f[k].addr)
  <2>1. \A v : Clear(clean, v) => Clear(pruned, v)
    <3> DEFINE target == 0
    <3> HIDE DEF target
    <3>1. Tells(clean, LeasePrune(clean, target))
      BY <1>13, LeasePruneTells DEF Good
    <3> QED BY <3>1 DEF target, Tells
  <2>2. PICK i \in 1..n : ReadFrom(table.leases[i], f[k], once)
    BY <1>11
  <2>3. f[k].addr \in Addr /\ i \in 1..Len(clean.leases) /\ clean.leases[i].addr = f[k].addr
    BY <1>1, <1>12, <1>13, <2>2 DEF Stored, ReadFrom, Tied
  <2> HIDE DEF pruned
  <2> QED BY <2>1, <2>3, ClearKnown
<1>14. /\ pruned \in Good
       /\ \A j \in 1..Len(pruned.leases) : \E i \in 1..n :
            ~Expired(table.leases[i]) /\ pruned.leases[j] = table.leases[i]
       /\ \A i \in 1..n : ~Expired(table.leases[i]) \/ ~pruned.fileDirty =>
            \E j \in 1..Len(pruned.leases) : pruned.leases[j] = table.leases[i]
  <2>1. clean \in Sound /\ Len(clean.leases) = n /\ \A i \in 1..n : i # 0
    BY <1>1, <1>12, <1>13 DEF Good
  <2> HIDE DEF n
  <2>2. /\ pruned \in Good
        /\ \A j \in 1..Len(pruned.leases) : \E i \in 1..n :
             ~Expired(clean.leases[i]) /\ pruned.leases[j] = clean.leases[i]
        /\ ~pruned.fileDirty => \A i \in 1..n : ~Expired(clean.leases[i])
        /\ \A i \in 1..n : i # 0 /\ ~Expired(clean.leases[i]) =>
            \E j \in 1..Len(pruned.leases) : pruned.leases[j] = clean.leases[i]
    <3> DEFINE target == 0
    <3> HIDE DEF target
    <3> DEFINE v == LeasePrune(clean, target)
    <3>1. /\ v \in Sound /\ (clean \in Good => v \in Good)
          /\ \A j \in 1..Len(v.leases) : \E k \in 1..Len(clean.leases) :
               k # target /\ ~Expired(clean.leases[k]) /\ v.leases[j] = clean.leases[k]
          /\ \A k \in 1..Len(clean.leases) : k # target /\ ~Expired(clean.leases[k]) =>
               \E j \in 1..Len(v.leases) : v.leases[j] = clean.leases[k]
          /\ ~v.fileDirty => \A k \in 1..Len(clean.leases) : ~Expired(clean.leases[k])
      BY ONLY <2>1, LeasePruneOK
    <3>2. v = pruned
      BY DEF target
    <3> HIDE DEF v, pruned
    <3>3. pruned \in Good
      BY <1>13, <3>1, <3>2
    <3> QED BY <2>1, <3>1, <3>2, <3>3 DEF target
  <2> HIDE DEF pruned
  <2> QED BY <1>13, <2>1, <2>2
<1> DEFINE u == LeaseInit(f)
<1>15. u = [pruned EXCEPT !.dnsDirty = TRUE]
  BY DEF LeaseInit, pruned, clean, table
<1> HIDE DEF pruned, u
<1>16. u \in Table /\ Alike(pruned, u) /\ u.leases = pruned.leases
       /\ u.fileDirty = pruned.fileDirty /\ u.dnsDirty /\ u.old = pruned.old
  BY <1>14, <1>15 DEF Good, Sound, Table, Alike
<1>17. u \in Good
  BY <1>14, <1>16, AlikeSound DEF Good
<1> HIDE DEF once, n
<1>18. ASSUME NEW j \in 1..Len(u.leases)
       PROVE  ~Expired(u.leases[j]) /\ \E k \in 1..n : ReadFrom(u.leases[j], f[k], once)
  <2>1. PICK i \in 1..n : ~Expired(table.leases[i]) /\ u.leases[j] = table.leases[i]
    <3>1. j \in 1..Len(pruned.leases) /\ u.leases[j] = pruned.leases[j]
      BY <1>16
    <3> QED BY ONLY <1>14, <3>1
  <2>2. PICK k \in 1..n : ReadFrom(table.leases[i], f[k], once)
    BY <1>11
  <2> QED BY <2>1, <2>2
<1>19. ASSUME NEW k \in 1..n, ~Expired(f[k]) \/ ~u.fileDirty
       PROVE  \E j \in 1..Len(u.leases) : ReadFrom(u.leases[j], f[k], once)
  <2>1. PICK i \in 1..n : ReadFrom(table.leases[i], f[k], once)
    BY <1>11
  <2>2. ~Expired(f[k]) => ~Expired(table.leases[i])
    BY <2>1 DEF ReadFrom, Tied, Expired
  <2>3. PICK j \in 1..Len(u.leases) : u.leases[j] = table.leases[i]
    BY <1>14, <1>16, <1>19, <2>2
  <2> QED BY <2>1, <2>3
<1>21. ASSUME NEW k \in 1..n
       PROVE  (\E j \in 1..Len(u.leases) : u.leases[j].addr = f[k].addr) \/ Gone(u, f[k].addr)
  BY <1>16, <1>20 DEF Gone
<1> QED
  BY <1>16, <1>17, <1>18, <1>19, <1>21 DEF u, n, once

-----------------------------------------------------------------------------
(* The list of dhcp-host entries *)

LEMMA FindByAddressOK ==
    ASSUME NEW CS, NEW cs \in Seq(CS), NEW a
    PROVE  LET v == FindByAddress(cs, a) IN
           /\ v \in 0..Len(cs)
           /\ v = 0 => \A j \in 1..Len(cs) : cs[j].addr # NoAddr => cs[j].addr # a
           /\ v # 0 => v \in 1..Len(cs) /\ cs[v].addr = a /\ a # NoAddr
<1> DEFINE n == Len(cs)
           S == {j \in 1..n : cs[j].addr # NoAddr /\ cs[j].addr = a}
           v == FindByAddress(cs, a)
<1>1. n \in Nat /\ S \in SUBSET (1..n)
  OBVIOUS
<1>2. v = IF S # {} THEN Min(S) ELSE 0
  BY DEF FindByAddress, SelectInSeq
<1> HIDE DEF n, S, v
<1>3. v \in 0..n /\ (v = 0 => S = {}) /\ (v # 0 => v \in S /\ v \in 1..n)
  BY <1>1, <1>2, FirstPlace
<1>4. S = {} => \A j \in 1..n : cs[j].addr # NoAddr => cs[j].addr # a
  BY DEF S
<1>5. v \in S => cs[v].addr = a /\ a # NoAddr
  BY DEF S
<1> QED
  BY <1>3, <1>4, <1>5 DEF n, v

(* The entry found is one for a network of the chain. *)
LEMMA FindConfigOK ==
    ASSUME NEW CS, NEW cs \in Seq(CS), NEW nets, NEW clid, NEW hw, NEW name
    PROVE  LET v == FindConfig(cs, nets, clid, hw, name) IN
           v \in 0..Len(cs) /\ (v # 0 => IsAddrInContext(nets, cs[v]))
<1> DEFINE n == Len(cs)
           A == {j \in 1..n : clid # NoClid /\ cs[j].clid = clid /\ IsAddrInContext(nets, cs[j])}
           B == {j \in 1..n : ~cs[j].wild /\ hw \in cs[j].hw /\ IsAddrInContext(nets, cs[j])}
           C == {j \in 1..n : name # NoName /\ nets # {} /\ cs[j].name = name
                              /\ IsAddrInContext(nets, cs[j])}
           D == {j \in 1..n : cs[j].wild /\ hw \in cs[j].hw /\ IsAddrInContext(nets, cs[j])}
           U == {j \in 1..n : IsAddrInContext(nets, cs[j])}
           a == IF A # {} THEN Min(A) ELSE 0
           b == IF B # {} THEN Min(B) ELSE 0
           c == IF C # {} THEN Min(C) ELSE 0
           d == IF D # {} THEN Min(D) ELSE 0
           v == FindConfig(cs, nets, clid, hw, name)
<1>1. /\ n \in Nat /\ A \in SUBSET (1..n) /\ B \in SUBSET (1..n)
      /\ C \in SUBSET (1..n) /\ D \in SUBSET (1..n)
  OBVIOUS
<1>2. v = IF a # 0 THEN a ELSE IF b # 0 THEN b ELSE IF c # 0 THEN c ELSE d
  BY DEF FindConfig, SelectInSeq
<1>3. A \subseteq U /\ B \subseteq U /\ C \subseteq U /\ D \subseteq U
  OBVIOUS
<1>4. \A j \in U : IsAddrInContext(nets, cs[j])
  OBVIOUS
<1> HIDE DEF n, A, B, C, D, U
<1>5. a \in 0..n /\ b \in 0..n /\ (a # 0 => a \in A) /\ (b # 0 => b \in B)
  BY <1>1, FirstPlace
<1>6. c \in 0..n /\ d \in 0..n /\ (c # 0 => c \in C) /\ (d # 0 => d \in D)
  BY <1>1, FirstPlace
<1> HIDE DEF a, b, c, d, v
<1>7. v \in 0..n /\ (v # 0 => v \in U)
  BY <1>2, <1>3, <1>5, <1>6
<1> QED
  BY <1>4, <1>7 DEF n, v

LEMMA ConfigAt ==
    ASSUME NEW CS, NEW cs \in Seq(CS), NEW i \in 1..Len(cs)
    PROVE  cs[i] \in CS
OBVIOUS

LEMMA ConfigSet ==
    ASSUME NEW CS, NEW cs \in Seq(CS), NEW i \in 1..Len(cs), NEW c \in CS
    PROVE  [cs EXCEPT ![i] = c] \in Seq(CS) /\ Len([cs EXCEPT ![i] = c]) = Len(cs)
OBVIOUS

LEMMA BlankOK == Blank \in Config
BY LeasesAssumption DEF Blank, Config

(* The entries that give lease times of one set only, 0 for none. *)
Timed(TS) == {c \in Config : c.time \in TS}

LEMMA BlankTimed == ASSUME NEW TS, 0 \in TS PROVE Blank \in Timed(TS)
BY BlankOK DEF Timed, Blank

(* A line of /etc/ethers leaves a list of entries. *)
LEMMA EthersLineOK ==
    ASSUME NEW TS, 0 \in TS, NEW cs \in Seq(Timed(TS)), NEW line \in Ethers
    PROVE  EthersLine(cs, line) \in Seq(Timed(TS))
<1> DEFINE n == Len(cs)
           A == {j \in 1..n : cs[j].name = line.name}
           B == {j \in 1..n : ~cs[j].wild /\ line.hw \in cs[j].hw}
           a == IF A # {} THEN Min(A) ELSE 0
           same == IF B # {} THEN Min(B) ELSE 0
           has == IF line.addr # NoAddr THEN FindByAddress(cs, line.addr) ELSE a
           given(c) == [c EXCEPT !.addr = IF line.addr # NoAddr THEN line.addr ELSE @,
                                 !.name = IF line.name # NoName THEN line.name ELSE @]
           marked(c) == [c EXCEPT !.hw = {line.hw}, !.noclid = TRUE]
           new == [Blank EXCEPT !.fromEthers = TRUE]
<1>1. /\ line.hw \in Hw /\ line.addr \in Addr \cup {NoAddr} /\ line.name \in Name \cup {NoName}
  BY DEF Ethers
<1>2. n \in Nat /\ A \in SUBSET (1..n) /\ B \in SUBSET (1..n)
  OBVIOUS
<1>3. a \in 0..n /\ same \in 0..n
  <2> HIDE DEF n, A, B
  <2> QED BY <1>2, FirstPlace
<1>4. has \in 0..n
  <2> HIDE DEF a
  <2> QED BY <1>3, FindByAddressOK
<1>5. EthersLine(cs, line) = IF has # 0 THEN [cs EXCEPT ![has] = marked(cs[has])]
                             ELSE IF same # 0 THEN [cs EXCEPT ![same] = marked(given(cs[same]))]
                             ELSE <<marked(given(new))>> \o cs
  BY DEF EthersLine, SelectInSeq
<1> HIDE DEF A, B, a, has, same
<1>6. ASSUME NEW c \in Timed(TS) PROVE given(c) \in Timed(TS)
  <2> DEFINE addr == IF line.addr # NoAddr THEN line.addr ELSE c.addr
             name == IF line.name # NoName THEN line.name ELSE c.name
  <2>1. addr \in Addr \cup {NoAddr} /\ name \in Name \cup {NoName}
    BY <1>1 DEF Timed, Config
  <2> HIDE DEF addr, name
  <2>2. [c EXCEPT !.addr = addr, !.name = name] \in Timed(TS)
    BY <2>1 DEF Timed, Config
  <2> QED BY <2>2 DEF addr, name
<1>7. ASSUME NEW c \in Timed(TS) PROVE marked(c) \in Timed(TS)
  <2> DEFINE hws == {line.hw}
  <2>1. hws \in SUBSET Hw
    BY <1>1
  <2> HIDE DEF hws
  <2>2. [c EXCEPT !.hw = hws, !.noclid = TRUE] \in Timed(TS)
    BY <2>1 DEF Timed, Config
  <2> QED BY <2>2 DEF hws
<1>8. new \in Timed(TS)
  <2> DEFINE c == Blank
  <2>1. c \in Timed(TS)
    BY BlankTimed
  <2> HIDE DEF c
  <2>2. [c EXCEPT !.fromEthers = TRUE] \in Timed(TS)
    BY <2>1 DEF Timed, Config
  <2> QED BY <2>2 DEF c
<1> HIDE DEF given, marked, new
<1>9. CASE has # 0
  <2>1. has \in 1..n /\ marked(cs[has]) \in Timed(TS)
    BY <1>2, <1>4, <1>7, <1>9
  <2> QED BY <1>5, <1>9, <2>1, ConfigSet
<1>10. CASE has = 0 /\ same # 0
  <2>1. same \in 1..n /\ cs[same] \in Timed(TS)
    BY <1>2, <1>3, <1>10
  <2>2. marked(given(cs[same])) \in Timed(TS)
    BY <1>6, <1>7, <2>1
  <2> QED BY <1>5, <1>10, <2>1, <2>2, ConfigSet
<1>11. CASE has = 0 /\ same = 0
  <2> DEFINE c == marked(given(new))
  <2>1. c \in Timed(TS)
    BY <1>6, <1>7, <1>8
  <2> HIDE DEF c
  <2>2. <<c>> \o cs \in Seq(Timed(TS))
    BY <2>1
  <2> QED BY <1>5, <1>11, <2>2 DEF c
<1> QED
  BY <1>9, <1>10, <1>11

LEMMA DhcpReadEthersOK ==
    ASSUME NEW TS, 0 \in TS, NEW cs \in Seq(Timed(TS)), NEW lines \in Seq(Ethers)
    PROVE  DhcpReadEthers(cs, lines) \in Seq(Timed(TS))
<1> DEFINE n == Len(lines)
           old == {i \in DOMAIN cs : ~cs[i].fromEthers}
           base == Sifted(cs, old)
           it == CHOOSE iter : iter = [S \in SUBSET DOMAIN lines |->
                    IF S = {} THEN base ELSE EthersLine(iter[S \ {Max(S)}], lines[Max(S)])]
           step == [x \in (1..n) \X Seq(Timed(TS)) |-> EthersLine(x[2], lines[x[1]])]
<1>1. n \in Nat /\ DOMAIN lines = 1..n /\ \A k \in 1..n : lines[k] \in Ethers
  OBVIOUS
<1>2. base \in Seq(Timed(TS))
  <2>1. old \in SUBSET (1..Len(cs))
    OBVIOUS
  <2> HIDE DEF old
  <2> QED BY <2>1, SiftedOK
<1>3. step \in [(1..n) \X Seq(Timed(TS)) -> Seq(Timed(TS))]
  <2>1. ASSUME NEW x \in (1..n) \X Seq(Timed(TS))
        PROVE  EthersLine(x[2], lines[x[1]]) \in Seq(Timed(TS))
    <3>1. x[1] \in 1..n /\ x[2] \in Seq(Timed(TS))
      OBVIOUS
    <3> QED BY <1>1, <3>1, EthersLineOK
  <2> QED BY <2>1
<1>4. DhcpReadEthers(cs, lines) = it[DOMAIN lines]
  BY DEF DhcpReadEthers, FoldLeft, MapThenFoldSet
<1> HIDE DEF base
<1>5. it = [S \in SUBSET (1..n) |->
              IF S = {} THEN base ELSE EthersLine(it[S \ {Max(S)}], lines[Max(S)])]
  <2>1. PICK some \in [SUBSET (1..n) -> Seq(Timed(TS))] :
             IteratesOn(some, n, Seq(Timed(TS)), base, step)
    <3> HIDE DEF n, step
    <3> QED BY <1>1, <1>2, <1>3, IterateEach
  <2>2. ASSUME NEW S \in SUBSET (1..n)
        PROVE  some[S] = IF S = {} THEN base ELSE EthersLine(some[S \ {Max(S)}], lines[Max(S)])
    BY <2>1 DEF IteratesOn
  <2>3. some = [S \in SUBSET (1..n) |->
                  IF S = {} THEN base ELSE EthersLine(some[S \ {Max(S)}], lines[Max(S)])]
    <3>1. some = [S \in SUBSET (1..n) |-> some[S]]
      OBVIOUS
    <3> QED BY <2>2, <3>1
  <2> QED BY <1>1, <2>3
<1> HIDE DEF it, step
<1>6. it[1..0] = base
  BY <1>1, <1>5
<1>7. ASSUME NEW k \in 1..n PROVE it[1..k] = EthersLine(it[1..(k - 1)], lines[k])
  <2>1. /\ 1..k \in SUBSET (1..n) /\ 1..k # {}
        /\ Max(1..k) = k /\ (1..k) \ {Max(1..k)} = 1..(k - 1)
    BY <1>1, Segment
  <2> HIDE DEF n
  <2> QED BY <1>5, <2>1
<1>8. \A k \in 0..n : it[1..k] \in Seq(Timed(TS))
  <2> DEFINE P == {k \in 0..n : it[1..k] \in Seq(Timed(TS))}
  <2>1. 0 \in P
    BY <1>1, <1>2, <1>6
  <2>2. ASSUME NEW k \in 1..n, k - 1 \in P PROVE k \in P
    <3>1. it[1..(k - 1)] \in Seq(Timed(TS)) /\ lines[k] \in Ethers /\ k \in 0..n
      BY <1>1, <2>2
    <3> QED BY <1>7, <3>1, EthersLineOK
  <2> HIDE DEF P, n
  <2>3. \A k \in 0..n : k \in P
    BY <1>1, <2>1, <2>2, UpTo
  <2> QED BY <2>3 DEF P
<1> QED
  BY <1>1, <1>4, <1>8

LEMMA RereadDhcpOK ==
    ASSUME NEW TS, 0 \in TS, NEW cs \in Seq(Timed(TS)), NEW lines \in Seq(Timed(TS))
    PROVE  RereadDhcp(cs, lines) \in Seq(Timed(TS))
<1> DEFINE banked == [i \in DOMAIN lines |-> [lines[i] EXCEPT !.bank = TRUE]]
           kept == {i \in DOMAIN cs : ~cs[i].bank}
<1>1. ASSUME NEW i \in 1..Len(lines) PROVE [lines[i] EXCEPT !.bank = TRUE] \in Timed(TS)
  <2> DEFINE c == lines[i]
  <2>1. c \in Timed(TS)
    OBVIOUS
  <2> HIDE DEF c
  <2>2. [c EXCEPT !.bank = TRUE] \in Timed(TS)
    BY <2>1 DEF Timed, Config
  <2> QED BY <2>2 DEF c
<1>2. DOMAIN lines = 1..Len(lines) /\ Len(lines) \in Nat /\ kept \in SUBSET (1..Len(cs))
  OBVIOUS
<1>3. banked \in Seq(Timed(TS))
  BY <1>1, <1>2
<1> HIDE DEF banked, kept
<1>4. Reverse(banked) \in Seq(Timed(TS))
  BY <1>3, ReverseType
<1>5. Sifted(cs, kept) \in Seq(Timed(TS))
  BY <1>2, SiftedOK
<1>6. Reverse(banked) \o Sifted(cs, kept) \in Seq(Timed(TS))
  <2> DEFINE x == Reverse(banked)  y == Sifted(cs, kept)
  <2> HIDE DEF x, y
  <2>1. x \in Seq(Timed(TS)) /\ y \in Seq(Timed(TS))
    BY <1>4, <1>5 DEF x, y
  <2>2. x \o y \in Seq(Timed(TS))
    BY <2>1
  <2> QED BY <2>2 DEF x, y
<1> QED
  BY <1>6 DEF RereadDhcp, banked, kept

LEMMA CheckDhcpHostsOK ==
    ASSUME NEW TS, 0 \in TS, NEW cs \in Seq(Timed(TS))
    PROVE  CheckDhcpHosts(cs) \in Seq(Timed(TS))
<1> DEFINE n == Len(cs)
           twice(i) == \E j \in i + 1..n : cs[j].addr # NoAddr /\ cs[j].addr = cs[i].addr
           d(i) == IF twice(i) THEN [cs[i] EXCEPT !.addr = NoAddr] ELSE cs[i]
<1>1. ASSUME NEW i \in 1..n PROVE d(i) \in Timed(TS)
  <2> DEFINE c == cs[i]
  <2>1. c \in Timed(TS)
    OBVIOUS
  <2> HIDE DEF c
  <2>2. [c EXCEPT !.addr = NoAddr] \in Timed(TS)
    BY <2>1 DEF Timed, Config
  <2> HIDE DEF twice
  <2> QED BY <2>1, <2>2 DEF c
<1>2. CheckDhcpHosts(cs) = [i \in 1..n |-> d(i)] /\ n \in Nat
  BY DEF CheckDhcpHosts
<1> HIDE DEF d
<1> QED
  BY <1>1, <1>2

(* An entry takes an address of /etc/hosts. *)
LEMMA TakeAddressOK ==
    ASSUME NEW TS, 0 \in TS, NEW cs \in Seq(Timed(TS)), NEW i \in 1..Len(cs), NEW names
    PROVE  TakeAddress(cs, i, names) \in Seq(Timed(TS)) /\ Len(TakeAddress(cs, i, names)) = Len(cs)
<1> DEFINE addressed == {a \in Addr : names[a] = cs[i].name}
           a == CHOOSE a \in addressed : TRUE
           k == cs[i]
           c == [k EXCEPT !.addr = a, !.addrHosts = TRUE]
<1>1. TakeAddress(cs, i, names) = cs
      \/ (addressed # {} /\ TakeAddress(cs, i, names)
                             = [cs EXCEPT ![i].addr = a, ![i].addrHosts = TRUE])
  BY DEF TakeAddress
<1>2. ASSUME addressed # {} PROVE c \in Timed(TS)
  <2>1. a \in Addr
    BY <1>2
  <2>2. k \in Timed(TS)
    OBVIOUS
  <2> HIDE DEF a, k
  <2> QED BY <2>1, <2>2 DEF Timed, Config
<1>3. [cs EXCEPT ![i].addr = a, ![i].addrHosts = TRUE] = [cs EXCEPT ![i] = c]
  <2> HIDE DEF a
  <2> QED OBVIOUS
<1> HIDE DEF a, k, c, addressed
<1>4. ASSUME addressed # {}
      PROVE  [cs EXCEPT ![i] = c] \in Seq(Timed(TS)) /\ Len([cs EXCEPT ![i] = c]) = Len(cs)
  BY SMTT(30), <1>2, <1>4, ConfigSet
<1> QED
  BY SMTT(30), <1>1, <1>2, <1>3, <1>4

LEMMA DhcpUpdateConfigsOK ==
    ASSUME NEW TS, 0 \in TS, NEW cs \in Seq(Timed(TS)), NEW names
    PROVE  DhcpUpdateConfigs(cs, names) \in Seq(Timed(TS))
<1> DEFINE n == Len(cs)
           d(i) == IF cs[i].addrHosts THEN [cs[i] EXCEPT !.addr = NoAddr, !.addrHosts = FALSE]
                   ELSE cs[i]
           base == [i \in DOMAIN cs |-> d(i)]
           places == [i \in DOMAIN cs |-> i]
           it == CHOOSE iter : iter = [S \in SUBSET DOMAIN places |->
                    IF S = {} THEN base
                    ELSE TakeAddress(iter[S \ {Max(S)}], places[Max(S)], names)]
           V == {c \in Seq(Timed(TS)) : Len(c) = n}
           step == [x \in (1..n) \X V |-> TakeAddress(x[2], x[1], names)]
<1>1. n \in Nat /\ DOMAIN places = 1..n /\ \A k \in 1..n : places[k] = k
  OBVIOUS
<1>2. base \in V
  <2>1. ASSUME NEW i \in 1..n PROVE d(i) \in Timed(TS)
    <3> DEFINE c == cs[i]
    <3>1. c \in Timed(TS)
      OBVIOUS
    <3> HIDE DEF c
    <3>2. [c EXCEPT !.addr = NoAddr, !.addrHosts = FALSE] \in Timed(TS)
      BY <3>1 DEF Timed, Config
    <3> QED BY <3>1, <3>2 DEF c
  <2>2. base = [i \in 1..n |-> d(i)]
    OBVIOUS
  <2> HIDE DEF d, base
  <2> QED BY <1>1, <2>1, <2>2
<1> HIDE DEF base, places
<1>3. step \in [(1..n) \X V -> V]
  <2>1. ASSUME NEW x \in (1..n) \X V PROVE TakeAddress(x[2], x[1], names) \in V
    <3> DEFINE c == x[2]  i == x[1]
    <3>1. c \in Seq(Timed(TS)) /\ Len(c) = n /\ i \in 1..Len(c)
      OBVIOUS
    <3> HIDE DEF c, i, n
    <3>2. TakeAddress(c, i, names) \in Seq(Timed(TS)) /\ Len(TakeAddress(c, i, names)) = Len(c)
      BY <3>1, TakeAddressOK
    <3> QED BY <3>1, <3>2 DEF c, i
  <2> QED BY <2>1
<1>4. DhcpUpdateConfigs(cs, names) = it[DOMAIN places]
  BY DEF DhcpUpdateConfigs, FoldLeft, MapThenFoldSet, base, places
<1>5. it = [S \in SUBSET (1..n) |->
              IF S = {} THEN base ELSE TakeAddress(it[S \ {Max(S)}], places[Max(S)], names)]
  <2>1. PICK some \in [SUBSET (1..n) -> V] : IteratesOn(some, n, V, base, step)
    <3> HIDE DEF n, step, V
    <3> QED BY <1>1, <1>2, <1>3, IterateEach
  <2>2. ASSUME NEW S \in SUBSET (1..n)
        PROVE  some[S] = IF S = {} THEN base
                         ELSE TakeAddress(some[S \ {Max(S)}], places[Max(S)], names)
    <3> HIDE DEF n, V
    <3> QED BY <1>1, <2>1 DEF IteratesOn
  <2>3. some = [S \in SUBSET (1..n) |->
                  IF S = {} THEN base
                  ELSE TakeAddress(some[S \ {Max(S)}], places[Max(S)], names)]
    <3>1. some = [S \in SUBSET (1..n) |-> some[S]]
      OBVIOUS
    <3> HIDE DEF n
    <3> QED BY <2>2, <3>1
  <2> HIDE DEF n
  <2> QED BY <1>1, <2>3
<1> HIDE DEF it, step
<1>6. it[1..0] = base
  BY <1>1, <1>5
<1>7. ASSUME NEW k \in 1..n PROVE it[1..k] = TakeAddress(it[1..(k - 1)], k, names)
  <2>1. /\ 1..k \in SUBSET (1..n) /\ 1..k # {}
        /\ Max(1..k) = k /\ (1..k) \ {Max(1..k)} = 1..(k - 1)
    BY <1>1, Segment
  <2> HIDE DEF n
  <2> DEFINE S == 1..k
  <2>2. S \in SUBSET (1..n) /\ S # {} /\ Max(S) = k /\ S \ {Max(S)} = 1..(k - 1)
    BY <2>1
  <2> HIDE DEF S
  <2>3. it[S] = TakeAddress(it[S \ {Max(S)}], places[Max(S)], names)
    BY <1>5, <2>2
  <2> QED BY <1>1, <2>2, <2>3 DEF S
<1>8. \A k \in 0..n : it[1..k] \in V
  <2> DEFINE P == {k \in 0..n : it[1..k] \in V}
  <2>1. 0 \in P
    <3> HIDE DEF V, n
    <3> QED BY <1>1, <1>2, <1>6
  <2>2. ASSUME NEW k \in 1..n, k - 1 \in P PROVE k \in P
    <3> DEFINE c == it[1..(k - 1)]
    <3>1. c \in Seq(Timed(TS)) /\ Len(c) = n /\ k \in 1..Len(c) /\ k \in 0..n
      BY <1>1, <2>2
    <3> HIDE DEF c, n
    <3>2. TakeAddress(c, k, names) \in Seq(Timed(TS)) /\ Len(TakeAddress(c, k, names)) = Len(c)
      BY <3>1, TakeAddressOK
    <3> QED BY <1>7, <3>1, <3>2 DEF c
  <2> HIDE DEF P, n
  <2>3. \A k \in 0..n : k \in P
    BY <1>1, <2>1, <2>2, UpTo
  <2> QED BY <2>3 DEF P
<1> HIDE DEF n
<1> QED
  BY <1>1, <1>4, <1>8

(* So SIGHUP leaves a list of entries, whatever the files say. *)
LEMMA ReconfiguredTimed ==
    ASSUME NEW TS, 0 \in TS, NEW cs \in Seq(Timed(TS)), NEW ethers \in EthersFiles,
           NEW bank \in Seq(Timed(TS)), NEW names
    PROVE  Reconfigured(cs, ethers, bank, names) \in Seq(Timed(TS))
<1>1. ethers \in Seq(Ethers)
  BY DhcpAssumption
<1> DEFINE a == DhcpReadEthers(cs, ethers)
           b == RereadDhcp(a, bank)
           c == DhcpUpdateConfigs(b, names)
<1>2. a \in Seq(Timed(TS))
  BY <1>1, DhcpReadEthersOK
<1> HIDE DEF a
<1>3. b \in Seq(Timed(TS))
  BY <1>1, <1>2, RereadDhcpOK
<1> HIDE DEF b
<1>4. c \in Seq(Timed(TS))
  BY <1>3, DhcpUpdateConfigsOK
<1> HIDE DEF c
<1> QED
  BY <1>4, CheckDhcpHostsOK DEF Reconfigured, a, b, c

LEMMA ReconfiguredOK ==
    ASSUME NEW cs \in Seq(Config), NEW ethers \in EthersFiles, NEW bank \in BankFiles, NEW names
    PROVE  Reconfigured(cs, ethers, bank, names) \in Seq(Config)
<1> DEFINE TS == 0..MaxLeft \cup {Never}
<1>1. 0 \in TS
  BY LeasesAssumption
<1>2. Timed(TS) = Config
  BY DEF Timed, Config
<1>3. bank \in Seq(Config)
  BY DhcpAssumption
<1> HIDE DEF TS
<1> QED
  BY <1>1, <1>2, <1>3, ReconfiguredTimed

-----------------------------------------------------------------------------
(* Names from the configuration *)

LEMMA NameFromConfigOK ==
    ASSUME NEW t \in Good, NEW i \in 1..Len(t.leases), NEW cs \in Seq(Config),
           NEW names \in [Addr -> Name \cup {NoName}]
    PROVE  LET u == NameFromConfig(t, i, cs, names) IN
           u \in Good /\ Spared(t, u) /\ Tells(t, u)
<1> DEFINE l == t.leases[i]
           at == FindConfig(cs, {}, l.clid, l.hw, NoName)
           u == NameFromConfig(t, i, cs, names)
<1>1. t \in Sound /\ t \in Table
  BY DEF Good, Sound
<1>2. l \in Lease
  BY <1>1, LeaseAt
<1>3. at \in 0..Len(cs)
  <2> HIDE DEF l
  <2> QED BY FindConfigOK
<1>4. l.addr \in Addr
  <2> HIDE DEF l
  <2> QED BY <1>2 DEF Lease
<1>5. \/ u = t
      \/ at # 0 /\ cs[at].name # NoName /\ u = SetHostname(t, i, cs[at].name, TRUE)
      \/ names[l.addr] # NoName /\ u = SetHostname(t, i, names[l.addr], TRUE)
  BY DEF NameFromConfig
<1> HIDE DEF l, at, u
<1>6. ASSUME NEW name \in Name, u = SetHostname(t, i, name, TRUE)
      PROVE  u \in Good /\ Spared(t, u) /\ Tells(t, u)
  <2>1. u \in Good /\ Spared(t, u)
    BY <1>1, <1>6, SetHostnameOK
  <2>2. Tells(t, u)
    BY <1>1, <1>6, SetHostnameTells
  <2> QED BY <2>1, <2>2
<1>7. at # 0 => at \in 1..Len(cs) /\ cs[at] \in Config
  BY <1>3, ConfigAt
<1>8. at # 0 /\ cs[at].name # NoName => cs[at].name \in Name
  BY <1>7 DEF Config
<1>9. names[l.addr] # NoName => names[l.addr] \in Name
  BY <1>4
<1>10. u \in Good /\ Spared(t, u) /\ Tells(t, u)
  BY <1>5, <1>6, <1>8, <1>9, SparedSelf, TellsSelf
<1> QED
  BY <1>10 DEF u

LEMMA LeaseUpdateFromConfigsOK ==
    ASSUME NEW t \in Good, NEW cs \in Seq(Config), NEW names \in [Addr -> Name \cup {NoName}]
    PROVE  LET u == LeaseUpdateFromConfigs(t, cs, names) IN
           u \in Good /\ Spared(t, u) /\ Tells(t, u)
<1> DEFINE n == Len(t.leases)
           places == [i \in DOMAIN t.leases |-> i]
           it == CHOOSE iter : iter = [S \in SUBSET DOMAIN places |->
                    IF S = {} THEN t
                    ELSE NameFromConfig(iter[S \ {Max(S)}], places[Max(S)], cs, names)]
           V == {u \in Good : Spared(t, u) /\ Tells(t, u)}
           step == [x \in (1..n) \X V |-> NameFromConfig(x[2], x[1], cs, names)]
<1>1. n \in Nat /\ DOMAIN places = 1..n /\ \A k \in 1..n : places[k] = k
  <2>1. t \in Table
    BY DEF Good, Sound
  <2> QED BY <2>1 DEF Table
<1>2. t \in V
  BY SparedSelf, TellsSelf
<1> HIDE DEF places
<1>3. step \in [(1..n) \X V -> V]
  <2>1. ASSUME NEW x \in (1..n) \X V PROVE NameFromConfig(x[2], x[1], cs, names) \in V
    <3> DEFINE u == x[2]  i == x[1]
    <3>1. u \in Good /\ Spared(t, u) /\ Tells(t, u) /\ i \in 1..Len(u.leases)
      BY DEF Spared
    <3> HIDE DEF u, i, n
    <3>2. /\ NameFromConfig(u, i, cs, names) \in Good
          /\ Spared(u, NameFromConfig(u, i, cs, names))
          /\ Tells(u, NameFromConfig(u, i, cs, names))
      BY <3>1, NameFromConfigOK
    <3>3. /\ Spared(t, NameFromConfig(u, i, cs, names))
          /\ Tells(t, NameFromConfig(u, i, cs, names))
      BY <3>1, <3>2, SparedTrans, TellsTrans
    <3> QED BY <3>2, <3>3 DEF u, i
  <2> QED BY <2>1
<1>4. LeaseUpdateFromConfigs(t, cs, names) = it[DOMAIN places]
  BY DEF LeaseUpdateFromConfigs, FoldLeft, MapThenFoldSet, places
<1>5. it = [S \in SUBSET (1..n) |->
              IF S = {} THEN t ELSE NameFromConfig(it[S \ {Max(S)}], places[Max(S)], cs, names)]
  <2>1. PICK some \in [SUBSET (1..n) -> V] : IteratesOn(some, n, V, t, step)
    <3> HIDE DEF n, step, V
    <3> QED BY <1>1, <1>2, <1>3, IterateEach
  <2>2. ASSUME NEW S \in SUBSET (1..n)
        PROVE  some[S] = IF S = {} THEN t
                         ELSE NameFromConfig(some[S \ {Max(S)}], places[Max(S)], cs, names)
    <3> HIDE DEF n, V
    <3> QED BY <1>1, <2>1 DEF IteratesOn
  <2>3. some = [S \in SUBSET (1..n) |->
                  IF S = {} THEN t
                  ELSE NameFromConfig(some[S \ {Max(S)}], places[Max(S)], cs, names)]
    <3>1. some = [S \in SUBSET (1..n) |-> some[S]]
      OBVIOUS
    <3> HIDE DEF n
    <3> QED BY <2>2, <3>1
  <2> HIDE DEF n
  <2> QED BY ZenonT(30), <1>1, <2>3
<1> HIDE DEF it, step
<1>6. it[1..0] = t
  BY <1>1, <1>5
<1>7. ASSUME NEW k \in 1..n PROVE it[1..k] = NameFromConfig(it[1..(k - 1)], k, cs, names)
  <2>1. /\ 1..k \in SUBSET (1..n) /\ 1..k # {}
        /\ Max(1..k) = k /\ (1..k) \ {Max(1..k)} = 1..(k - 1)
    BY <1>1, Segment
  <2> HIDE DEF n
  <2> DEFINE S == 1..k
  <2>2. S \in SUBSET (1..n) /\ S # {} /\ Max(S) = k /\ S \ {Max(S)} = 1..(k - 1)
    BY <2>1
  <2> HIDE DEF S
  <2>3. it[S] = NameFromConfig(it[S \ {Max(S)}], places[Max(S)], cs, names)
    BY <1>5, <2>2
  <2> QED BY <1>1, <2>2, <2>3 DEF S
<1>8. \A k \in 0..n : it[1..k] \in V
  <2> DEFINE P == {k \in 0..n : it[1..k] \in V}
  <2>1. 0 \in P
    <3> HIDE DEF V, n
    <3> QED BY <1>1, <1>2, <1>6
  <2>2. ASSUME NEW k \in 1..n, k - 1 \in P PROVE k \in P
    <3> DEFINE u == it[1..(k - 1)]
    <3>1. u \in Good /\ Spared(t, u) /\ Tells(t, u) /\ k \in 1..Len(u.leases) /\ k \in 0..n
      BY <1>1, <2>2 DEF Spared
    <3> HIDE DEF u, n
    <3>2. /\ NameFromConfig(u, k, cs, names) \in Good
          /\ Spared(u, NameFromConfig(u, k, cs, names))
          /\ Tells(u, NameFromConfig(u, k, cs, names))
      BY <3>1, NameFromConfigOK
    <3>3. /\ Spared(t, NameFromConfig(u, k, cs, names))
          /\ Tells(t, NameFromConfig(u, k, cs, names))
      BY <3>1, <3>2, SparedTrans, TellsTrans
    <3> QED BY <1>7, <3>1, <3>2, <3>3 DEF u
  <2> HIDE DEF P, n
  <2>3. \A k \in 0..n : k \in P
    BY <1>1, <2>1, <2>2, UpTo
  <2> QED BY <2>3 DEF P
<1> HIDE DEF n
<1> QED
  BY <1>1, <1>4, <1>8

-----------------------------------------------------------------------------
(* Ranges of addresses *)

Ranges == {Contexts[i] : i \in DOMAIN Contexts}

LEMMA RangeOK ==
    ASSUME NEW c \in Ranges
    PROVE  /\ c \in Context /\ c.id \in DOMAIN Contexts /\ Contexts[c.id] = c
           /\ Size(c) \in Nat /\ Size(c) > 0 /\ c.start \in Nat
           /\ \A k \in 0..Size(c) - 1 : c.start + k \in Addr /\ c.start + k \in c.start..c.end
<1>1. PICK i \in DOMAIN Contexts : c = Contexts[i]
  BY DEF Ranges
<1>2. /\ Contexts[i] \in Context /\ Contexts[i].id = i /\ c.start <= c.end
      /\ c.start..c.end \subseteq Addr
  BY <1>1, DhcpAssumption
<1>3. c.start \in Nat /\ c.end \in Nat
  <2>1. c.start \in Addr /\ c.end \in Addr
    BY <1>1, <1>2 DEF Context
  <2>2. \A a \in Addr : a \in Nat
    BY LeasesAssumption
  <2> QED BY <2>1, <2>2
<1>4. Size(c) \in Nat /\ Size(c) > 0
  BY <1>2, <1>3 DEF Size
<1>5. ASSUME NEW k \in 0..Size(c) - 1
      PROVE  c.start + k \in Addr /\ c.start + k \in c.start..c.end
  <2>1. c.start + k \in c.start..c.end
    BY <1>3 DEF Size
  <2> QED BY <1>2, <2>1
<1> QED
  BY <1>1, <1>2, <1>3, <1>4, <1>5

LEMMA Modulo ==
    ASSUME NEW a \in Nat, NEW b \in Nat, b > 0
    PROVE  a % b \in Nat /\ a % b < b
OBVIOUS

LEMMA ChainOK ==
    ASSUME NEW net PROVE Chain(net) \in Seq(Ranges)
<1> DEFINE S == {i \in DOMAIN Contexts : Contexts[i].net = net}
<1>1. Contexts \in Seq(Ranges) /\ S \in SUBSET (1..Len(Contexts))
  <2>1. Contexts \in Seq(Context)
    BY DhcpAssumption
  <2>2. \A i \in 1..Len(Contexts) : Contexts[i] \in Ranges
    BY <2>1 DEF Ranges
  <2> QED BY <2>1, <2>2
<1> HIDE DEF S
<1>2. Sifted(Contexts, S) \in Seq(Ranges)
  BY <1>1, SiftedOK
<1>3. Reverse(Sifted(Contexts, S)) \in Seq(Ranges)
  BY <1>2, ReverseType
<1> QED
  BY <1>3 DEF Chain, S

LEMMA ChainForOK ==
    ASSUME NEW m PROVE ChainFor(m) \in Seq(Ranges)
BY ChainOK DEF ChainFor

(* What is narrowed to is one range of the chain, for an address. *)
LEMMA NarrowContextOK ==
    ASSUME NEW chain \in Seq(Ranges), NEW addr, NEW tags, NarrowContext(chain, addr, tags) # <<>>
    PROVE  Head(NarrowContext(chain, addr, tags)) \in Ranges /\ addr # NoAddr
<1> DEFINE n == Len(chain)
           near(c) == addr # NoAddr /\ NetOf[addr] = c.net
           A == {i \in 1..n : ~chain[i].static /\ addr \in chain[i].start..chain[i].end
                              /\ MatchNetid(chain[i].all, chain[i].none, tags, TRUE)}
           B == {i \in 1..n : near(chain[i]) /\ chain[i].static}
           C == {i \in 1..n : near(chain[i])}
           a == IF A # {} THEN Min(A) ELSE 0
           b == IF B # {} THEN Min(B) ELSE 0
           c == IF C # {} THEN Min(C) ELSE 0
           v == AvailableIn(chain, addr, tags)
           at == IF v # 0 THEN v ELSE IF b # 0 THEN b ELSE c
<1>1. n \in Nat /\ \A i \in 1..n : chain[i] \in Ranges
  OBVIOUS
<1>2. A \in SUBSET (1..n) /\ \A i \in A : addr # NoAddr
  <2>1. A \in SUBSET (1..n) /\ \A i \in A : addr \in chain[i].start..chain[i].end
    <3> HIDE DEF n
    <3> QED OBVIOUS
  <2>2. ASSUME NEW i \in A PROVE addr # NoAddr
    <3>1. i \in 1..n /\ addr \in chain[i].start..chain[i].end
      BY <2>1
    <3>2. PICK j \in DOMAIN Contexts : chain[i] = Contexts[j]
      BY <1>1, <3>1 DEF Ranges
    <3>3. addr \in Addr
      BY <3>1, <3>2, DhcpAssumption
    <3> QED BY <3>3, HostsAssumption
  <2> QED BY <2>1, <2>2
<1>3. /\ B \in SUBSET (1..n) /\ C \in SUBSET (1..n)
      /\ (\A i \in B : addr # NoAddr) /\ (\A i \in C : addr # NoAddr)
  <2> HIDE DEF n
  <2> QED OBVIOUS
<1>4. v = 0 \/ v = a
  BY DEF AvailableIn, SelectInSeq
<1>5. NarrowContext(chain, addr, tags) = IF at = 0 THEN <<>> ELSE <<chain[at]>>
  BY DEF NarrowContext, SelectInSeq
<1> HIDE DEF n, A, B, C, v
<1>6. a \in 0..n /\ (a # 0 => a \in A)
  BY <1>1, <1>2, FirstPlace
<1>7. b \in 0..n /\ (b # 0 => b \in B) /\ c \in 0..n /\ (c # 0 => c \in C)
  BY <1>1, <1>3, FirstPlace
<1> HIDE DEF a, b, c
<1>8. at \in 0..n /\ (at # 0 => addr # NoAddr)
  BY <1>1, <1>2, <1>3, <1>4, <1>6, <1>7
<1> HIDE DEF at
<1> QED
  BY <1>1, <1>5, <1>8

-----------------------------------------------------------------------------
(* The search for an address *)

Epochs == {e \in [DOMAIN Contexts -> Nat] : \A i \in DOMAIN Contexts : e[i] < Size(Contexts[i])}
Ping   == [addr : Addr, left : 0..PingCacheTime]
State  == [t : Good, confs : Seq(Config), epoch : Epochs, pings : SUBSET Ping]

(* What has been found so far is an address that no lease has. *)
Finding(t) == {w \in [addr : Addr \cup {NoAddr}, epoch : Epochs, pings : SUBSET Ping] :
                  w.addr # NoAddr => FindByAddr(t, w.addr) = 0}

(* It is one of a set A, or none; at the end, of those a range of the chain
   may serve, and no router, lease or entry has.                            *)
Found(A) == [addr : A \cup {NoAddr}, epoch : Epochs, pings : SUBSET Ping]

Open(s, chain) ==
    {a \in Addr : FindByAddr(s.t, a) = 0 /\ a \notin Routers(chain) /\ a \notin Reserved(s.confs)}

Serves(c, a, tags) ==
    ~c.static /\ a \in c.start..c.end /\ MatchNetid(c.all, c.none, tags, TRUE)

Offerable(s, chain, tags) ==
    {a \in Open(s, chain) : \E i \in 1..Len(chain) : Serves(chain[i], a, tags)}

LEMMA EpochStep ==
    ASSUME NEW e \in Epochs, NEW c \in Ranges
    PROVE  [e EXCEPT ![c.id] = (e[c.id] + 1) % Size(c)] \in Epochs
<1> DEFINE v == (e[c.id] + 1) % Size(c)
<1>1. /\ c.id \in DOMAIN Contexts /\ Contexts[c.id] = c /\ Size(c) \in Nat /\ Size(c) > 0
  BY RangeOK
<1>2. /\ e \in [DOMAIN Contexts -> Nat] /\ e[c.id] + 1 \in Nat
      /\ \A i \in DOMAIN Contexts : e[i] < Size(Contexts[i])
  BY <1>1 DEF Epochs
<1>3. v \in Nat /\ v < Size(c)
  BY <1>1, <1>2, Modulo
<1> HIDE DEF v
<1>4. [e EXCEPT ![c.id] = v] \in [DOMAIN Contexts -> Nat]
      /\ \A i \in DOMAIN Contexts : [e EXCEPT ![c.id] = v][i] < Size(Contexts[i])
  BY <1>1, <1>2, <1>3
<1> QED
  BY <1>4 DEF Epochs, v

LEMMA TryAddressOK ==
    ASSUME NEW s, NEW A, NEW w \in Found(A), NEW c \in Ranges, NEW chain,
           NEW addr \in Addr, NEW busy, addr \in Open(s, chain) => addr \in A
    PROVE  TryAddress(s, w, c, chain, addr, busy) \in Found(A)
<1> DEFINE u == TryAddress(s, w, c, chain, addr, busy)
           e == [w.epoch EXCEPT ![c.id] = (w.epoch[c.id] + 1) % Size(c)]
           p == [addr |-> addr, left |-> PingCacheTime]
           ps == w.pings \cup {p}
<1>1. w \in [addr : A \cup {NoAddr}, epoch : Epochs, pings : SUBSET Ping]
  BY DEF Found
<1>2. \/ u = w
      \/ addr \in Open(s, chain) /\ u = [w EXCEPT !.addr = addr]
      \/ u = [w EXCEPT !.epoch = e]
      \/ addr \in Open(s, chain) /\ u = [w EXCEPT !.addr = addr, !.pings = ps]
  BY <1>1 DEF TryAddress, Open
<1>3. e \in Epochs
  BY <1>1, EpochStep
<1>4. ps \in SUBSET Ping
  <2>1. p \in Ping
    BY DhcpAssumption DEF Ping
  <2> HIDE DEF p
  <2> QED BY <1>1, <2>1
<1> HIDE DEF u, e, ps
<1>5. u \in Found(A)
  BY <1>1, <1>2, <1>3, <1>4 DEF Found
<1> QED
  BY <1>5 DEF u

LEMMA SearchRangeOK ==
    ASSUME NEW s, NEW A, NEW w \in Found(A), NEW c \in Ranges, NEW chain, NEW hw \in Hw,
           NEW busy, \A a \in Open(s, chain) : a \in c.start..c.end => a \in A
    PROVE  SearchRange(s, w, c, chain, hw, busy) \in Found(A)
<1> DEFINE n == Size(c)
           seed == Hash[hw] + w.epoch[c.id]
           ring == [k \in 1..Size(c) |-> c.start + ((seed + k - 1) % Size(c))]
           V == Found(A)
           it == CHOOSE iter : iter = [S \in SUBSET DOMAIN ring |->
                    IF S = {} THEN w
                    ELSE TryAddress(s, iter[S \ {Max(S)}], c, chain, ring[Max(S)], busy)]
           step == [x \in (1..n) \X V |-> TryAddress(s, x[2], c, chain, ring[x[1]], busy)]
<1>1. n \in Nat /\ DOMAIN ring = 1..n
  BY RangeOK
<1>2. ASSUME NEW k \in 1..n PROVE ring[k] \in Addr /\ ring[k] \in c.start..c.end
  <2>1. seed \in Nat
    <3>1. w.epoch \in Epochs /\ c.id \in DOMAIN Contexts
      BY RangeOK DEF Found
    <3>2. w.epoch[c.id] \in Nat
      BY <3>1 DEF Epochs
    <3>3. Hash[hw] \in Nat
      BY DhcpAssumption
    <3> QED BY <3>2, <3>3
  <2> HIDE DEF seed
  <2> DEFINE a == seed + k - 1
  <2>2. a \in Nat /\ n > 0
    BY <1>1, <2>1
  <2> HIDE DEF a
  <2>3. a % n \in 0..n - 1
    <3>1. a % n \in Nat /\ a % n < n
      BY <1>1, <2>2, Modulo
    <3> HIDE DEF n
    <3> QED BY <1>1, <3>1
  <2>4. c.start + (a % n) \in Addr /\ c.start + (a % n) \in c.start..c.end
    BY <2>3, RangeOK
  <2> QED BY <2>4 DEF a
<1>3. w \in V
  OBVIOUS
<1>4. SearchRange(s, w, c, chain, hw, busy) = it[DOMAIN ring]
  BY DEF SearchRange, FoldLeft, MapThenFoldSet
<1> HIDE DEF V, ring, n
<1>5. step \in [(1..n) \X V -> V]
  <2>1. ASSUME NEW k \in 1..n, NEW v \in V PROVE TryAddress(s, v, c, chain, ring[k], busy) \in V
    <3>1. ring[k] \in Addr /\ (ring[k] \in Open(s, chain) => ring[k] \in A)
      BY <1>2
    <3> QED BY <3>1, TryAddressOK DEF V
  <2> QED BY <2>1
<1>6. it = [S \in SUBSET (1..n) |->
              IF S = {} THEN w
              ELSE TryAddress(s, it[S \ {Max(S)}], c, chain, ring[Max(S)], busy)]
  <2>1. PICK some \in [SUBSET (1..n) -> V] : IteratesOn(some, n, V, w, step)
    <3> HIDE DEF step
    <3> QED BY <1>1, <1>3, <1>5, IterateEach
  <2>2. ASSUME NEW S \in SUBSET (1..n)
        PROVE  some[S] = IF S = {} THEN w
                         ELSE TryAddress(s, some[S \ {Max(S)}], c, chain, ring[Max(S)], busy)
    BY <2>1 DEF IteratesOn
  <2>3. some = [S \in SUBSET (1..n) |->
                  IF S = {} THEN w
                  ELSE TryAddress(s, some[S \ {Max(S)}], c, chain, ring[Max(S)], busy)]
    <3>1. some = [S \in SUBSET (1..n) |-> some[S]]
      OBVIOUS
    <3> QED BY <2>2, <3>1
  <2> QED BY <1>1, <2>3
<1> HIDE DEF it, step
<1>7. it[1..0] = w
  BY <1>1, <1>6
<1>8. ASSUME NEW k \in 1..n
      PROVE  it[1..k] = TryAddress(s, it[1..(k - 1)], c, chain, ring[k], busy)
  <2> DEFINE S == 1..k
  <2>1. S \in SUBSET (1..n) /\ S # {} /\ Max(S) = k /\ S \ {Max(S)} = 1..(k - 1)
    BY <1>1, Segment
  <2> HIDE DEF S
  <2>2. it[S] = TryAddress(s, it[S \ {Max(S)}], c, chain, ring[Max(S)], busy)
    BY <1>6, <2>1
  <2> QED BY <2>1, <2>2 DEF S
<1>9. \A k \in 0..n : it[1..k] \in V
  <2> DEFINE P == {k \in 0..n : it[1..k] \in V}
  <2>1. 0 \in P
    BY <1>1, <1>3, <1>7
  <2>2. ASSUME NEW k \in 1..n, k - 1 \in P PROVE k \in P
    <3>1. /\ it[1..(k - 1)] \in V /\ ring[k] \in Addr /\ k \in 0..n
          /\ ring[k] \in Open(s, chain) => ring[k] \in A
      BY <1>1, <1>2, <2>2
    <3> QED BY <1>8, <3>1, TryAddressOK DEF V
  <2> HIDE DEF P
  <2>3. \A k \in 0..n : k \in P
    BY <1>1, <2>1, <2>2, UpTo
  <2> QED BY <2>3 DEF P
<1> QED
  BY <1>1, <1>4, <1>9 DEF V

LEMMA AddressAllocateOK ==
    ASSUME NEW s \in State, NEW chain \in Seq(Ranges), NEW hw \in Hw, NEW tags, NEW busy
    PROVE  /\ AddressAllocate(s, chain, hw, tags, busy) \in Finding(s.t)
           /\ AddressAllocate(s, chain, hw, tags, busy) \in Found(Offerable(s, chain, tags))
<1> DEFINE m == Len(chain)
           n == m + m
           first == [i \in DOMAIN chain |-> <<FALSE, i>>]
           second == [i \in DOMAIN chain |-> <<TRUE, i>>]
           steps == first \o second
           base == [addr |-> NoAddr, epoch |-> s.epoch, pings |-> s.pings]
           next(v, x) == IF chain[x[2]].static
                            \/ ~MatchNetid(chain[x[2]].all, chain[x[2]].none, tags, x[1])
                         THEN v ELSE SearchRange(s, v, chain[x[2]], chain, hw, busy)
           A == Offerable(s, chain, tags)
           V == Found(A)
           it == CHOOSE iter : iter = [S \in SUBSET DOMAIN steps |->
                    IF S = {} THEN base ELSE next(iter[S \ {Max(S)}], steps[Max(S)])]
           step == [x \in (1..n) \X V |-> next(x[2], steps[x[1]])]
<1>1. /\ m \in Nat /\ n \in Nat /\ DOMAIN steps = 1..n
      /\ \A k \in 1..n : steps[k][2] \in 1..m /\ steps[k][1] \in BOOLEAN
  <2>1. m \in Nat /\ DOMAIN chain = 1..m
    OBVIOUS
  <2> HIDE DEF m
  <2> DEFINE T == BOOLEAN \X (1..m)
             f(i) == <<FALSE, i>>
             g(i) == <<TRUE, i>>
  <2>2. ASSUME NEW i \in 1..m PROVE f(i) \in T /\ g(i) \in T
    OBVIOUS
  <2>3. first = [i \in 1..m |-> f(i)] /\ second = [i \in 1..m |-> g(i)]
    BY <2>1
  <2>4. \A x \in T : x[2] \in 1..m /\ x[1] \in BOOLEAN
    OBVIOUS
  <2> HIDE DEF T, f, g, first, second
  <2>5. first \in Seq(T) /\ Len(first) = m
    BY <2>1, <2>2, <2>3
  <2>6. second \in Seq(T) /\ Len(second) = m
    BY <2>1, <2>2, <2>3
  <2>7. steps \in Seq(T) /\ Len(steps) = n
    BY <2>1, <2>5, <2>6
  <2> HIDE DEF steps
  <2>8. n \in Nat /\ DOMAIN steps = 1..n /\ \A k \in 1..n : steps[k] \in T
    BY <2>1, <2>7
  <2> QED BY <2>1, <2>4, <2>8
<1>2. base \in V
  <2>1. s.epoch \in Epochs /\ s.pings \in SUBSET Ping
    BY DEF State
  <2> QED BY <2>1 DEF Found
<1>3. AddressAllocate(s, chain, hw, tags, busy) = it[DOMAIN steps]
  BY DEF AddressAllocate, FoldLeft, MapThenFoldSet
<1>4. ASSUME NEW k \in 1..n, NEW v \in V PROVE next(v, steps[k]) \in V
  <2> DEFINE i == steps[k][2]  c == chain[i]  pass == steps[k][1]
  <2>1. c \in Ranges /\ i \in 1..m /\ pass \in BOOLEAN
    <3>1. i \in 1..m
      BY <1>1
    <3>2. pass \in BOOLEAN
      <4> HIDE DEF steps, n, m
      <4> QED BY <1>1, Zenon
    <3> HIDE DEF i, pass
    <3> QED BY <3>1, <3>2
  <2>2. next(v, steps[k]) = v
        \/ (/\ ~c.static /\ MatchNetid(c.all, c.none, tags, pass)
            /\ next(v, steps[k]) = SearchRange(s, v, c, chain, hw, busy))
    OBVIOUS
  <2> HIDE DEF c, i, pass, V, steps, n, next
  <2>3. ASSUME ~c.static, MatchNetid(c.all, c.none, tags, pass)
        PROVE  \A a \in Open(s, chain) : a \in c.start..c.end => a \in A
    <3>1. MatchNetid(c.all, c.none, tags, TRUE)
      BY <2>3 DEF MatchNetid
    <3>2. \A a \in c.start..c.end : Serves(c, a, tags)
      BY <2>3, <3>1 DEF Serves
    <3> QED BY <2>1, <3>2 DEF Offerable, c
  <2>4. ASSUME \A a \in Open(s, chain) : a \in c.start..c.end => a \in A
        PROVE  SearchRange(s, v, c, chain, hw, busy) \in V
    <3> HIDE DEF A
    <3> QED BY <2>1, <2>4, SearchRangeOK DEF V
  <2> QED BY <1>4, <2>2, <2>3, <2>4
<1> HIDE DEF V, A, steps, n, m, next, base
<1>5. step \in [(1..n) \X V -> V]
  BY <1>4
<1>6. it = [S \in SUBSET (1..n) |->
              IF S = {} THEN base ELSE next(it[S \ {Max(S)}], steps[Max(S)])]
  <2>1. PICK some \in [SUBSET (1..n) -> V] : IteratesOn(some, n, V, base, step)
    <3> HIDE DEF step
    <3> QED BY <1>1, <1>2, <1>5, IterateEach
  <2>2. ASSUME NEW S \in SUBSET (1..n)
        PROVE  some[S] = IF S = {} THEN base ELSE next(some[S \ {Max(S)}], steps[Max(S)])
    BY <2>1 DEF IteratesOn
  <2>3. some = [S \in SUBSET (1..n) |->
                  IF S = {} THEN base ELSE next(some[S \ {Max(S)}], steps[Max(S)])]
    <3>1. some = [S \in SUBSET (1..n) |-> some[S]]
      OBVIOUS
    <3> QED BY <2>2, <3>1
  <2> QED BY <1>1, <2>3
<1> HIDE DEF it, step
<1>7. it[1..0] = base
  BY <1>1, <1>6
<1>8. ASSUME NEW k \in 1..n PROVE it[1..k] = next(it[1..(k - 1)], steps[k])
  <2> DEFINE S == 1..k
  <2>1. S \in SUBSET (1..n) /\ S # {} /\ Max(S) = k /\ S \ {Max(S)} = 1..(k - 1)
    BY <1>1, Segment
  <2> HIDE DEF S
  <2>2. it[S] = next(it[S \ {Max(S)}], steps[Max(S)])
    BY <1>6, <2>1
  <2> QED BY <2>1, <2>2 DEF S
<1>9. \A k \in 0..n : it[1..k] \in V
  <2> DEFINE P == {k \in 0..n : it[1..k] \in V}
  <2>1. 0 \in P
    BY <1>1, <1>2, <1>7
  <2>2. ASSUME NEW k \in 1..n, k - 1 \in P PROVE k \in P
    <3>1. it[1..(k - 1)] \in V /\ k \in 0..n
      BY <1>1, <2>2
    <3> QED BY <1>4, <1>8, <3>1
  <2> HIDE DEF P
  <2>3. \A k \in 0..n : k \in P
    BY <1>1, <2>1, <2>2, UpTo
  <2> QED BY <2>3 DEF P
<1> DEFINE w == AddressAllocate(s, chain, hw, tags, busy)
<1>10. w \in Found(A)
  BY <1>1, <1>3, <1>9 DEF V
<1> HIDE DEF w
<1>11. \A a \in A : a \in Addr /\ FindByAddr(s.t, a) = 0
  BY DEF A, Offerable, Open
<1>12. w \in Finding(s.t)
  BY <1>10, <1>11 DEF Found, Finding
<1> QED
  BY <1>10, <1>12 DEF A, w

-----------------------------------------------------------------------------
(* What is made of a packet *)

Term == 0..MaxLeft \cup {Never}

LEMMA TermLeft == Term \subseteq Left
BY LeasesAssumption DEF Term, Left, LongGone

(* What a message says, whoever sends it. *)
Wellformed(m) ==
    /\ m.hw \in Hw /\ m.clid \in Clid \cup {NoClid} /\ m.name \in Name \cup {NoName}
    /\ m.reqip \in Addr \cup {NoAddr} /\ m.ciaddr \in Addr \cup {NoAddr} /\ m.time \in Term
    /\ m.type = "bootp" => m.clid = NoClid

(* What dhcp_reply finds out: the identifier it goes by is in no lease but
   the one it has found.                                                    *)
Describes(q, s) ==
    /\ q = [m |-> q.m, chain |-> q.chain, lease |-> q.lease, at |-> q.at, conf |-> q.conf,
            clid |-> q.clid, name |-> q.name, auth |-> q.auth, tags |-> q.tags]
    /\ Wellformed(q.m) /\ q.chain \in Seq(Ranges)
    /\ q.at \in 0..Len(s.confs) /\ q.conf \in Config /\ (q.conf.addr # NoAddr => q.at # 0)
    /\ q.clid \in Clid \cup {NoClid} /\ q.name \in Name \cup {NoName} /\ q.auth \in BOOLEAN
    /\ q.lease \in 0..Len(s.t.leases)
    /\ q.clid # NoClid =>
          \A j \in 1..Len(s.t.leases) : j # q.lease => s.t.leases[j].clid # q.clid

(* A reply that gives an address leaves the state in order. *)
Sane(r) == r.s \in State /\ (r.kind \in {"ack", "bootp"} => r.addr \in Addr /\ r.left \in Term)

LEMMA StateParts ==
    ASSUME NEW s \in State
    PROVE  /\ s.t \in Good /\ s.t \in Sound /\ s.t \in Table /\ Unique(s.t)
           /\ Len(s.t.leases) \in Nat /\ Len(s.t.leases) <= DhcpMax
           /\ s.confs \in Seq(Config) /\ s.epoch \in Epochs /\ s.pings \in SUBSET Ping
<1>1. s.t \in Good
  BY DEF State
<1> QED
  BY <1>1 DEF State, Good, Sound, Table

LEMMA StateTable ==
    ASSUME NEW s \in State, NEW t \in Good
    PROVE  [s EXCEPT !.t = t] \in State /\ [s EXCEPT !.t = t].t = t
           /\ [s EXCEPT !.t = t].confs = s.confs
BY DEF State

LEMMA PrunedOK ==
    ASSUME NEW s \in State, NEW i
    PROVE  /\ Pruned(s, i) \in State /\ Pruned(s, i).confs = s.confs
           /\ \A j \in 1..Len(Pruned(s, i).t.leases) : \E k \in 1..Len(s.t.leases) :
                k # i /\ Pruned(s, i).t.leases[j] = s.t.leases[k]
<1> DEFINE u == LeasePrune(s.t, i)
<1>1. /\ u \in Good
      /\ \A j \in 1..Len(u.leases) : \E k \in 1..Len(s.t.leases) :
           k # i /\ u.leases[j] = s.t.leases[k]
  <2> DEFINE t == s.t
  <2>1. t \in Sound /\ t \in Good
    BY ONLY StateParts, s \in State DEF t
  <2> HIDE DEF t
  <2>2. /\ LeasePrune(t, i) \in Good
        /\ \A j \in 1..Len(LeasePrune(t, i).leases) : \E k \in 1..Len(t.leases) :
             k # i /\ ~Expired(t.leases[k]) /\ LeasePrune(t, i).leases[j] = t.leases[k]
    BY ONLY <2>1, LeasePruneOK
  <2> QED BY ONLY <2>2 DEF t, u
<1>2. Pruned(s, i) = [s EXCEPT !.t = u]
  BY DEF Pruned
<1> HIDE DEF u
<1> QED
  BY <1>1, <1>2, StateTable

LEMMA SilentOK ==
    ASSUME NEW s \in State PROVE Sane(Silent(s))
BY DEF Silent, Outcome, Sane

LEMMA OutcomeOK ==
    ASSUME NEW s \in State, NEW kind, NEW addr \in Addr, NEW left \in Term, NEW why
    PROVE  Sane(Outcome(s, kind, addr, left, why))
BY DEF Outcome, Sane

LEMMA AfterOK ==
    ASSUME NEW s \in State, NEW w \in Finding(s.t)
    PROVE  After(s, w) \in State /\ After(s, w).t = s.t /\ After(s, w).confs = s.confs
BY DEF After, State, Finding

(* The time given is one the configuration allows. *)
LEMMA CalcTimeOK ==
    ASSUME NEW c \in Ranges, NEW q, q.conf \in Config, q.m.time \in Term
    PROVE  CalcTime(c, q) \in Term
<1> DEFINE given == IF q.conf.time # 0 THEN q.conf.time ELSE c.time
           asked == IF q.m.time = Never \/ q.m.time >= MinTime THEN q.m.time ELSE MinTime
<1>1. given \in Term
  <2>1. q.conf.time \in Term
    BY DEF Config, Term
  <2>2. c.time \in Term
    BY RangeOK DEF Context, Term
  <2> QED BY <2>1, <2>2
<1>2. asked \in Term
  <2>1. MinTime \in Term
    BY DhcpAssumption, LeasesAssumption DEF Term
  <2> QED BY <2>1
<1>3. CalcTime(c, q) \in {given, asked}
  BY DEF CalcTime
<1> HIDE DEF given, asked
<1> QED
  BY <1>1, <1>2, <1>3

LEMMA QueryOK ==
    ASSUME NEW s \in State, NEW m, Wellformed(m)
    PROVE  Describes(Query(s, m), s) /\ Query(s, m).m = m
<1> DEFINE lease == IF m.type = "bootp" THEN 0 ELSE FindByClient(s.t, m.hw, m.clid)
           chain == ChainFor(m)
           clid  == ClidOf(s, m, lease)
           first == FindConfig(s.confs, Nets(chain), clid, m.hw, NoName)
           named == FindConfig(s.confs, Nets(chain), NoClid, m.hw, m.name)
           at    == Entry(s, m, first, named)
           conf  == IF at = 0 THEN Blank ELSE s.confs[at]
           auth  == first # 0 /\ conf.name # NoName
           q     == Query(s, m)
<1>1. q = Described(m, chain, lease, clid, at, conf, auth)
  BY DEF Query, Recognised, Matched, Configured
<1>2. s.t \in Table /\ Unique(s.t) /\ s.confs \in Seq(Config) /\ Len(s.t.leases) \in Nat
  BY StateParts
<1>3. lease \in 0..Len(s.t.leases)
  BY <1>2, FindByClientOK
<1>4. /\ clid \in Clid \cup {NoClid}
      /\ clid # NoClid =>
            \A j \in 1..Len(s.t.leases) : j # lease => s.t.leases[j].clid # clid
  <2>1. CASE lease # 0 /\ m.clid = NoClid
    <3>1. clid = s.t.leases[lease].clid /\ lease \in 1..Len(s.t.leases)
      BY <1>2, <1>3, <2>1 DEF ClidOf
    <3> HIDE DEF lease, clid
    <3>2. s.t.leases[lease] \in Lease
      BY <1>2, <3>1, LeaseAt
    <3>3. clid \in Clid \cup {NoClid}
      BY <3>1, <3>2 DEF Lease
    <3> QED BY <1>2, <3>1, <3>3 DEF Unique
  <2>2. CASE ~(lease # 0 /\ m.clid = NoClid)
    <3>1. clid = m.clid
      BY <2>2 DEF ClidOf
    <3>2. CASE m.type = "bootp"
      BY <3>1, <3>2 DEF Wellformed
    <3>3. CASE m.type # "bootp"
      <4>1. lease = FindByClient(s.t, m.hw, m.clid)
        BY <3>3
      <4> HIDE DEF lease, clid
      <4>2. (\A j \in 1..Len(s.t.leases) : m.clid # NoClid => s.t.leases[j].clid # m.clid)
            \/ (lease # 0 /\ m.clid # NoClid /\ s.t.leases[lease].clid = m.clid)
        BY <1>2, <4>1, FindByClientOK
      <4>3. lease # 0 => lease \in 1..Len(s.t.leases)
        BY <1>2, <1>3
      <4> QED BY <1>2, <3>1, <4>2, <4>3 DEF Wellformed, Unique
    <3> QED BY <3>2, <3>3
  <2> QED BY <2>1, <2>2
<1>5. chain \in Seq(Ranges)
  BY ChainForOK
<1> HIDE DEF lease, chain, clid
<1>6. first \in 0..Len(s.confs) /\ named \in 0..Len(s.confs)
  BY <1>2, FindConfigOK
<1> HIDE DEF first, named
<1>7. at \in 0..Len(s.confs)
  BY <1>6 DEF Entry
<1> HIDE DEF at
<1>8. conf \in Config /\ (conf.addr # NoAddr => at # 0)
  <2>1. CASE at = 0
    BY <2>1, BlankOK DEF Blank
  <2>2. CASE at # 0
    <3>1. at \in 1..Len(s.confs)
      BY <1>2, <1>7, <2>2
    <3> QED BY <1>2, <2>2, <3>1, ConfigAt
  <2> QED BY <2>1, <2>2
<1> HIDE DEF conf
<1>9. auth \in BOOLEAN /\ (auth => conf.name \in Name \cup {NoName})
  BY <1>8 DEF Config
<1> HIDE DEF auth
<1> DEFINE c == IF conf.noclid THEN NoClid ELSE clid
           name == IF auth THEN conf.name ELSE IF m.type = "bootp" THEN NoName ELSE m.name
           tags == m.tags \cup conf.tags \cup (IF at # 0 THEN {"known"} ELSE {})
                   \cup (IF m.type = "bootp" THEN {"bootp"} ELSE {})
<1>10. q = [m |-> m, chain |-> chain, lease |-> lease, at |-> at, conf |-> conf,
            clid |-> c, name |-> name, auth |-> auth, tags |-> tags]
  BY <1>1 DEF Described
<1>11. c \in Clid \cup {NoClid} /\ (c = clid \/ c = NoClid)
  BY <1>4
<1>12. name \in Name \cup {NoName}
  BY <1>9 DEF Wellformed
<1> HIDE DEF c, name, tags, q
<1>13. /\ q.m = m /\ q.chain = chain /\ q.lease = lease /\ q.at = at /\ q.conf = conf
       /\ q.clid = c /\ q.name = name /\ q.auth = auth /\ q.tags = tags
  BY <1>10
<1>14. q.clid # NoClid =>
          \A j \in 1..Len(s.t.leases) : j # q.lease => s.t.leases[j].clid # q.clid
  BY <1>4, <1>11, <1>13
<1>15. q = [m |-> q.m, chain |-> q.chain, lease |-> q.lease, at |-> q.at, conf |-> q.conf,
            clid |-> q.clid, name |-> q.name, auth |-> q.auth, tags |-> q.tags]
  BY <1>10, <1>13, Zenon
<1>16. Describes(q, s)
  BY <1>3, <1>5, <1>7, <1>8, <1>9, <1>11, <1>12, <1>13, <1>14, <1>15 DEF Describes
<1> QED
  BY <1>13, <1>16 DEF q

LEMMA MarkedOK ==
    ASSUME NEW t \in Table, NEW i \in 1..Len(t.leases)
    PROVE  LET u == [t EXCEPT !.leases[i].changed = TRUE] IN
           u \in Table /\ Alike(t, u) /\ Spared(t, u)
<1> DEFINE k == t.leases[i]
           l == [k EXCEPT !.changed = TRUE]
           ls == [t.leases EXCEPT ![i] = l]
           u == [t EXCEPT !.leases[i].changed = TRUE]
<1>1. k \in Lease
  BY LeaseAt
<1>2. l \in Lease /\ l.addr = k.addr /\ l.name = k.name /\ l.clid = k.clid
      /\ l.hw = k.hw /\ l.left = k.left
  <2> HIDE DEF k
  <2> QED BY <1>1 DEF Lease
<1>3. u = [t EXCEPT !.leases = ls]
  BY DEF Table
<1> HIDE DEF l
<1>4. ls \in Seq(Lease) /\ Len(ls) = Len(t.leases)
      /\ \A j \in 1..Len(t.leases) : ls[j] = IF j = i THEN l ELSE t.leases[j]
  BY <1>2, LeaseSet
<1> HIDE DEF ls, u
<1>5. u \in Table /\ u.leases = ls /\ u.fileDirty = t.fileDirty
  BY <1>3, <1>4 DEF Table
<1>6. Alike(t, u) /\ Spared(t, u)
  BY <1>2, <1>4, <1>5 DEF Alike, Spared, SameNames, Tied
<1> QED
  BY <1>5, <1>6 DEF u

(* A table with one lease brought up to date: the machine, its name, the time. *)
Updated(t, i, hw, clid, name, auth, time) ==
    LET u == SetHwaddr(t, i, hw, clid)
        v == IF name # NoName THEN SetHostname(u, i, name, auth) ELSE u
    IN SetInterface(SetExpires(v, i, time), i)

(* Lease i is that of a machine, for a time; the others are as they were. *)
Changed(t, u, i, hw, clid, left) ==
    /\ Tells(t, u)
    /\ Len(u.leases) = Len(t.leases)
    /\ \A j \in 1..Len(t.leases) : j # i => Tied(u.leases[j], t.leases[j])
    /\ u.leases[i].addr = t.leases[i].addr /\ u.leases[i].hw = hw /\ u.leases[i].left = left
    /\ u.leases[i].clid = (IF clid # NoClid THEN clid ELSE t.leases[i].clid)
    /\ ~u.fileDirty => ~t.fileDirty /\ Tied(u.leases[i], t.leases[i]) /\ SameNames(t, u)

LEMMA ChangedBy ==
    ASSUME NEW t, NEW u, NEW v, NEW w, NEW x, NEW i \in 1..Len(t.leases),
           NEW hw, NEW clid, NEW left, Rehoused(t, u, i, hw, clid), Spared(u, v),
           Alike(v, w), Lasting(v, w, i, left), Spared(w, x), Tells(t, x)
    PROVE  Changed(t, x, i, hw, clid, left)
<1>1. ASSUME NEW j \in 1..Len(t.leases), j # i PROVE Tied(x.leases[j], t.leases[j])
  BY <1>1 DEF Rehoused, Spared, Alike, Lasting, Tied
<1>2. /\ x.leases[i].addr = t.leases[i].addr /\ x.leases[i].hw = hw /\ x.leases[i].left = left
      /\ x.leases[i].clid = (IF clid # NoClid THEN clid ELSE t.leases[i].clid)
  BY DEF Rehoused, Spared, Alike, Lasting, Tied
<1>3. ASSUME ~x.fileDirty
      PROVE  ~t.fileDirty /\ Tied(x.leases[i], t.leases[i]) /\ SameNames(t, x)
  <2>1. ~t.fileDirty /\ Tied(x.leases[i], t.leases[i])
    BY <1>3 DEF Rehoused, Spared, Alike, Lasting, Tied
  <2>2. ~u.fileDirty /\ ~v.fileDirty /\ ~w.fileDirty
    BY <1>3 DEF Spared, Lasting
  <2>3. SameNames(t, x)
    BY <1>3, <2>2 DEF Rehoused, Spared, SameNames, Alike
  <2> QED BY <2>1, <2>3
<1>4. Len(x.leases) = Len(t.leases)
  BY DEF Rehoused, Spared, Alike
<1> QED
  BY <1>1, <1>2, <1>3, <1>4 DEF Changed

LEMMA ChangedAfter ==
    ASSUME NEW s, NEW t, NEW u, NEW i \in 1..Len(s.leases), NEW hw, NEW clid, NEW left,
           Spared(s, t), Tells(s, t), Changed(t, u, i, hw, clid, left)
    PROVE  Changed(s, u, i, hw, clid, left)
BY TellsTrans DEF Spared, Changed, SameNames, Tied

LEMMA UpdatedOK ==
    ASSUME NEW t \in Good, NEW i \in 1..Len(t.leases), NEW hw \in Hw,
           NEW clid \in Clid \cup {NoClid}, NEW name \in Name \cup {NoName},
           NEW auth \in BOOLEAN, NEW time \in Term,
           clid # NoClid => \A j \in 1..Len(t.leases) : j # i => t.leases[j].clid # clid
    PROVE  LET u == Updated(t, i, hw, clid, name, auth, time) IN
           u \in Good /\ Changed(t, u, i, hw, clid, time)
<1> DEFINE u == SetHwaddr(t, i, hw, clid)
           v == IF name # NoName THEN SetHostname(u, i, name, auth) ELSE u
           w == SetExpires(v, i, time)
           x == SetInterface(w, i)
<1>1. t \in Sound /\ t \in Table
  BY DEF Good, Sound
<1>2. /\ u \in Good /\ u \in Sound /\ Len(u.leases) = Len(t.leases)
      /\ Rehoused(t, u, i, hw, clid)
  <2>1. hw \in Hw \cup {NoHw}
        /\ \A j \in 1..Len(t.leases) : j # i /\ clid # NoClid => t.leases[j].clid # clid
    OBVIOUS
  <2>2. u \in Sound /\ (t \in Good => u \in Good) /\ Len(u.leases) = Len(t.leases)
    BY <1>1, <2>1, HwaddrSound
  <2>3. Rehoused(t, u, i, hw, clid)
    BY <1>1, <2>1, SetHwaddrOK
  <2> QED BY <2>2, <2>3
<1> HIDE DEF u
<1>3. v \in Good /\ Len(v.leases) = Len(t.leases) /\ Spared(u, v)
  <2>1. CASE name = NoName
    BY <1>2, <2>1, SparedSelf
  <2>2. CASE name # NoName
    <3>1. v = SetHostname(u, i, name, auth) /\ name \in Name /\ i \in 1..Len(u.leases)
      BY <1>2, <2>2
    <3> HIDE DEF v
    <3> QED BY <1>2, <3>1, SetHostnameOK DEF Spared
  <2> QED BY <2>1, <2>2
<1> HIDE DEF v
<1>4. v \in Table /\ v \in Sound /\ i \in 1..Len(v.leases) /\ time \in Left
  BY <1>3, TermLeft DEF Good, Sound
<1>5. w \in Table /\ Alike(v, w) /\ Lasting(v, w, i, time)
  BY <1>4, SetExpiresOK
<1> HIDE DEF w
<1>6. w \in Good /\ w \in Sound /\ i \in 1..Len(w.leases)
  BY <1>3, <1>4, <1>5, AlikeSound DEF Alike
<1>7. x \in Table /\ Alike(w, x) /\ Spared(w, x)
  BY <1>5, <1>6, SetInterfaceOK
<1> HIDE DEF x
<1>8. x \in Good
  BY <1>6, <1>7, AlikeSound
<1>10. Tells(w, x)
  BY <1>5, <1>6, SetInterfaceTells DEF x
<1>11. Tells(v, w)
  BY <1>4, SetExpiresTells DEF w
<1>12. Tells(u, v)
  <2>1. u \in Table /\ i \in 1..Len(u.leases)
    BY <1>2 DEF Good, Sound
  <2>2. name # NoName => name \in Name
    OBVIOUS
  <2> QED BY <2>1, <2>2, SetHostnameTells, TellsSelf DEF v
<1>13. Tells(t, u)
  BY <1>1, SetHwaddrTells DEF u
<1>14. Tells(t, x)
  BY <1>10, <1>11, <1>12, <1>13, TellsTrans
<1>9. Changed(t, x, i, hw, clid, time)
  BY <1>2, <1>3, <1>5, <1>7, <1>14, ChangedBy
<1> QED
  BY <1>8, <1>9 DEF Updated, x, w, v, u

SameLines(t, u) ==
    /\ Len(u.leases) = Len(t.leases) /\ SameNames(t, u)
    /\ \A j \in 1..Len(t.leases) : Tied(u.leases[j], t.leases[j])

(* A lease, 0 for a new one, is given to a machine for a time; of the others
   none is made and none is lost.                                           *)
Gave(t, u, lease, addr, hw, clid, left) ==
  /\ Tells(t, u)
  /\ \E g \in 1..Len(u.leases) :
      /\ u.leases[g].addr = (IF lease = 0 THEN addr ELSE t.leases[lease].addr)
      /\ u.leases[g].hw = hw /\ u.leases[g].left = left
      /\ u.leases[g].clid = (IF clid # NoClid THEN clid
                             ELSE IF lease = 0 THEN NoClid ELSE t.leases[lease].clid)
      /\ \A j \in 1..Len(u.leases) : j # g =>
            \E k \in 1..Len(t.leases) : k # lease /\ Tied(u.leases[j], t.leases[k])
      /\ \A k \in 1..Len(t.leases) : k # lease =>
            \E j \in 1..Len(u.leases) : Tied(u.leases[j], t.leases[k])
      /\ ~u.fileDirty => /\ ~t.fileDirty /\ lease # 0 /\ Tied(u.leases[g], t.leases[lease])
                         /\ SameLines(t, u)

LEMMA GaveKept ==
    ASSUME NEW t, NEW u, Len(t.leases) \in Nat, NEW i \in 1..Len(t.leases), NEW addr,
           NEW hw, NEW clid, NEW left, Changed(t, u, i, hw, clid, left)
    PROVE  Gave(t, u, i, addr, hw, clid, left)
<1>1. i \in 1..Len(u.leases) /\ i # 0 /\ Len(u.leases) = Len(t.leases)
  BY DEF Changed
<1>2. \A j \in 1..Len(t.leases) : j # i => Tied(u.leases[j], t.leases[j])
  BY DEF Changed
<1>3. \A j \in 1..Len(u.leases) : j # i =>
         \E k \in 1..Len(t.leases) : k # i /\ Tied(u.leases[j], t.leases[k])
  BY <1>1, <1>2
<1>4. \A k \in 1..Len(t.leases) : k # i =>
         \E j \in 1..Len(u.leases) : Tied(u.leases[j], t.leases[k])
  BY <1>1, <1>2
<1>5. ~u.fileDirty => SameLines(t, u)
  BY <1>1, <1>2 DEF Changed, SameLines
<1> QED
  BY <1>1, <1>3, <1>4, <1>5 DEF Gave, Changed

LEMMA GaveFresh ==
    ASSUME NEW t \in Table, Len(t.leases) \in Nat, NEW u, NEW addr \in Addr, NEW hw, NEW clid,
           NEW left, Changed(LeaseAllocate(t, addr), u, 1, hw, clid, left)
    PROVE  Gave(t, u, 0, addr, hw, clid, left)
<1> DEFINE v == LeaseAllocate(t, addr)
<1>1. /\ Len(v.leases) = Len(t.leases) + 1 /\ v.leases[1].addr = addr
      /\ v.leases[1].clid = NoClid /\ v.fileDirty
      /\ \A j \in 2..Len(v.leases) : v.leases[j] = t.leases[j - 1]
  BY LeaseAllocateOK
<1> HIDE DEF v
<1>2. Changed(v, u, 1, hw, clid, left)
  BY DEF v
<1>3. /\ Len(u.leases) = Len(t.leases) + 1 /\ u.leases[1].addr = addr
      /\ u.leases[1].hw = hw /\ u.leases[1].left = left
      /\ u.leases[1].clid = (IF clid # NoClid THEN clid ELSE NoClid) /\ u.fileDirty
  BY <1>1, <1>2 DEF Changed
<1>4. \A j \in 2..Len(u.leases) : Tied(u.leases[j], t.leases[j - 1])
  BY <1>1, <1>2, <1>3 DEF Changed
<1>5. ASSUME NEW j \in 1..Len(u.leases), j # 1
      PROVE  \E k \in 1..Len(t.leases) : k # 0 /\ Tied(u.leases[j], t.leases[k])
  <2>1. j \in 2..Len(u.leases) /\ j - 1 \in 1..Len(t.leases) /\ j - 1 # 0
    BY <1>3, <1>5
  <2> QED BY <1>4, <2>1
<1>6. ASSUME NEW k \in 1..Len(t.leases)
      PROVE  \E j \in 1..Len(u.leases) : Tied(u.leases[j], t.leases[k])
  <2>1. k + 1 \in 2..Len(u.leases) /\ k + 1 \in 1..Len(u.leases) /\ (k + 1) - 1 = k
    BY <1>3
  <2> QED BY <1>4, <2>1
<1>7. 1 \in 1..Len(u.leases)
  BY <1>3
<1>8. Tells(t, u)
  <2>1. Tells(t, v)
    BY LeaseAllocateTells DEF v
  <2>2. Tells(v, u)
    BY <1>2 DEF Changed
  <2> QED BY <2>1, <2>2, TellsTrans
<1> QED
  BY <1>3, <1>5, <1>6, <1>7, <1>8 DEF Gave

(* An outcome that gives an address, and changes no entry. *)
Grants(s, r, lease, addr, hw, clid) ==
    /\ Gave(s.t, r.s.t, lease, addr, hw, clid, r.left)
    /\ r.addr = addr /\ r.s.confs = s.confs

(* A REQUEST that is granted. *)
LEMMA AcknowledgeOK ==
    ASSUME NEW s \in State, NEW q, Describes(q, s), NEW addr,
           hosts \in [Addr -> Name \cup {NoName}], addr \in Addr \cup {NoAddr},
           NarrowContext(q.chain, addr, q.tags) # <<>>,
           q.lease = 0 => FindByAddr(s.t, addr) = 0 /\ Room(s.t)
    PROVE  LET r == Acknowledge(s, q, addr) IN
           /\ Sane(r) /\ r.kind = "ack" /\ Grants(s, r, q.lease, addr, q.m.hw, q.clid)
           /\ \E c \in Ranges : r.left = CalcTime(c, q)
<1> DEFINE context == Head(NarrowContext(q.chain, addr, q.tags))
           fresh == q.lease = 0
           i == IF fresh THEN 1 ELSE q.lease
           t1 == IF fresh THEN LeaseAllocate(s.t, addr) ELSE s.t
           t2 == IF fresh \/ q.m.reqip # NoAddr THEN [t1 EXCEPT !.leases[i].changed = TRUE] ELSE t1
           byDns == ~q.auth /\ HostFromDns(addr) # NoName
           auth == q.auth \/ byDns
           name == IF byDns THEN HostFromDns(addr)
                   ELSE IF ~auth /\ \E list \in IgnoreNames : list \subseteq q.tags THEN NoName
                   ELSE q.name
           time == CalcTime(context, q)
           t3 == SetHwaddr(t2, i, q.m.hw, q.clid)
           t4 == IF name # NoName THEN SetHostname(t3, i, name, auth) ELSE t3
           t5 == SetInterface(SetExpires(t4, i, time), i)
<1>1. context \in Ranges /\ addr \in Addr
  <2>1. q.chain \in Seq(Ranges)
    BY DEF Describes
  <2>2. context \in Ranges /\ addr # NoAddr
    BY <2>1, NarrowContextOK
  <2> QED BY <2>2
<1>2. time \in Term
  <2>1. q.conf \in Config /\ q.m.time \in Term
    BY DEF Describes, Wellformed
  <2> HIDE DEF context
  <2> QED BY <1>1, <2>1, CalcTimeOK
<1> HIDE DEF context, time
<1>3. /\ s.t \in Good /\ s.t \in Sound /\ s.t \in Table /\ Len(s.t.leases) \in Nat
      /\ Len(s.t.leases) <= DhcpMax
  BY StateParts
<1>4. /\ t1 \in Good /\ i \in 1..Len(t1.leases)
      /\ q.clid # NoClid => \A j \in 1..Len(t1.leases) : j # i => t1.leases[j].clid # q.clid
  <2>1. CASE q.lease = 0
    <3>1. t1 = LeaseAllocate(s.t, addr) /\ i = 1
      BY <2>1
    <3>2. /\ Len(t1.leases) = Len(s.t.leases) + 1
          /\ \A j \in 2..Len(t1.leases) : t1.leases[j] = s.t.leases[j - 1]
      BY <1>1, <1>3, <3>1, LeaseAllocateOK
    <3>3. (\A j \in 1..Len(s.t.leases) : s.t.leases[j].addr # addr) /\ Len(s.t.leases) < DhcpMax
      BY <1>3, <2>1, FindByAddrOK DEF Room
    <3>4. t1 \in Good
      BY <1>1, <1>3, <3>1, <3>3, AllocatedSound
    <3>5. q.clid # NoClid => \A k \in 1..Len(s.t.leases) : s.t.leases[k].clid # q.clid
      BY <2>1 DEF Describes
    <3> HIDE DEF t1, i
    <3>6. ASSUME NEW j \in 1..Len(t1.leases), j # i
          PROVE  j \in 2..Len(t1.leases) /\ j - 1 \in 1..Len(s.t.leases)
      BY <1>3, <3>1, <3>2, <3>6
    <3>7. 1 \in 1..Len(t1.leases)
      BY <1>3, <3>2
    <3> QED BY <3>1, <3>2, <3>4, <3>5, <3>6, <3>7
  <2>2. CASE q.lease # 0
    <3>1. t1 = s.t /\ i = q.lease
      BY <2>2
    <3>2. q.lease \in 1..Len(s.t.leases)
      BY <1>3, <2>2 DEF Describes
    <3> HIDE DEF t1, i
    <3> QED BY <1>3, <3>1, <3>2 DEF Describes
  <2> QED BY <2>1, <2>2
<1> HIDE DEF t1, i
<1>5. /\ t2 \in Good /\ Spared(t1, t2) /\ Tells(t1, t2) /\ i \in 1..Len(t2.leases)
      /\ q.clid # NoClid => \A j \in 1..Len(t2.leases) : j # i => t2.leases[j].clid # q.clid
  <2>1. t1 \in Table /\ t1 \in Sound
    BY <1>4 DEF Good, Sound
  <2>2. Alike(t1, t1)
    BY DEF Alike
  <2>3. t2 \in Table /\ Alike(t1, t2) /\ Spared(t1, t2)
    BY <1>4, <2>1, <2>2, MarkedOK, SparedSelf
  <2>5. Tells(t1, t2)
    BY <1>4, <2>1, MarkedTells, TellsSelf
  <2> HIDE DEF t2
  <2>4. t2 \in Good
    BY <1>4, <2>1, <2>3, AlikeSound
  <2> QED BY <1>4, <2>3, <2>4, <2>5 DEF Alike
<1> HIDE DEF t2
<1>6. auth \in BOOLEAN /\ name \in Name \cup {NoName}
  <2>1. HostFromDns(addr) \in Name \cup {NoName}
    BY <1>1 DEF HostFromDns
  <2>2. q.auth \in BOOLEAN /\ q.name \in Name \cup {NoName}
    BY DEF Describes
  <2>3. byDns \in BOOLEAN
    OBVIOUS
  <2>4. name \in Name \cup {NoName}
    <3> HIDE DEF byDns, auth
    <3> QED BY <2>1, <2>2
  <2> HIDE DEF byDns
  <2> QED BY <2>2, <2>3, <2>4
<1> HIDE DEF auth, name
<1>7. t5 \in Good /\ Changed(t2, t5, i, q.m.hw, q.clid, time)
  <2>1. q.m.hw \in Hw /\ q.clid \in Clid \cup {NoClid}
    BY DEF Describes, Wellformed
  <2> DEFINE hw == q.m.hw  clid == q.clid
  <2> HIDE DEF hw, clid
  <2>2. /\ t2 \in Good /\ i \in 1..Len(t2.leases) /\ hw \in Hw /\ clid \in Clid \cup {NoClid}
        /\ name \in Name \cup {NoName} /\ auth \in BOOLEAN /\ time \in Term
        /\ clid # NoClid => \A j \in 1..Len(t2.leases) : j # i => t2.leases[j].clid # clid
    BY <1>2, <1>5, <1>6, <2>1 DEF hw, clid
  <2>3. /\ Updated(t2, i, hw, clid, name, auth, time) \in Good
        /\ Changed(t2, Updated(t2, i, hw, clid, name, auth, time), i, hw, clid, time)
    BY ONLY <2>2, UpdatedOK
  <2> QED BY <2>3 DEF Updated, hw, clid
<1> HIDE DEF t5
<1>8. Changed(t1, t5, i, q.m.hw, q.clid, time)
  BY <1>4, <1>5, <1>7, ChangedAfter
<1>9. Gave(s.t, t5, q.lease, addr, q.m.hw, q.clid, time)
  <2>1. CASE q.lease = 0
    <3>1. t1 = LeaseAllocate(s.t, addr) /\ i = 1
      BY <2>1 DEF t1, i
    <3> QED BY <1>1, <1>3, <1>8, <2>1, <3>1, GaveFresh
  <2>2. CASE q.lease # 0
    <3>1. t1 = s.t /\ i = q.lease
      BY <2>2 DEF t1, i
    <3> QED BY <1>3, <1>4, <1>8, <3>1, GaveKept
  <2> QED BY <2>1, <2>2
<1> DEFINE after == [s EXCEPT !.t = t5]
<1>10. Acknowledge(s, q, addr) = Outcome(after, "ack", addr, time, "")
  BY DEF Acknowledge, time, context, t5, t2, t1, i, name, auth
<1>11. after \in State /\ after.t = t5 /\ after.confs = s.confs
  BY <1>7, StateTable
<1> HIDE DEF after
<1> DEFINE r == Acknowledge(s, q, addr)
<1>12. Sane(r)
  BY <1>1, <1>2, <1>10, <1>11, OutcomeOK
<1>13. r.kind = "ack" /\ r.addr = addr /\ r.left = time /\ r.s = after
  <2> DEFINE o == Outcome(after, "ack", addr, time, "")
  <2>1. o.kind = "ack" /\ o.addr = addr /\ o.left = time /\ o.s = after
    BY DEF Outcome
  <2>2. r = o
    BY <1>10
  <2> HIDE DEF o, r
  <2> QED BY <2>1, <2>2
<1> HIDE DEF r
<1>14. Grants(s, r, q.lease, addr, q.m.hw, q.clid)
  BY <1>11, <1>9, <1>13 DEF Grants
<1>15. r.left = CalcTime(context, q)
  BY <1>13 DEF time
<1> QED
  BY <1>1, <1>12, <1>13, <1>14, <1>15 DEF r

(* A BOOTP client that is given an address. *)
Served(s, q, lease, addr) ==
    LET t1 == IF lease = 0 THEN LeaseAllocate(s.t, addr) ELSE s.t
        i == IF lease = 0 THEN 1 ELSE lease
        time == IF q.conf.time # 0 THEN q.conf.time ELSE Never
    IN IF lease = 0 /\ ~Room(s.t) THEN Silent(s)
       ELSE Outcome([s EXCEPT !.t = Updated(t1, i, q.m.hw, NoClid, q.name, TRUE, time)],
                    "bootp", addr, time, "")

LEMMA ServedOK ==
    ASSUME NEW s \in State, NEW q, q.conf \in Config, q.m.hw \in Hw, q.name \in Name \cup {NoName},
           NEW lease \in 0..Len(s.t.leases), NEW addr \in Addr,
           lease = 0 => FindByAddr(s.t, addr) = 0
    PROVE  LET r == Served(s, q, lease, addr) IN
           /\ Sane(r)
           /\ \/ r = Silent(s)
              \/ /\ r.kind = "bootp" /\ r.left = (IF q.conf.time # 0 THEN q.conf.time ELSE Never)
                 /\ Grants(s, r, lease, addr, q.m.hw, NoClid)
<1> DEFINE t1 == IF lease = 0 THEN LeaseAllocate(s.t, addr) ELSE s.t
           i == IF lease = 0 THEN 1 ELSE lease
           time == IF q.conf.time # 0 THEN q.conf.time ELSE Never
           t == Updated(t1, i, q.m.hw, NoClid, q.name, TRUE, time)
<1>1. /\ s.t \in Good /\ s.t \in Sound /\ s.t \in Table /\ Len(s.t.leases) \in Nat
      /\ Len(s.t.leases) <= DhcpMax
  BY StateParts
<1>2. CASE lease = 0 /\ ~Room(s.t)
  BY <1>2, SilentOK DEF Served
<1>3. CASE ~ (lease = 0 /\ ~Room(s.t))
  <2>1. time \in Term
    BY DEF Config, Term
  <2> HIDE DEF time
  <2>2. t1 \in Good /\ i \in 1..Len(t1.leases)
    <3>1. CASE lease = 0
      <4>1. t1 = LeaseAllocate(s.t, addr) /\ i = 1
        BY <3>1
      <4>2. Len(t1.leases) = Len(s.t.leases) + 1
        BY <1>1, <4>1, LeaseAllocateOK
      <4>3. (\A j \in 1..Len(s.t.leases) : s.t.leases[j].addr # addr)
            /\ Len(s.t.leases) < DhcpMax
        BY <1>1, <1>3, <3>1, FindByAddrOK DEF Room
      <4>4. t1 \in Good
        BY <1>1, <4>1, <4>3, AllocatedSound
      <4> HIDE DEF t1, i
      <4> QED BY <1>1, <4>1, <4>2, <4>4
    <3>2. CASE lease # 0
      BY <1>1, <3>2
    <3> QED BY <3>1, <3>2
  <2> HIDE DEF t1, i
  <2>3. t \in Good /\ Changed(t1, t, i, q.m.hw, NoClid, time)
    <3> DEFINE hw == q.m.hw  name == q.name
    <3> HIDE DEF hw, name
    <3>1. hw \in Hw /\ name \in Name \cup {NoName} /\ NoClid \in Clid \cup {NoClid}
          /\ TRUE \in BOOLEAN
      BY DEF hw, name
    <3>2. /\ Updated(t1, i, hw, NoClid, name, TRUE, time) \in Good
          /\ Changed(t1, Updated(t1, i, hw, NoClid, name, TRUE, time), i, hw, NoClid, time)
      BY <2>1, <2>2, <3>1, UpdatedOK
    <3> QED BY <3>2 DEF hw, name
  <2> HIDE DEF t
  <2> DEFINE after == [s EXCEPT !.t = t]
  <2>4. Served(s, q, lease, addr) = Outcome(after, "bootp", addr, time, "")
    BY <1>3 DEF Served, t, t1, i, time
  <2>5. after \in State /\ after.t = t /\ after.confs = s.confs
    BY <2>3, StateTable
  <2> HIDE DEF after
  <2>6. Gave(s.t, t, lease, addr, q.m.hw, NoClid, time)
    <3>1. CASE lease = 0
      <4>1. t1 = LeaseAllocate(s.t, addr) /\ i = 1
        BY <3>1 DEF t1, i
      <4> QED BY <1>1, <2>3, <3>1, <4>1, GaveFresh
    <3>2. CASE lease # 0
      <4>1. t1 = s.t /\ i = lease
        BY <3>2 DEF t1, i
      <4> QED BY <1>1, <2>2, <2>3, <4>1, GaveKept
    <3> QED BY <3>1, <3>2
  <2> DEFINE r == Served(s, q, lease, addr)
  <2>7. Sane(r)
    BY <2>1, <2>4, <2>5, OutcomeOK
  <2>8. r.kind = "bootp" /\ r.addr = addr /\ r.left = time /\ r.s = after
    <3> DEFINE o == Outcome(after, "bootp", addr, time, "")
    <3>1. o.kind = "bootp" /\ o.addr = addr /\ o.left = time /\ o.s = after
      BY DEF Outcome
    <3>2. r = o
      BY <2>4
    <3> HIDE DEF o, r
    <3> QED BY <3>1, <3>2
  <2> HIDE DEF r
  <2>9. Grants(s, r, lease, addr, q.m.hw, NoClid)
    BY <2>5, <2>6, <2>8 DEF Grants
  <2>10. r.left = (IF q.conf.time # 0 THEN q.conf.time ELSE Never)
    BY <2>8 DEF time
  <2> QED BY <2>7, <2>8, <2>9, <2>10 DEF r
<1> QED
  BY <1>2, <1>3

LEMMA BootpOK ==
    ASSUME NEW s \in State, NEW q, Describes(q, s), NEW busy
    PROVE  Sane(Bootp(s, q, busy))
<1> DEFINE hw == q.m.hw
           holder == FindByAddr(s.t, q.conf.addr)
           own == FindByClient(s.t, hw, NoClid)
           stays == own # 0 /\ AddressAvailable(q.chain, s.t.leases[own].addr, q.tags)
           left == IF own # 0 /\ ~stays THEN Pruned(s, own) ELSE s
           w == AddressAllocate(left, q.chain, hw, q.tags, busy)
<1>1. \/ Bootp(s, q, busy) = Silent(s)
      \/ Bootp(s, q, busy) = Silent(After(left, w))
      \/ q.conf.addr # NoAddr /\ Bootp(s, q, busy) = Served(s, q, holder, q.conf.addr)
      \/ own # 0 /\ Bootp(s, q, busy) = Served(s, q, own, s.t.leases[own].addr)
      \/ w.addr # NoAddr /\ Bootp(s, q, busy) = Served(After(left, w), q, 0, w.addr)
  BY DEF Bootp, Served, Updated
<1>2. /\ q.conf \in Config /\ hw \in Hw /\ q.name \in Name \cup {NoName} /\ q.chain \in Seq(Ranges)
  BY DEF Describes, Wellformed
<1>3. s.t \in Table /\ Len(s.t.leases) \in Nat
  BY StateParts
<1>4. left \in State
  BY PrunedOK
<1>5. own \in 0..Len(s.t.leases)
  BY <1>3, FindByClientOK
<1> HIDE DEF own, left
<1>6. w \in Finding(left.t)
  BY <1>2, <1>4, AddressAllocateOK
<1> HIDE DEF w
<1>7. /\ After(left, w) \in State /\ After(left, w).t = left.t
  BY <1>4, <1>6, AfterOK
<1>8. CASE Bootp(s, q, busy) = Silent(s) \/ Bootp(s, q, busy) = Silent(After(left, w))
  BY <1>7, <1>8, SilentOK
<1>9. CASE q.conf.addr # NoAddr /\ Bootp(s, q, busy) = Served(s, q, holder, q.conf.addr)
  <2> DEFINE a == q.conf.addr
  <2>1. a \in Addr
    BY <1>2, <1>9 DEF Config
  <2>2. holder \in 0..Len(s.t.leases)
    BY <1>3, FindByAddrOK
  <2>3. holder = 0 => FindByAddr(s.t, a) = 0
    OBVIOUS
  <2> HIDE DEF a, holder, hw
  <2>4. Sane(Served(s, q, holder, a))
    BY <1>2, <2>1, <2>2, <2>3, ServedOK DEF hw
  <2> QED BY <1>9, <2>4 DEF a
<1>10. CASE own # 0 /\ Bootp(s, q, busy) = Served(s, q, own, s.t.leases[own].addr)
  <2> DEFINE a == s.t.leases[own].addr
  <2>1. own \in 1..Len(s.t.leases)
    BY <1>3, <1>5, <1>10
  <2>2. s.t.leases[own] \in Lease
    BY <1>3, <2>1, LeaseAt
  <2>3. a \in Addr
    BY <2>2 DEF Lease
  <2> HIDE DEF a, hw
  <2>4. Sane(Served(s, q, own, a))
    BY <1>2, <1>5, <1>10, <2>3, ServedOK DEF hw
  <2> QED BY <1>10, <2>4 DEF a
<1>11. CASE w.addr # NoAddr /\ Bootp(s, q, busy) = Served(After(left, w), q, 0, w.addr)
  <2> DEFINE a == w.addr  r == After(left, w)
  <2>1. r \in State /\ r.t = left.t
    BY <1>7
  <2>2. a \in Addr /\ FindByAddr(r.t, a) = 0
    BY <1>6, <1>11, <2>1 DEF Finding
  <2>3. 0 \in 0..Len(r.t.leases)
    BY <2>1, StateParts
  <2> HIDE DEF a, r, hw
  <2>4. Sane(Served(r, q, 0, a))
    BY <1>2, <2>1, <2>2, <2>3, ServedOK DEF hw
  <2> QED BY <1>11, <2>4 DEF a, r
<1> QED
  BY <1>1, <1>8, <1>9, <1>10, <1>11

LEMMA DeclineOK ==
    ASSUME NEW s \in State, NEW q, Describes(q, s)
    PROVE  Sane(Decline(s, q))
<1> DEFINE mine == q.lease # 0 /\ s.t.leases[q.lease].addr = q.m.reqip
           s1 == IF mine THEN Pruned(s, q.lease) ELSE s
           c == [s1.confs[q.at] EXCEPT !.declined = Backoff]
           e == [id \in DOMAIN s1.epoch |->
                    IF \E i \in DOMAIN q.chain : q.chain[i].id = id
                    THEN (s1.epoch[id] + 1) % Size(Contexts[id]) ELSE s1.epoch[id]]
           barred == [s1 EXCEPT !.confs[q.at].declined = Backoff]
           turned == [s1 EXCEPT !.epoch = e]
<1>1. \/ q.conf.addr # NoAddr /\ Decline(s, q) = Silent(barred)
      \/ Decline(s, q) = Silent(turned)
  BY DEF Decline
<1>2. s1 \in State /\ s1.confs = s.confs
  BY PrunedOK
<1> HIDE DEF s1
<1>3. ASSUME q.conf.addr # NoAddr PROVE barred \in State
  <2>1. q.at \in 1..Len(s1.confs) /\ s1.confs \in Seq(Config)
    BY <1>2, <1>3, StateParts DEF Describes
  <2>2. s1.confs[q.at] \in Config /\ Backoff \in Int
    BY <2>1, ConfigAt, DhcpAssumption
  <2>3. c \in Config
    <3> DEFINE k == s1.confs[q.at]
    <3> HIDE DEF k
    <3>1. k \in Config
      BY <2>2 DEF k
    <3>2. [k EXCEPT !.declined = Backoff] \in Config
      BY <2>2, <3>1 DEF Config
    <3> QED BY <3>2 DEF k
  <2>4. barred = [s1 EXCEPT !.confs = [s1.confs EXCEPT ![q.at] = c]]
    BY <1>2 DEF State
  <2> HIDE DEF c, barred
  <2>5. [s1.confs EXCEPT ![q.at] = c] \in Seq(Config)
    BY <2>1, <2>3, ConfigSet
  <2> QED BY <1>2, <2>4, <2>5 DEF State
<1>4. turned \in State
  <2>1. s1.epoch \in Epochs
    BY <1>2, StateParts
  <2>2. ASSUME NEW id \in DOMAIN Contexts
        PROVE  e[id] \in Nat /\ e[id] < Size(Contexts[id])
    <3> DEFINE b == Size(Contexts[id])  a == s1.epoch[id]
    <3>1. b \in Nat /\ b > 0
      BY RangeOK DEF Ranges
    <3>2. a \in Nat /\ a < b /\ DOMAIN s1.epoch = DOMAIN Contexts
      BY <2>1 DEF Epochs
    <3>3. e[id] = (a + 1) % b \/ e[id] = a
      BY <3>2
    <3> HIDE DEF a, b, e
    <3>4. a + 1 \in Nat
      BY <3>2
    <3>5. (a + 1) % b \in Nat /\ (a + 1) % b < b
      BY <3>1, <3>4, Modulo
    <3> QED BY <3>2, <3>3, <3>5 DEF b
  <2>3. e = [id \in DOMAIN Contexts |-> e[id]]
    BY <2>1 DEF Epochs
  <2> HIDE DEF e
  <2>4. e \in Epochs
    BY <2>2, <2>3 DEF Epochs
  <2> QED BY <1>2, <2>4 DEF State
<1> HIDE DEF barred, turned
<1> QED
  BY <1>1, <1>3, <1>4, SilentOK

LEMMA ReleaseOK ==
    ASSUME NEW s \in State, NEW q PROVE Sane(Release(s, q))
<1>1. Release(s, q) = Silent(s) \/ Release(s, q) = Silent(Pruned(s, q.lease))
  BY DEF Release
<1> QED
  BY <1>1, SilentOK, PrunedOK

LEMMA OfferOK ==
    ASSUME NEW s \in State, NEW addr, NEW left, NEW why
    PROVE  /\ Sane(Outcome(s, "offer", addr, left, why)) /\ Sane(Outcome(s, "nak", addr, left, why))
           /\ Sane(Outcome(s, "inform", addr, left, why))
BY DEF Outcome, Sane

LEMMA DiscoverOK ==
    ASSUME NEW s \in State, NEW q, Describes(q, s), NEW busy
    PROVE  Sane(Discover(s, q, busy))
<1> DEFINE w == AddressAllocate(s, q.chain, q.m.hw, q.tags, busy)
           known == ConfiguredFree(s, q) \/ LeaseFits(s, q) \/ AskedFree(s, q)
           addr == IF ConfiguredFree(s, q) THEN q.conf.addr
                   ELSE IF LeaseFits(s, q) THEN s.t.leases[q.lease].addr
                   ELSE IF AskedFree(s, q) THEN q.m.reqip ELSE w.addr
           s1 == IF known THEN s ELSE After(s, w)
           context == NarrowContext(q.chain, addr, q.tags)
           time == CalcTime(Head(context), q)
<1>1. \/ Discover(s, q, busy) = Silent(s)
      \/ Discover(s, q, busy) = Silent(s1)
      \/ Discover(s, q, busy) = Outcome(s1, "offer", addr, time, "")
  BY DEF Discover
<1>2. w \in Finding(s.t)
  <2>1. q.chain \in Seq(Ranges) /\ q.m.hw \in Hw
    BY DEF Describes, Wellformed
  <2> QED BY <2>1, AddressAllocateOK
<1> HIDE DEF w, known, addr, context, time
<1>3. s1 \in State
  BY <1>2, AfterOK
<1> HIDE DEF s1
<1> QED
  BY <1>1, <1>3, SilentOK, OfferOK

(* What is found out stays true when the lease is pruned, but for the lease. *)
LEMMA LeftOK ==
    ASSUME NEW s \in State, NEW q, Describes(q, s)
    PROVE  LET q1 == [q EXCEPT !.lease = 0] IN
           /\ Describes(q1, Pruned(s, q.lease)) /\ q1.m = q.m /\ q1.lease = 0
           /\ q1.conf = q.conf /\ q1.clid = q.clid
<1> DEFINE u == Pruned(s, q.lease)  q1 == [q EXCEPT !.lease = 0]
<1>1. /\ u \in State /\ u.confs = s.confs
      /\ \A j \in 1..Len(u.t.leases) : \E k \in 1..Len(s.t.leases) :
           k # q.lease /\ u.t.leases[j] = s.t.leases[k]
  BY PrunedOK
<1> HIDE DEF u
<1>2. q1 = [m |-> q.m, chain |-> q.chain, lease |-> 0, at |-> q.at, conf |-> q.conf,
            clid |-> q.clid, name |-> q.name, auth |-> q.auth, tags |-> q.tags]
  BY DEF Describes
<1> HIDE DEF q1
<1>3. /\ q1.m = q.m /\ q1.chain = q.chain /\ q1.lease = 0 /\ q1.at = q.at /\ q1.conf = q.conf
      /\ q1.clid = q.clid /\ q1.name = q.name /\ q1.auth = q.auth /\ q1.tags = q.tags
  BY <1>2
<1>4. q1.clid # NoClid =>
         \A j \in 1..Len(u.t.leases) : j # q1.lease => u.t.leases[j].clid # q1.clid
  <2> SUFFICES ASSUME q.clid # NoClid, NEW j \in 1..Len(u.t.leases)
               PROVE  u.t.leases[j].clid # q.clid
    BY <1>3
  <2>1. PICK k \in 1..Len(s.t.leases) : k # q.lease /\ u.t.leases[j] = s.t.leases[k]
    BY <1>1
  <2> QED BY <2>1 DEF Describes
<1>5. 0 \in 0..Len(u.t.leases)
  BY <1>1, StateParts
<1>6. q1 = [m |-> q1.m, chain |-> q1.chain, lease |-> q1.lease, at |-> q1.at, conf |-> q1.conf,
            clid |-> q1.clid, name |-> q1.name, auth |-> q1.auth, tags |-> q1.tags]
  BY <1>2, <1>3, Zenon
<1>7. Describes(q1, u)
  BY <1>1, <1>3, <1>4, <1>5, <1>6 DEF Describes
<1> QED
  BY <1>3, <1>7 DEF q1, u

(* A REQUEST: the lease it has left is pruned before another is made. *)
LEMMA RequestOK ==
    ASSUME NEW s \in State, NEW q, Describes(q, s), hosts \in [Addr -> Name \cup {NoName}]
    PROVE  Sane(Request(s, q))
<1> DEFINE addr == Wanted(q)
           left == q.m.reqip # NoAddr /\ Moved(s, q)
           s1 == IF left THEN Pruned(s, q.lease) ELSE s
           q1 == IF left THEN [q EXCEPT !.lease = 0] ELSE q
           refused == IF InitReboot(q) /\ left THEN "wrong address"
                      ELSE IF q.m.reqip = NoAddr
                              /\ (Moved(s, q) \/ (q.lease = 0 /\ ~Authoritative))
                      THEN "lease not found" ELSE Objection(s1, q1, addr)
<1>1. \/ Request(s, q) = Silent(s)
      \/ Request(s, q) = Outcome(s1, "nak", NoAddr, 0, refused)
      \/ refused = "" /\ Request(s, q) = Acknowledge(s1, q1, addr)
  BY DEF Request
<1>2. s1 \in State
  BY PrunedOK
<1>3. Describes(q1, s1)
  <2>1. CASE ~left
    BY <2>1
  <2>2. CASE left
    BY <2>2, LeftOK
  <2> QED BY <2>1, <2>2
<1>4. CASE Request(s, q) = Silent(s)
  BY <1>4, SilentOK
<1>5. CASE Request(s, q) = Outcome(s1, "nak", NoAddr, 0, refused)
  <2> HIDE DEF refused, s1
  <2> QED BY <1>2, <1>5, OfferOK
<1>6. CASE refused = "" /\ Request(s, q) = Acknowledge(s1, q1, addr)
  <2> HIDE DEF s1, q1, addr
  <2>1. Objection(s1, q1, addr) = ""
    BY <1>6
  <2>2. NarrowContext(q1.chain, addr, q1.tags) # <<>>
    BY <2>1 DEF Objection
  <2>3. q1.lease = 0 => FindByAddr(s1.t, addr) = 0 /\ Room(s1.t)
    BY <2>1 DEF Objection
  <2>4. addr \in Addr \cup {NoAddr}
    BY DEF addr, Wanted, Describes, Wellformed
  <2>5. Sane(Acknowledge(s1, q1, addr))
    BY <1>2, <1>3, <2>2, <2>3, <2>4, AcknowledgeOK
  <2> QED BY <1>6, <2>5
<1> QED
  BY <1>1, <1>4, <1>5, <1>6

LEMMA InformOK ==
    ASSUME NEW s \in State, NEW q, Describes(q, s)
    PROVE  Sane(Inform(s, q))
<1> DEFINE lease == IF q.lease # 0 THEN q.lease ELSE FindByAddr(s.t, q.m.ciaddr)
           t == SetInterface(s.t, lease)
<1>1. \/ Inform(s, q) = Silent(s)
      \/ Inform(s, q) = Outcome(s, "inform", NoAddr, 0, "")
      \/ lease # 0 /\ Inform(s, q) = Outcome([s EXCEPT !.t = t], "inform", NoAddr, 0, "")
  BY DEF Inform
<1>2. s.t \in Good /\ s.t \in Sound /\ s.t \in Table /\ Len(s.t.leases) \in Nat
  BY StateParts
<1>3. lease \in 0..Len(s.t.leases)
  BY <1>2, FindByAddrOK DEF Describes
<1> HIDE DEF lease
<1>4. ASSUME lease # 0 PROVE [s EXCEPT !.t = t] \in State
  <2>1. lease \in 1..Len(s.t.leases)
    BY <1>2, <1>3, <1>4
  <2>2. t \in Table /\ Alike(s.t, t)
    BY <1>2, <2>1, SetInterfaceOK
  <2> HIDE DEF t
  <2>3. t \in Good
    BY <1>2, <2>2, AlikeSound
  <2> QED BY <2>3, StateTable
<1> HIDE DEF t
<1>5. CASE Inform(s, q) = Silent(s)
  BY <1>5, SilentOK
<1>6. CASE Inform(s, q) = Outcome(s, "inform", NoAddr, 0, "")
  BY <1>6, OfferOK
<1>7. CASE lease # 0 /\ Inform(s, q) = Outcome([s EXCEPT !.t = t], "inform", NoAddr, 0, "")
  <2> DEFINE u == [s EXCEPT !.t = t]
  <2>1. u \in State
    BY <1>4, <1>7
  <2> HIDE DEF u
  <2>2. Sane(Outcome(u, "inform", NoAddr, 0, ""))
    BY <2>1, OfferOK
  <2> QED BY <1>7, <2>2 DEF u
<1> QED
  BY <1>1, <1>5, <1>6, <1>7

Kinds == {"bootp", "decline", "release", "discover", "request", "inform"}

LEMMA DhcpReplyOK ==
    ASSUME NEW s \in State, NEW m, Wellformed(m), m.type \in Kinds, NEW busy,
           hosts \in [Addr -> Name \cup {NoName}]
    PROVE  Sane(DhcpReply(s, m, busy))
<1> DEFINE q == Query(s, m)
<1>1. Describes(q, s) /\ q.m = m
  BY QueryOK
<1> HIDE DEF q
<1>2. Answer(s, q, busy) \in {Silent(s), Bootp(s, q, busy), Decline(s, q), Release(s, q),
                              Discover(s, q, busy), Request(s, q), Inform(s, q)}
  <2>1. m.type = "bootp" => Answer(s, q, busy) \in {Silent(s), Bootp(s, q, busy)}
    BY <1>1 DEF Answer
  <2>2. m.type = "decline" => Answer(s, q, busy) \in {Silent(s), Decline(s, q)}
    BY <1>1 DEF Answer
  <2>3. m.type = "release" => Answer(s, q, busy) \in {Silent(s), Release(s, q)}
    BY <1>1 DEF Answer
  <2>4. m.type = "discover" => Answer(s, q, busy) \in {Silent(s), Discover(s, q, busy)}
    BY <1>1 DEF Answer
  <2>5. m.type = "request" => Answer(s, q, busy) \in {Silent(s), Request(s, q)}
    BY <1>1 DEF Answer
  <2>6. m.type = "inform" => Answer(s, q, busy) \in {Silent(s), Inform(s, q)}
    BY <1>1 DEF Answer
  <2> QED BY <2>1, <2>2, <2>3, <2>4, <2>5, <2>6 DEF Kinds
<1>3. /\ Sane(Silent(s)) /\ Sane(Bootp(s, q, busy)) /\ Sane(Decline(s, q)) /\ Sane(Release(s, q))
      /\ Sane(Discover(s, q, busy)) /\ Sane(Request(s, q)) /\ Sane(Inform(s, q))
  BY <1>1, SilentOK, BootpOK, DeclineOK, ReleaseOK, DiscoverOK, RequestOK, InformOK
<1>4. Sane(Answer(s, q, busy))
  BY <1>2, <1>3
<1> QED
  BY <1>4 DEF DhcpReply, q

-----------------------------------------------------------------------------
(* The script *)

Actions == {"add", "old", "old_hostname", "del"}
Events  == [action : Actions, addr : Addr, hw : Hw \cup {NoHw}, name : Name \cup {NoName}]
Views   == [Addr -> [hw : Hw \cup {NoHw}, name : Name \cup {NoName}]]

LEMMA EventOK ==
    ASSUME NEW l \in Lease, NEW name \in Name \cup {NoName}, NEW action \in Actions
    PROVE  Event(action, l, name) \in Events
BY DEF Event, Events, Lease

LEMMA ShownOK ==
    ASSUME NEW v \in Views, NEW e \in Events
    PROVE  Shown(v, e) \in Views
<1> DEFINE told == IF e.action = "del" THEN Unknown
                   ELSE IF e.action = "old_hostname" THEN [v[e.addr] EXCEPT !.name = NoName]
                   ELSE [hw |-> e.hw, name |-> e.name]
<1>1. told \in [hw : Hw \cup {NoHw}, name : Name \cup {NoName}]
  <2>1. v[e.addr] \in [hw : Hw \cup {NoHw}, name : Name \cup {NoName}]
    BY DEF Views, Events
  <2> DEFINE k == v[e.addr]
  <2>2. k \in [hw : Hw \cup {NoHw}, name : Name \cup {NoName}]
    BY <2>1
  <2> HIDE DEF k
  <2>3. [k EXCEPT !.name = NoName] \in [hw : Hw \cup {NoHw}, name : Name \cup {NoName}]
    BY <2>2
  <2>4. Unknown \in [hw : Hw \cup {NoHw}, name : Name \cup {NoName}]
    BY DEF Unknown
  <2>5. [hw |-> e.hw, name |-> e.name] \in [hw : Hw \cup {NoHw}, name : Name \cup {NoName}]
    BY DEF Events
  <2> QED BY <2>3, <2>4, <2>5 DEF k
<1>2. Shown(v, e) = [v EXCEPT ![e.addr] = told]
  BY DEF Shown
<1> HIDE DEF told
<1> QED
  BY <1>1, <1>2 DEF Views

LEMMA ScriptEventOK ==
    ASSUME NEW t \in Table, ~NothingToRun(t)
    PROVE  ScriptEvent(t) \in Events
<1> DEFINE n == Len(t.leases)
           S == {j \in 1..n : t.leases[j].oldName # NoName}
           T == {j \in 1..n : t.leases[j].new \/ t.leases[j].changed}
<1>1. n \in Nat /\ S \in SUBSET (1..n) /\ T \in SUBSET (1..n)
  BY DEF Table
<1>2. Renamed(t) = (IF S # {} THEN Min(S) ELSE 0) /\ Announced(t) = (IF T # {} THEN Min(T) ELSE 0)
  BY DEF Renamed, Announced, SelectInSeq
<1>3. Renamed(t) # 0 => Renamed(t) \in 1..n
  <2> HIDE DEF S, T, n
  <2> QED BY <1>1, <1>2, FirstPlace
<1>4. Announced(t) # 0 => Announced(t) \in 1..n
  <2> HIDE DEF S, T, n
  <2> QED BY <1>1, <1>2, FirstPlace
<1> HIDE DEF S, T
<1>5. ASSUME NEW l \in Lease, NEW action \in Actions
      PROVE  Event(action, l, l.name) \in Events /\ Event(action, l, l.oldName) \in Events
  <2>1. action \in Actions
    OBVIOUS
  <2>2. l.name \in Name \cup {NoName} /\ l.oldName \in Name \cup {NoName}
    BY DEF Lease
  <2> QED BY ONLY <2>1, <2>2, l \in Lease, EventOK
<1>6. CASE t.old # <<>>
  <2> DEFINE l == Head(t.old)
  <2>1. l \in Lease
    BY <1>6 DEF Table
  <2>2. ScriptEvent(t) = IF l.oldName # NoName THEN Event("old_hostname", l, l.oldName)
                         ELSE Event("del", l, l.name)
    BY <1>6 DEF ScriptEvent
  <2> HIDE DEF l
  <2>3. /\ Event("old_hostname", l, l.oldName) \in Events /\ Event("del", l, l.name) \in Events
    BY <1>5, <2>1 DEF Actions
  <2> QED BY <2>2, <2>3
<1>7. CASE t.old = <<>> /\ Renamed(t) # 0
  <2> DEFINE l == t.leases[Renamed(t)]
  <2>1. l \in Lease
    BY <1>3, <1>7, LeaseAt
  <2>2. ScriptEvent(t) = Event("old_hostname", l, l.oldName)
    BY <1>7 DEF ScriptEvent
  <2> HIDE DEF l
  <2>3. Event("old_hostname", l, l.oldName) \in Events
    BY <1>5, <2>1 DEF Actions
  <2> QED BY <2>2, <2>3
<1>8. CASE t.old = <<>> /\ Renamed(t) = 0
  <2> DEFINE l == t.leases[Announced(t)]
  <2>1. l \in Lease
    BY <1>4, <1>8, LeaseAt DEF NothingToRun
  <2>2. ScriptEvent(t) = Event(IF l.new THEN "add" ELSE "old", l, l.name)
    BY <1>8 DEF ScriptEvent
  <2> HIDE DEF l
  <2>3. Event("add", l, l.name) \in Events /\ Event("old", l, l.name) \in Events
    BY <1>5, <2>1 DEF Actions
  <2> QED BY <2>2, <2>3
<1> QED
  BY <1>6, <1>7, <1>8

(* A message that the lease of an address is gone; a list of messages in which
   each of an address is one, or is followed by one.                        *)
Takes(e, a)   == e.addr = a /\ e.action = "del"
Ends(es, a)   == \E m \in 1..Len(es) : Takes(es[m], a)
Closes(es, a) == \A k \in 1..Len(es) : es[k].addr = a => \E m \in k..Len(es) : Takes(es[m], a)

LEMMA FarewellOK ==
    ASSUME NEW es \in Seq(Events), NEW l \in Lease
    PROVE  es \o Farewell(l) \in Seq(Events)
<1> DEFINE e == Event("old_hostname", l, l.oldName)  d == Event("del", l, l.name)
           first == IF l.oldName # NoName THEN <<e>> ELSE <<>>
<1>1. e \in Events /\ d \in Events
  <2>1. l.name \in Name \cup {NoName} /\ l.oldName \in Name \cup {NoName}
    BY DEF Lease
  <2>2. "old_hostname" \in Actions /\ "del" \in Actions
    BY DEF Actions
  <2> QED BY ONLY <2>1, <2>2, l \in Lease, EventOK
<1>2. Farewell(l) = first \o <<d>>
  BY DEF Farewell
<1> HIDE DEF e, d
<1>3. <<e>> \in Seq(Events) /\ <<d>> \in Seq(Events) /\ <<>> \in Seq(Events)
  <2> DEFINE E == Events
  <2>1. e \in E /\ d \in E
    BY <1>1
  <2> HIDE DEF E
  <2>2. <<e>> \in Seq(E) /\ <<d>> \in Seq(E) /\ <<>> \in Seq(E)
    BY <2>1
  <2> QED BY <2>2 DEF E
<1>4. first \in Seq(Events)
  BY <1>3
<1> HIDE DEF first
<1>5. es \o (first \o <<d>>) \in Seq(Events)
  <2> DEFINE E == Events
  <2>1. es \in Seq(E) /\ first \in Seq(E) /\ <<d>> \in Seq(E)
    BY <1>3, <1>4
  <2> HIDE DEF E
  <2>2. es \o (first \o <<d>>) \in Seq(E)
    BY <2>1
  <2> QED BY <2>2 DEF E
<1> QED
  BY <1>2, <1>5

LEMMA JoinAt ==
    ASSUME NEW E, NEW s \in Seq(E), NEW g \in Seq(E)
    PROVE  /\ Len(s) \in Nat /\ Len(s \o g) = Len(s) + Len(g)
           /\ \A k \in 1..Len(s) : (s \o g)[k] = s[k]
           /\ \A k \in 1..Len(g) : (s \o g)[Len(s) + k] = g[k]
OBVIOUS

LEMMA FarewellEnds ==
    ASSUME NEW es \in Seq(Events), \A a : Closes(es, a), NEW l \in Lease
    PROVE  LET fs == es \o Farewell(l) IN
           /\ \A a : Closes(fs, a)
           /\ Ends(fs, l.addr) /\ \A a : Ends(es, a) => Ends(fs, a)
<1> DEFINE e == Event("old_hostname", l, l.oldName)  d == Event("del", l, l.name)
           first == IF l.oldName # NoName THEN <<e>> ELSE <<>>
           fs == es \o Farewell(l)
           n == Len(es)  m == Len(fs)
<1>1. e.addr = l.addr /\ Takes(d, l.addr)
  BY DEF Event, Takes
<1>2. Farewell(l) = first \o <<d>>
  BY DEF Farewell
<1> HIDE DEF e, d
<1>3. /\ n \in Nat /\ m \in Nat /\ m > n
      /\ \A k \in 1..n : fs[k] = es[k]
      /\ fs[m] = d /\ \A k \in (n + 1)..m : k = m \/ fs[k] = e
  <2>1. CASE l.oldName # NoName
    <3> DEFINE E == Events \cup {e, d}  g == <<e>> \o <<d>>
    <3>1. fs = es \o g
      BY <1>2, <2>1
    <3>2. e \in E /\ d \in E /\ es \in Seq(E)
      OBVIOUS
    <3> HIDE DEF E, fs
    <3>3. g \in Seq(E) /\ Len(g) = 2 /\ g[1] = e /\ g[2] = d
      BY <3>2
    <3> HIDE DEF g
    <3>4. /\ n \in Nat /\ m = n + 2
          /\ \A k \in 1..n : fs[k] = es[k]
          /\ fs[n + 1] = g[1] /\ fs[n + 2] = g[2]
      <4>1. es \in Seq(E) /\ g \in Seq(E)
        BY <3>2, <3>3
      <4>2. /\ Len(es) \in Nat /\ Len(es \o g) = Len(es) + Len(g)
            /\ \A k \in 1..Len(es) : (es \o g)[k] = es[k]
            /\ \A k \in 1..Len(g) : (es \o g)[Len(es) + k] = g[k]
        BY ONLY <4>1, JoinAt
      <4> QED BY <3>1, <3>3, <4>2
    <3> HIDE DEF n, m
    <3>5. \A k \in (n + 1)..m : k = n + 1 \/ k = m
      BY <3>4
    <3> QED BY <3>3, <3>4, <3>5
  <2>2. CASE l.oldName = NoName
    <3>1. Farewell(l) = <<d>>
      BY <1>2, <2>2
    <3>2. fs = es \o <<d>>
      BY <3>1
    <3> HIDE DEF fs
    <3> QED BY <3>2
  <2> QED BY <2>1, <2>2
<1> HIDE DEF fs, first, n, m
<1>4. \A k \in (n + 1)..m : fs[k].addr = l.addr
  BY <1>1, <1>3 DEF Takes
<1>5. m \in 1..m /\ Takes(fs[m], l.addr)
  BY <1>1, <1>3 DEF n
<1>6. ASSUME NEW a, NEW k \in 1..m, fs[k].addr = a
      PROVE  \E j \in k..m : Takes(fs[j], a)
  <2>1. CASE k \in 1..n
    <3>1. es[k].addr = a
      BY <1>3, <1>6, <2>1
    <3>2. PICK j \in k..n : Takes(es[j], a)
      BY <2>1, <3>1 DEF Closes, n
    <3>3. j \in 1..n /\ j \in k..m
      BY <1>3, <2>1
    <3> QED BY <1>3, <3>2, <3>3
  <2>2. CASE k \notin 1..n
    <3>1. k \in (n + 1)..m /\ m \in k..m
      BY <1>3, <2>2
    <3> QED BY <1>4, <1>5, <1>6, <3>1
  <2> QED BY <2>1, <2>2
<1>7. ASSUME NEW a, NEW j \in 1..n, Takes(es[j], a) PROVE j \in 1..m /\ Takes(fs[j], a)
  BY <1>3, <1>7
<1> QED
  BY <1>5, <1>6, <1>7 DEF Ends, Closes, fs, n, m

LEMMA FarewellsOK ==
    ASSUME NEW old \in Seq(Lease)
    PROVE  LET es == FoldLeft(LAMBDA all, l : all \o Farewell(l), <<>>, old) IN
           /\ es \in Seq(Events) /\ \A a : Closes(es, a)
           /\ \A j \in 1..Len(old) : Ends(es, old[j].addr)
<1> DEFINE n == Len(old)
           it == CHOOSE iter : iter = [S \in SUBSET DOMAIN old |->
                    IF S = {} THEN <<>> ELSE iter[S \ {Max(S)}] \o Farewell(old[Max(S)])]
           step == [x \in (1..n) \X Seq(Events) |-> x[2] \o Farewell(old[x[1]])]
<1>1. n \in Nat /\ DOMAIN old = 1..n /\ \A k \in 1..n : old[k] \in Lease
  OBVIOUS
<1>2. <<>> \in Seq(Events)
  OBVIOUS
<1>3. step \in [(1..n) \X Seq(Events) -> Seq(Events)]
  <2>1. ASSUME NEW x \in (1..n) \X Seq(Events) PROVE x[2] \o Farewell(old[x[1]]) \in Seq(Events)
    <3> DEFINE u == x[2]  e == old[x[1]]
    <3>1. u \in Seq(Events) /\ e \in Lease
      BY <1>1
    <3> HIDE DEF u, e
    <3>2. u \o Farewell(e) \in Seq(Events)
      BY ONLY <3>1, FarewellOK
    <3> QED BY <3>2 DEF u, e
  <2> HIDE DEF n
  <2> QED BY <2>1
<1> DEFINE total == FoldLeft(LAMBDA all, l : all \o Farewell(l), <<>>, old)
<1>4. total = it[DOMAIN old]
  BY DEF FoldLeft, MapThenFoldSet
<1> HIDE DEF total
<1>5. it = [S \in SUBSET (1..n) |->
              IF S = {} THEN <<>> ELSE it[S \ {Max(S)}] \o Farewell(old[Max(S)])]
  <2>1. PICK some \in [SUBSET (1..n) -> Seq(Events)] : IteratesOn(some, n, Seq(Events), <<>>, step)
    <3> DEFINE V == Seq(Events)  zero == <<>>
    <3>1. n \in Nat /\ zero \in V /\ step \in [(1..n) \X V -> V]
      BY <1>1, <1>2, <1>3
    <3> HIDE DEF n, step, V, zero
    <3>2. \E some \in [SUBSET (1..n) -> V] : IteratesOn(some, n, V, zero, step)
      BY <3>1, IterateEach
    <3> QED BY <3>2 DEF V, zero
  <2>2. ASSUME NEW S \in SUBSET (1..n)
        PROVE  some[S] = IF S = {} THEN <<>> ELSE some[S \ {Max(S)}] \o Farewell(old[Max(S)])
    <3> HIDE DEF n
    <3> QED BY <1>1, <2>1 DEF IteratesOn
  <2>3. some = [S \in SUBSET (1..n) |->
                  IF S = {} THEN <<>> ELSE some[S \ {Max(S)}] \o Farewell(old[Max(S)])]
    <3>1. some = [S \in SUBSET (1..n) |-> some[S]]
      OBVIOUS
    <3> HIDE DEF n
    <3> QED BY <2>2, <3>1
  <2> HIDE DEF n
  <2> QED BY <1>1, <2>3
<1> HIDE DEF it, step
<1>6. it[1..0] = <<>>
  BY <1>1, <1>5
<1>7. ASSUME NEW k \in 1..n PROVE it[1..k] = it[1..(k - 1)] \o Farewell(old[k])
  <2>1. /\ 1..k \in SUBSET (1..n) /\ 1..k # {}
        /\ Max(1..k) = k /\ (1..k) \ {Max(1..k)} = 1..(k - 1)
    BY <1>1, Segment
  <2> HIDE DEF n
  <2> DEFINE S == 1..k
  <2>2. S \in SUBSET (1..n) /\ S # {} /\ Max(S) = k /\ S \ {Max(S)} = 1..(k - 1)
    BY <2>1
  <2> HIDE DEF S
  <2>3. it[S] = it[S \ {Max(S)}] \o Farewell(old[Max(S)])
    BY <1>5, <2>2
  <2> QED BY <2>2, <2>3 DEF S
<1> DEFINE Bids(es, k) == /\ es \in Seq(Events) /\ \A a : Closes(es, a)
                          /\ \A j \in 1..k : Ends(es, old[j].addr)
<1>8. \A k \in 0..n : Bids(it[1..k], k)
  <2> DEFINE P == {k \in 0..n : Bids(it[1..k], k)}
  <2>1. 0 \in P
    <3>1. Bids(<<>>, 0)
      <4> DEFINE z == <<>>
      <4>1. z \in Seq(Events) /\ Len(z) = 0
        BY <1>2
      <4> HIDE DEF z
      <4>2. Bids(z, 0)
        BY <4>1 DEF Closes
      <4> QED BY <4>2 DEF z
    <3>2. 0 \in 0..n
      <4> HIDE DEF n
      <4> QED BY <1>1
    <3> HIDE DEF Bids
    <3> QED BY ONLY <1>6, <3>1, <3>2, Zenon DEF P
  <2>2. ASSUME NEW k \in 1..n, k - 1 \in P PROVE k \in P
    <3> DEFINE u == it[1..(k - 1)]  e == old[k]  w == u \o Farewell(e)
    <3>1. Bids(u, k - 1) /\ e \in Lease /\ k \in 0..n
      BY <1>1, <2>2
    <3>2. it[1..k] = w
      BY <1>7
    <3> HIDE DEF u, n
    <3>3. w \in Seq(Events)
      BY ONLY <3>1, FarewellOK
    <3>4. /\ \A a : Closes(w, a)
          /\ Ends(w, e.addr) /\ \A a : Ends(u, a) => Ends(w, a)
      BY ONLY <3>1, FarewellEnds
    <3> HIDE DEF w
    <3>5. ASSUME NEW j \in 1..k PROVE Ends(w, old[j].addr)
      <4>1. j = k \/ j \in 1..(k - 1)
        OBVIOUS
      <4> QED BY <3>1, <3>4, <4>1
    <3>6. Bids(w, k)
      BY <3>3, <3>4, <3>5
    <3> HIDE DEF Bids
    <3> QED BY <3>1, <3>2, <3>6
  <2> HIDE DEF P, n
  <2>3. \A k \in 0..n : k \in P
    BY <1>1, <2>1, <2>2, UpTo
  <2> QED BY <2>3 DEF P
<1> HIDE DEF Bids
<1>9. Bids(total, n)
  <2>1. n \in 0..n
    <3> HIDE DEF n
    <3> QED BY <1>1
  <2> HIDE DEF n
  <2> QED BY ONLY <1>1, <1>4, <1>8, <2>1, Zenon
<1> QED
  BY ONLY <1>9 DEF total, Bids, n

(* What the script knows as it is told one message after the other. *)
LEMMA ShownSteps ==
    ASSUME NEW v \in Views, NEW es \in Seq(Events)
    PROVE  \E w \in [0..Len(es) -> Views] :
              /\ w[0] = v /\ w[Len(es)] = FoldLeft(Shown, v, es)
              /\ \A k \in 1..Len(es) : w[k] = Shown(w[k - 1], es[k])
<1> DEFINE n == Len(es)
           it == CHOOSE iter : iter = [S \in SUBSET DOMAIN es |->
                    IF S = {} THEN v ELSE Shown(iter[S \ {Max(S)}], es[Max(S)])]
           step == [x \in (1..n) \X Views |-> Shown(x[2], es[x[1]])]
<1>1. n \in Nat /\ DOMAIN es = 1..n /\ \A k \in 1..n : es[k] \in Events
  OBVIOUS
<1>2. v \in Views
  OBVIOUS
<1>3. step \in [(1..n) \X Views -> Views]
  <2>1. ASSUME NEW x \in (1..n) \X Views PROVE Shown(x[2], es[x[1]]) \in Views
    <3> DEFINE u == x[2]  e == es[x[1]]
    <3>1. u \in Views /\ e \in Events
      BY <1>1
    <3> HIDE DEF u, e
    <3>2. Shown(u, e) \in Views
      BY ONLY <3>1, ShownOK
    <3> QED BY <3>2 DEF u, e
  <2> HIDE DEF n
  <2> QED BY <2>1
<1>4. FoldLeft(Shown, v, es) = it[DOMAIN es]
  BY DEF FoldLeft, MapThenFoldSet
<1>5. it = [S \in SUBSET (1..n) |->
              IF S = {} THEN v ELSE Shown(it[S \ {Max(S)}], es[Max(S)])]
  <2>1. PICK some \in [SUBSET (1..n) -> Views] : IteratesOn(some, n, Views, v, step)
    <3> DEFINE V == Views  zero == v
    <3>1. n \in Nat /\ zero \in V /\ step \in [(1..n) \X V -> V]
      BY <1>1, <1>2, <1>3
    <3> HIDE DEF n, step, V, zero
    <3>2. \E some \in [SUBSET (1..n) -> V] : IteratesOn(some, n, V, zero, step)
      BY <3>1, IterateEach
    <3> QED BY <3>2 DEF V, zero
  <2>2. ASSUME NEW S \in SUBSET (1..n)
        PROVE  some[S] = IF S = {} THEN v ELSE Shown(some[S \ {Max(S)}], es[Max(S)])
    <3> HIDE DEF n
    <3> QED BY <1>1, <2>1 DEF IteratesOn
  <2>3. some = [S \in SUBSET (1..n) |->
                  IF S = {} THEN v ELSE Shown(some[S \ {Max(S)}], es[Max(S)])]
    <3>1. some = [S \in SUBSET (1..n) |-> some[S]]
      OBVIOUS
    <3> HIDE DEF n
    <3> QED BY <2>2, <3>1
  <2> HIDE DEF n
  <2> QED BY <1>1, <2>3
<1> HIDE DEF it, step
<1>6. it[1..0] = v
  BY <1>1, <1>5
<1>7. ASSUME NEW k \in 1..n PROVE it[1..k] = Shown(it[1..(k - 1)], es[k])
  <2>1. /\ 1..k \in SUBSET (1..n) /\ 1..k # {}
        /\ Max(1..k) = k /\ (1..k) \ {Max(1..k)} = 1..(k - 1)
    BY <1>1, Segment
  <2> HIDE DEF n
  <2> DEFINE S == 1..k
  <2>2. S \in SUBSET (1..n) /\ S # {} /\ Max(S) = k /\ S \ {Max(S)} = 1..(k - 1)
    BY <2>1
  <2> HIDE DEF S
  <2>3. it[S] = Shown(it[S \ {Max(S)}], es[Max(S)])
    BY <1>5, <2>2
  <2> QED BY <2>2, <2>3 DEF S
<1>8. \A k \in 0..n : it[1..k] \in Views
  <2> DEFINE P == {k \in 0..n : it[1..k] \in Views}
  <2>1. 0 \in P
    <3> HIDE DEF n
    <3> QED BY <1>1, <1>2, <1>6
  <2>2. ASSUME NEW k \in 1..n, k - 1 \in P PROVE k \in P
    <3> DEFINE u == it[1..(k - 1)]  e == es[k]
    <3>1. u \in Views /\ e \in Events /\ k \in 0..n
      BY <1>1, <2>2
    <3>2. it[1..k] = Shown(u, e)
      BY <1>7
    <3> HIDE DEF u, e, n
    <3>3. Shown(u, e) \in Views
      BY ONLY <3>1, ShownOK
    <3> QED BY <3>1, <3>2, <3>3
  <2> HIDE DEF P, n
  <2>3. \A k \in 0..n : k \in P
    BY <1>1, <2>1, <2>2, UpTo
  <2> QED BY <2>3 DEF P
<1> DEFINE w == [k \in 0..n |-> it[1..k]]  all == FoldLeft(Shown, v, es)
<1>9. all = it[DOMAIN es]
  BY <1>4
<1> HIDE DEF n, all
<1>10. /\ w \in [0..n -> Views] /\ w[0] = v /\ w[n] = all
       /\ \A k \in 1..n : w[k] = Shown(w[k - 1], es[k])
  <2>1. \A k \in 1..n : k \in 0..n /\ k - 1 \in 0..n
    BY <1>1
  <2>2. 0 \in 0..n /\ n \in 0..n
    BY <1>1
  <2> QED BY <1>1, <1>6, <1>7, <1>8, <1>9, <2>1, <2>2
<1> HIDE DEF w
<1> QED
  BY <1>10 DEF n, all

LEMMA ShownAllOK ==
    ASSUME NEW v \in Views, NEW es \in Seq(Events)
    PROVE  FoldLeft(Shown, v, es) \in Views
<1>1. PICK w \in [0..Len(es) -> Views] : w[Len(es)] = FoldLeft(Shown, v, es)
  BY ShownSteps
<1>2. Len(es) \in 0..Len(es)
  OBVIOUS
<1> QED
  BY <1>1, <1>2

(* Messages of other addresses change nothing of that. *)
LEMMA ClosesJoin ==
    ASSUME NEW s \in Seq(Events), NEW g \in Seq(Events), NEW a, Closes(s, a),
           \A k \in 1..Len(g) : g[k].addr # a
    PROVE  Closes(s \o g, a) /\ (Ends(s, a) => Ends(s \o g, a))
<1> DEFINE fs == s \o g  n == Len(s)  m == Len(fs)
<1>1. /\ n \in Nat /\ m = n + Len(g) /\ Len(g) \in Nat
      /\ \A k \in 1..n : fs[k] = s[k]
      /\ \A k \in 1..Len(g) : fs[n + k] = g[k]
  <2>1. Len(g) \in Nat
    OBVIOUS
  <2> QED BY <2>1, JoinAt
<1> HIDE DEF fs, m
<1>2. ASSUME NEW k \in 1..m, fs[k].addr = a
      PROVE  k \in 1..n
  <2>1. CASE k > n
    <3>1. k - n \in 1..Len(g) /\ n + (k - n) = k
      BY <1>1, <2>1
    <3> DEFINE j == k - n
    <3>2. j \in 1..Len(g) /\ n + j = k
      BY <3>1
    <3> HIDE DEF j
    <3> QED BY <1>1, <1>2, <3>2
  <2> QED BY <1>1, <2>1
<1>3. ASSUME NEW k \in 1..m, fs[k].addr = a PROVE \E j \in k..m : Takes(fs[j], a)
  <2>1. k \in 1..n /\ s[k].addr = a
    BY <1>1, <1>2, <1>3
  <2>2. PICK j \in k..n : Takes(s[j], a)
    BY <2>1 DEF Closes
  <2>3. j \in 1..n /\ j \in k..m
    BY <1>1, <2>1
  <2> QED BY <1>1, <2>2, <2>3
<1>4. ASSUME NEW j \in 1..n, Takes(s[j], a) PROVE j \in 1..m /\ Takes(fs[j], a)
  BY <1>1, <1>4
<1> HIDE DEF n
<1> QED
  BY <1>3, <1>4 DEF Closes, Ends, fs, m, n

LEMMA PendingOK ==
    ASSUME NEW t \in Table
    PROVE  /\ Pending(t) \in Seq(Events)
           /\ \A a : (\A i \in 1..Len(t.leases) : t.leases[i].addr # a) =>
                /\ Closes(Pending(t), a)
                /\ Gone(t, a) => Ends(Pending(t), a)
<1> DEFINE n == Len(t.leases)
           L == {i \in DOMAIN t.leases : t.leases[i].oldName # NoName}
           T == {i \in DOMAIN t.leases : t.leases[i].new \/ t.leases[i].changed}
           lost == Sifted(t.leases, L)  told == Sifted(t.leases, T)
           all == FoldLeft(LAMBDA all, l : all \o Farewell(l), <<>>, t.old)
           lev(l) == Event("old_hostname", l, l.oldName)
           tev(l) == Event(IF l.new THEN "add" ELSE "old", l, l.name)
           les == [k \in DOMAIN lost |-> lev(lost[k])]
           tes == [k \in DOMAIN told |-> tev(told[k])]
<1>1. /\ t.leases \in Seq(Lease) /\ t.old \in Seq(Lease)
      /\ L \in SUBSET (1..n) /\ T \in SUBSET (1..n)
  BY DEF Table
<1>2. /\ all \in Seq(Events) /\ \A a : Closes(all, a)
      /\ \A j \in 1..Len(t.old) : Ends(all, t.old[j].addr)
  BY <1>1, FarewellsOK
<1>3. Pending(t) = all \o les \o tes
  BY DEF Pending
<1> HIDE DEF all, L, T
<1>4. /\ lost \in Seq(Lease) /\ told \in Seq(Lease)
      /\ SiftedFrom(lost, t.leases, L) /\ SiftedFrom(told, t.leases, T)
  BY <1>1, SiftedOK
<1>11. /\ \A k \in 1..Len(lost) : \E i \in 1..n : lost[k] = t.leases[i]
       /\ \A k \in 1..Len(told) : \E i \in 1..n : told[k] = t.leases[i]
  <2> HIDE DEF lost, told, n
  <2>1. PicksFrom(lost, t.leases, L) /\ PicksFrom(told, t.leases, T)
    BY <1>1, <1>4, SiftedPicks
  <2>2. /\ \A k \in 1..Len(lost) : \E i \in L : t.leases[i] = lost[k]
        /\ \A k \in 1..Len(told) : \E i \in T : t.leases[i] = told[k]
    BY <2>1 DEF PicksFrom
  <2> QED BY <1>1, <2>2
<1> HIDE DEF lost, told
<1>5. ASSUME NEW l \in Lease PROVE lev(l) \in Events /\ tev(l) \in Events
  <2>1. l.name \in Name \cup {NoName} /\ l.oldName \in Name \cup {NoName}
    BY DEF Lease
  <2> DEFINE action == IF l.new THEN "add" ELSE "old"
  <2>2. "old_hostname" \in Actions /\ action \in Actions
    BY DEF Actions
  <2> HIDE DEF action
  <2>3. Event("old_hostname", l, l.oldName) \in Events /\ Event(action, l, l.name) \in Events
    BY ONLY <2>1, <2>2, l \in Lease, EventOK
  <2> QED BY <2>3 DEF action
<1>6. \A k \in DOMAIN lost : lost[k] \in Lease
  BY <1>4
<1>7. \A k \in DOMAIN told : told[k] \in Lease
  BY <1>4
<1>8. /\ DOMAIN lost = 1..Len(lost) /\ Len(lost) \in Nat
      /\ DOMAIN told = 1..Len(told) /\ Len(told) \in Nat
  BY <1>4
<1>12. ASSUME NEW l PROVE lev(l).addr = l.addr /\ tev(l).addr = l.addr
  BY DEF Event
<1> HIDE DEF lev, tev
<1>13. /\ \A k \in 1..Len(les) : \E i \in 1..n : les[k].addr = t.leases[i].addr
       /\ \A k \in 1..Len(tes) : \E i \in 1..n : tes[k].addr = t.leases[i].addr
  <2> HIDE DEF n
  <2>1. /\ Len(les) = Len(lost) /\ \A k \in 1..Len(lost) : les[k] = lev(lost[k])
        /\ Len(tes) = Len(told) /\ \A k \in 1..Len(told) : tes[k] = tev(told[k])
    BY <1>8
  <2> HIDE DEF les, tes
  <2>2. ASSUME NEW k \in 1..Len(les) PROVE \E i \in 1..n : les[k].addr = t.leases[i].addr
    <3>1. PICK i \in 1..n : lost[k] = t.leases[i]
      BY <1>11, <2>1
    <3>2. les[k] = lev(lost[k])
      BY <2>1
    <3> QED BY <1>12, <3>1, <3>2
  <2>3. ASSUME NEW k \in 1..Len(tes) PROVE \E i \in 1..n : tes[k].addr = t.leases[i].addr
    <3>1. PICK i \in 1..n : told[k] = t.leases[i]
      BY <1>11, <2>1
    <3>2. tes[k] = tev(told[k])
      BY <2>1
    <3> QED BY <1>12, <3>1, <3>2
  <2> QED BY <2>2, <2>3
<1>9. les \in Seq(Events) /\ tes \in Seq(Events)
  <2> DEFINE E == Events
  <2>1. (\A k \in DOMAIN lost : lev(lost[k]) \in E) /\ (\A k \in DOMAIN told : tev(told[k]) \in E)
    BY <1>5, <1>6, <1>7
  <2> HIDE DEF E
  <2>2. les \in Seq(E) /\ tes \in Seq(E)
    BY <1>8, <2>1
  <2> QED BY <2>2 DEF E
<1> HIDE DEF les, tes
<1>10. all \o les \o tes \in Seq(Events)
  <2> DEFINE E == Events
  <2>1. all \in Seq(E) /\ les \in Seq(E) /\ tes \in Seq(E)
    BY <1>2, <1>9
  <2> HIDE DEF E
  <2>2. all \o les \o tes \in Seq(E)
    BY <2>1
  <2> QED BY <2>2 DEF E
<1>14. ASSUME NEW a, \A i \in 1..n : t.leases[i].addr # a
       PROVE  Closes(Pending(t), a) /\ (Gone(t, a) => Ends(Pending(t), a))
  <2> DEFINE one == all \o les  two == one \o tes
  <2>1. one \in Seq(Events)
    <3> DEFINE E == Events
    <3>1. all \in Seq(E) /\ les \in Seq(E)
      BY <1>2, <1>9
    <3> HIDE DEF E
    <3>2. all \o les \in Seq(E)
      BY <3>1
    <3> QED BY <3>2 DEF E
  <2>2. Closes(all, a) /\ \A k \in 1..Len(les) : les[k].addr # a
    BY <1>2, <1>13, <1>14
  <2>3. Closes(one, a) /\ (Ends(all, a) => Ends(one, a))
    BY ONLY <1>2, <1>9, <2>2, ClosesJoin
  <2>4. \A k \in 1..Len(tes) : tes[k].addr # a
    BY <1>13, <1>14
  <2> HIDE DEF one
  <2>5. Closes(two, a) /\ (Ends(one, a) => Ends(two, a))
    BY ONLY <1>9, <2>1, <2>3, <2>4, ClosesJoin
  <2>6. Pending(t) = two
    BY <1>3 DEF one
  <2> HIDE DEF two
  <2>7. Gone(t, a) => Ends(all, a)
    BY <1>2 DEF Gone
  <2> QED BY <2>3, <2>5, <2>6, <2>7
<1> QED
  BY <1>3, <1>10, <1>14

-----------------------------------------------------------------------------
(* The parts of the invariant *)

DnsNames == [name : Name, addr : Addr, left : Left]
Holding  == {k \in [addr : Addr \cup {NoAddr}, left : Term] : k.addr = NoAddr => k = Nowhere}
Holdings == [Hw -> Holding]
Hosts    == [Addr -> Name \cup {NoName}]

(* The file is one that can be read without running out of leases. *)
Readable(f) == f \in Seq(Stored) /\ Len(f) <= DhcpMax /\ FileUnique(f)

LEMMA Parts ==
    IInv <=> /\ lt \in Good /\ Readable(file)
             /\ alarm \in Nat \cup {NoAlarm} /\ due \in BOOLEAN /\ dns \in SUBSET DnsNames
             /\ confs \in Seq(Config) /\ hosts \in Hosts /\ epoch \in Epochs
             /\ pings \in SUBSET Ping /\ view \in Views /\ held \in Holdings
<1>1. ASSUME lt \in Table
      PROVE  OneLeaseEach <=> Unique(lt)
  <2>1. DOMAIN lt.leases = 1..Len(lt.leases)
    BY <1>1 DEF Table
  <2> QED BY <2>1 DEF OneLeaseEach, Unique
<1>2. lt \in Good <=> lt \in Table /\ OneLeaseEach /\ Len(lt.leases) <= DhcpMax
  BY <1>1 DEF Good, Sound
<1>3. epoch \in Epochs <=> /\ epoch \in [DOMAIN Contexts -> Nat]
                           /\ \A i \in DOMAIN Contexts : epoch[i] < Size(Contexts[i])
  BY DEF Epochs
<1>4. held \in Holdings <=>
        /\ held \in [Hw -> [addr : Addr \cup {NoAddr}, left : 0..MaxLeft \cup {Never}]]
        /\ \A h \in Hw : held[h].addr = NoAddr => held[h] = Nowhere
  BY DEF Holdings, Holding, Term
<1> QED
  BY <1>2, <1>3, <1>4 DEF IInv, TypeOK, Readable, DnsNames, Hosts, Ping, Views

LEMMA WorkingOK == IInv => Working \in State
<1> SUFFICES ASSUME IInv PROVE Working \in State
  OBVIOUS
<1>1. /\ lt \in Good /\ confs \in Seq(Config) /\ epoch \in Epochs /\ pings \in SUBSET Ping
  BY Parts
<1> DEFINE u == LeasePrune(lt, 0)
<1>2. u \in Good
  <2>1. lt \in Sound
    BY <1>1 DEF Good
  <2> QED BY <1>1, <2>1, LeasePruneOK
<1>3. Working = [t |-> u, confs |-> confs, epoch |-> epoch, pings |-> pings]
  BY DEF Working
<1> HIDE DEF u
<1> QED
  BY <1>1, <1>2, <1>3 DEF State

LEMMA GoodTable == ASSUME NEW t \in Good PROVE t \in Table /\ t \in Sound
BY DEF Good, Sound

LEMMA EnteredOK ==
    ASSUME NEW t \in Good PROVE Entered(t) \in Good
<1>1. Entered(t) \in Table /\ Alike(t, Entered(t))
  <2>1. t \in Table
    BY GoodTable
  <2> QED BY <2>1 DEF Table, Entered, Alike
<1> QED
  BY <1>1, AlikeSound, GoodTable

LEMMA SettleOK ==
    ASSUME NEW t \in Good PROVE Settle(t) \in Good
<1>1. Drained(t) \in Table /\ Alike(t, Drained(t))
  BY GoodTable, DrainedOK
<1>2. Drained(t) \in Good
  BY <1>1, AlikeSound, GoodTable
<1> QED
  BY <1>2 DEF Settle

LEMMA RerunOK ==
    ASSUME NEW t \in Good PROVE RerunScripts(t) \in Good
<1>1. RerunScripts(t) \in Table /\ Alike(t, RerunScripts(t))
  BY GoodTable, RerunScriptsOK
<1> QED
  BY <1>1, AlikeSound, GoodTable

LEMMA UpdateDnsOK ==
    ASSUME NEW t \in Good, NEW d \in SUBSET DnsNames
    PROVE  LeaseUpdateDns(t, d) \in SUBSET DnsNames
<1>1. NamesOf(t) \in SUBSET DnsNames
  <2>1. ASSUME NEW l \in ToSet(t.leases), l.name # NoName
        PROVE  [name |-> l.name, addr |-> l.addr, left |-> l.left] \in DnsNames
    <3>1. l \in Lease
      <4>1. t.leases \in Seq(Lease)
        BY GoodTable DEF Table
      <4> QED BY <4>1 DEF ToSet
    <3> QED BY <2>1, <3>1 DEF Lease, DnsNames
  <2> QED BY <2>1 DEF NamesOf
<1> QED
  BY <1>1 DEF LeaseUpdateDns

(* Writing the file, wherever it is done. *)
LEMMA FilesOK ==
    ASSUME IInv, NEW t \in Good, NEW before \in Nat \cup {NoAlarm}, NEW o \in Files(t, before)
    PROVE  /\ o.t \in Good /\ Readable(o.file) /\ o.alarm \in Nat \cup {NoAlarm}
<1>1. file \in Seq(Stored) /\ Len(file) <= DhcpMax /\ FileUnique(file)
  BY Parts DEF Readable
<1>2. MayFail \in BOOLEAN
  BY DhcpAssumption
<1>3. o \in LeaseUpdateFile(t, file, before, MayFail)
  BY DEF Files
<1> QED
  BY <1>1, <1>2, <1>3, LeaseUpdateFileOK DEF Readable

-----------------------------------------------------------------------------
(* What the clients send *)

Messages ==
    {m \in [type : Kinds, hw : Hw, clid : Clid \cup {NoClid}, name : Name \cup {NoName},
            tags : SUBSET STRING, net : Nat \cup DOMAIN Router, relayed : BOOLEAN,
            ciaddr : Addr \cup {NoAddr}, reqip : Addr \cup {NoAddr},
            server : {"none", "this", "other"}, time : Term] :
       m.type = "bootp" => m.clid = NoClid}

LEMMA MessageOK ==
    ASSUME NEW c \in Client, NEW type \in Kinds, NEW net \in Nat \cup DOMAIN Router
    PROVE  Message(c, type, net) \in Messages
<1>1. 0 \in Term
  BY LeasesAssumption DEF Term
<1> QED
  BY <1>1 DEF Message, Messages, Client

LEMMA MessageWellformed ==
    ASSUME NEW m \in Messages
    PROVE  Wellformed(m) /\ m.type \in Kinds /\ m.hw \in Hw
BY DEF Messages, Wellformed

(* A client fills in some of it. *)
LEMMA FilledIn ==
    ASSUME NEW k \in Messages, NEW a \in Addr \cup {NoAddr}, NEW time \in Term,
           NEW id \in {"none", "this", "other"}, NEW net \in Nat \cup DOMAIN Router
    PROVE  /\ [k EXCEPT !.reqip = a] \in Messages
           /\ [k EXCEPT !.ciaddr = a] \in Messages
           /\ [k EXCEPT !.server = id] \in Messages
           /\ [k EXCEPT !.reqip = a, !.server = id] \in Messages
           /\ [k EXCEPT !.reqip = a, !.server = id, !.time = time] \in Messages
           /\ [k EXCEPT !.ciaddr = a, !.server = id, !.time = time] \in Messages
           /\ [k EXCEPT !.net = net, !.relayed = TRUE] \in Messages
<1>1. [k EXCEPT !.reqip = a] \in Messages
  BY DEF Messages
<1>2. [k EXCEPT !.ciaddr = a] \in Messages
  BY DEF Messages
<1>3. [k EXCEPT !.server = id] \in Messages
  BY DEF Messages
<1>4. [k EXCEPT !.reqip = a, !.server = id] \in Messages
  BY DEF Messages
<1>5. [k EXCEPT !.reqip = a, !.server = id, !.time = time] \in Messages
  BY DEF Messages
<1>6. [k EXCEPT !.ciaddr = a, !.server = id, !.time = time] \in Messages
  BY DEF Messages
<1>7. [k EXCEPT !.net = net, !.relayed = TRUE] \in Messages
  BY DEF Messages
<1> QED
  BY <1>1, <1>2, <1>3, <1>4, <1>5, <1>6, <1>7

LEMMA SeeksOK ==
    ASSUME NEW c \in Clients, NEW msg \in Seeks(c)
    PROVE  msg \in Messages
<1> DEFINE m(type, net) == Message(c, type, net)
           some == CHOOSE a \in Addr : TRUE
<1>1. PICK net \in DOMAIN Router : msg \in Asks(c, net)
  BY DEF Seeks
<1>2. /\ m("bootp", net) \in Messages /\ m("discover", net) \in Messages
      /\ m("request", net) \in Messages
  <2>1. c \in Client /\ net \in Nat \cup DOMAIN Router
    BY DhcpAssumption
  <2>2. "bootp" \in Kinds /\ "discover" \in Kinds /\ "request" \in Kinds
    BY DEF Kinds
  <2> QED BY <2>1, <2>2, MessageOK
<1>3. some \in Addr
  <2>1. Contexts[1] \in Context
    BY DhcpAssumption
  <2>2. \E a \in Addr : TRUE
    <3>1. 1 \in DOMAIN Contexts
      BY DhcpAssumption
    <3> QED BY <2>1, <3>1 DEF Context
  <2> QED BY <2>2
<1>4. Requested \subseteq Term /\ 0 \in Term
  BY DhcpAssumption, LeasesAssumption DEF Term
<1> HIDE DEF m, some
<1>5. CASE msg = m("bootp", net)
  BY <1>2, <1>5
<1>6. ASSUME NEW a \in Addr \cup {NoAddr}, msg = [m("discover", net) EXCEPT !.reqip = a]
      PROVE  msg \in Messages
  <2> DEFINE k == m("discover", net)
  <2>1. k \in Messages
    BY <1>2
  <2>2. msg = [k EXCEPT !.reqip = a]
    BY <1>6
  <2> HIDE DEF k
  <2> QED BY <1>4, <2>1, <2>2, FilledIn
<1>7. ASSUME NEW a \in Addr, NEW id \in {"none", "this", "other"}, NEW time \in Requested,
             \/ msg = [m("request", net) EXCEPT !.reqip = a, !.server = id, !.time = time]
             \/ msg = [m("request", net) EXCEPT !.reqip = a, !.server = id]
      PROVE  msg \in Messages
  <2> DEFINE k == m("request", net)
  <2>1. k \in Messages
    BY <1>2
  <2>2. \/ msg = [k EXCEPT !.reqip = a, !.server = id, !.time = time]
        \/ msg = [k EXCEPT !.reqip = a, !.server = id]
    BY <1>7
  <2>3. time \in Term /\ a \in Addr \cup {NoAddr} /\ 0 \in Nat \cup DOMAIN Router
    BY <1>4
  <2> HIDE DEF k
  <2>4. /\ [k EXCEPT !.reqip = a, !.server = id, !.time = time] \in Messages
        /\ [k EXCEPT !.reqip = a, !.server = id] \in Messages
    BY ONLY <2>1, <2>3, id \in {"none", "this", "other"}, FilledIn
  <2> QED BY <2>2, <2>4
<1>8. CASE msg = [m("request", net) EXCEPT !.reqip = some, !.server = "other"]
  <2> DEFINE k == m("request", net)
  <2>1. k \in Messages /\ msg = [k EXCEPT !.reqip = some, !.server = "other"]
    BY <1>2, <1>8
  <2> HIDE DEF k
  <2>2. some \in Addr \cup {NoAddr} /\ "other" \in {"none", "this", "other"}
    BY <1>3
  <2> QED BY <1>4, <2>1, <2>2, FilledIn
<1>9. \/ msg = m("bootp", net)
      \/ \E a \in Addr \cup {NoAddr} : msg = [m("discover", net) EXCEPT !.reqip = a]
      \/ \E a \in Addr, id \in {"none", "this"}, time \in Requested :
            msg = [m("request", net) EXCEPT !.reqip = a, !.server = id, !.time = time]
      \/ msg = [m("request", net) EXCEPT !.reqip = some, !.server = "other"]
  <2> DEFINE A == {[m("discover", net) EXCEPT !.reqip = a] : a \in Addr \cup {NoAddr}}
             B == {[m("request", net) EXCEPT !.reqip = a, !.server = id, !.time = time] :
                      a \in Addr, id \in {"none", "this"}, time \in Requested}
             C == {[m("request", net) EXCEPT !.reqip = some, !.server = "other"]}
  <2>1. Asks(c, net) = {m("bootp", net)} \cup A \cup B \cup C
    BY DEF Asks, m, some
  <2>2. msg \in A => \E a \in Addr \cup {NoAddr} : msg = [m("discover", net) EXCEPT !.reqip = a]
    OBVIOUS
  <2>3. msg \in B => \E a \in Addr, id \in {"none", "this"}, time \in Requested :
            msg = [m("request", net) EXCEPT !.reqip = a, !.server = id, !.time = time]
    <3> DEFINE k == m("request", net)
               r(a, id, time) == [k EXCEPT !.reqip = a, !.server = id, !.time = time]
               I == {"none", "this"}
    <3>1. B = {r(a, id, time) : a \in Addr, id \in I, time \in Requested}
      OBVIOUS
    <3> HIDE DEF r, B, I
    <3>2. msg \in B => \E a \in Addr, id \in I, time \in Requested : msg = r(a, id, time)
      BY <3>1
    <3> QED BY <3>2 DEF r, I
  <2>4. msg \in C => msg = [m("request", net) EXCEPT !.reqip = some, !.server = "other"]
    OBVIOUS
  <2> HIDE DEF A, B, C
  <2> QED BY <1>1, <2>1, <2>2, <2>3, <2>4
<1> QED
  BY <1>5, <1>6, <1>7, <1>8, <1>9

LEMMA DirectOK ==
    ASSUME held \in Holdings, NEW c \in Clients, held[c.hw] # Nowhere
    PROVE  LET has == held[c.hw] IN
           /\ Renews(c, has) \cup {[Told(c, "inform", has) EXCEPT !.ciaddr = has.addr]}
                \subseteq Messages
           /\ [Told(c, "release", has) EXCEPT !.ciaddr = has.addr] \in Messages
           /\ [Told(c, "decline", has) EXCEPT !.reqip = has.addr] \in Messages
<1> DEFINE has == held[c.hw]  net0 == NetOf[has.addr]
           direct == Renews(c, has) \cup {[Told(c, "inform", has) EXCEPT !.ciaddr = has.addr]}
<1>1. c \in Client
  BY DhcpAssumption
<1>2. has.addr \in Addr
  <2>1. has \in Holding
    BY <1>1 DEF Holdings, Client
  <2> QED BY <2>1 DEF Holding
<1> HIDE DEF has
<1>3. net0 \in Nat \cup DOMAIN Router
  BY <1>2, HostsAssumption
<1>4. Requested \subseteq Term /\ 0 \in Term
  BY DhcpAssumption, LeasesAssumption DEF Term
<1>5. has.addr \in Addr \cup {NoAddr} /\ 0 \in Nat \cup DOMAIN Router
  BY <1>2
<1>6. ASSUME NEW type \in {"inform", "release", "decline"}
      PROVE  /\ [Told(c, type, has) EXCEPT !.ciaddr = has.addr] \in Messages
             /\ [Told(c, type, has) EXCEPT !.reqip = has.addr] \in Messages
  <2> DEFINE k == Message(c, type, net0)  j == [k EXCEPT !.server = "this"]
  <2>1. k \in Messages
    <3>1. type \in Kinds
      BY DEF Kinds
    <3> HIDE DEF net0
    <3> QED BY ONLY <1>1, <1>3, <3>1, MessageOK
  <2>2. Told(c, type, has) = j
    BY DEF Told
  <2> HIDE DEF k
  <2>3. j \in Messages
    <3>1. "this" \in {"none", "this", "other"}
      OBVIOUS
    <3> QED BY ONLY <1>4, <1>5, <2>1, <3>1, FilledIn
  <2> HIDE DEF j
  <2>4. [j EXCEPT !.ciaddr = has.addr] \in Messages /\ [j EXCEPT !.reqip = has.addr] \in Messages
    <3>1. "this" \in {"none", "this", "other"}
      OBVIOUS
    <3> QED BY ONLY <1>4, <1>5, <2>3, <3>1, FilledIn
  <2> QED BY <2>2, <2>4
<1>7. ASSUME NEW m \in Renews(c, has) PROVE m \in Messages
  <2> DEFINE k == Message(c, "request", net0)
  <2>1. k \in Messages
    <3>1. "request" \in Kinds
      BY DEF Kinds
    <3> HIDE DEF net0
    <3> QED BY ONLY <1>1, <1>3, <3>1, MessageOK
  <2>2. PICK time \in Requested : m = [k EXCEPT !.ciaddr = has.addr, !.time = time]
    BY DEF Renews
  <2> HIDE DEF k
  <2>3. [k EXCEPT !.ciaddr = has.addr, !.time = time] \in Messages
    BY <1>4, <1>5, <2>1 DEF Messages
  <2> QED BY <2>2, <2>3
<1>8. direct \subseteq Messages
  BY <1>6, <1>7
<1> QED
  BY <1>6, <1>8 DEF has

LEMMA UsesOK ==
    ASSUME held \in Holdings, NEW c \in Clients, held[c.hw] # Nowhere, NEW msg \in Uses(c)
    PROVE  msg \in Messages
<1> DEFINE has == held[c.hw]
           direct == Renews(c, has) \cup {[Told(c, "inform", has) EXCEPT !.ciaddr = has.addr]}
           relayed == Relayed(direct)
<1>1. /\ direct \subseteq Messages
      /\ [Told(c, "release", has) EXCEPT !.ciaddr = has.addr] \in Messages
      /\ [Told(c, "decline", has) EXCEPT !.reqip = has.addr] \in Messages
  BY DirectOK
<1> HIDE DEF direct
<1>2. ASSUME NEW m \in relayed PROVE m \in Messages
  <2>1. PICK net \in DOMAIN Router : m \in {[k EXCEPT !.net = net, !.relayed = TRUE] : k \in direct}
    BY DEF Relayed
  <2> HIDE DEF relayed
  <2>2. PICK k \in direct : m = [k EXCEPT !.net = net, !.relayed = TRUE]
    BY <2>1
  <2>3. k \in Messages /\ net \in Nat \cup DOMAIN Router
    BY <1>1
  <2>4. [k EXCEPT !.net = net, !.relayed = TRUE] \in Messages
    BY <2>3 DEF Messages
  <2> QED BY <2>2, <2>4
<1>3. \/ msg \in direct \/ msg \in relayed
      \/ msg = [Told(c, "release", has) EXCEPT !.ciaddr = has.addr]
      \/ msg = [Told(c, "decline", has) EXCEPT !.reqip = has.addr]
  <2> DEFINE A == {[Told(c, "release", has) EXCEPT !.ciaddr = has.addr],
                   [Told(c, "decline", has) EXCEPT !.reqip = has.addr]}
             all == direct \cup {m \in relayed : m.net # NetOf[has.addr]} \cup A
  <2>1. Uses(c) = {m \in all : m.type \in Sends}
    BY Zenon DEF Uses, has, direct, relayed
  <2>2. msg \in A => \/ msg = [Told(c, "release", has) EXCEPT !.ciaddr = has.addr]
                     \/ msg = [Told(c, "decline", has) EXCEPT !.reqip = has.addr]
    OBVIOUS
  <2> HIDE DEF A, relayed
  <2> QED BY <2>1, <2>2
<1> HIDE DEF relayed
<1> QED
  BY <1>1, <1>2, <1>3

-----------------------------------------------------------------------------
(* The steps *)

LEMMA PartsNext ==
    ASSUME lt' \in Good, Readable(file'), alarm' \in Nat \cup {NoAlarm}, due' \in BOOLEAN,
           dns' \in SUBSET DnsNames, confs' \in Seq(Config), hosts' \in Hosts,
           epoch' \in Epochs, pings' \in SUBSET Ping, view' \in Views, held' \in Holdings
    PROVE  IInv'
<1>1. lt' \in Table /\ Unique(lt') /\ Len(lt'.leases) <= DhcpMax
  BY DEF Good, Sound
<1>2. OneLeaseEach'
  <2>1. DOMAIN lt'.leases = 1..Len(lt'.leases)
    BY <1>1 DEF Table
  <2> QED BY <1>1, <2>1 DEF OneLeaseEach, Unique
<1>3. /\ epoch' \in [DOMAIN Contexts -> Nat]
      /\ \A i \in DOMAIN Contexts : epoch'[i] < Size(Contexts[i])
  BY DEF Epochs
<1>4. /\ held' \in [Hw -> [addr : Addr \cup {NoAddr}, left : 0..MaxLeft \cup {Never}]]
      /\ \A h \in Hw : held'[h].addr = NoAddr => held'[h] = Nowhere
  BY DEF Holdings, Holding, Term
<1>5. pings' \subseteq [addr : Addr, left : 0..PingCacheTime]
  BY DEF Ping
<1>6. TypeOK'
  BY <1>1, <1>3, <1>4, <1>5 DEF TypeOK, Readable, DnsNames, Hosts, Views
<1> QED
  BY <1>2, <1>4, <1>6 DEF IInv, Readable

LEMMA NowhereOK == Nowhere \in Holding
BY DEF Nowhere, Holding, Term

LEMMA HeardOK ==
    ASSUME held \in Holdings, NEW m \in Messages, NEW r, Sane(r), NEW lost
    PROVE  Heard(m, r, lost) \in Holdings
<1>1. m.hw \in Hw
  BY MessageWellformed
<1>2. [held EXCEPT ![m.hw] = Nowhere] \in Holdings
  BY <1>1, NowhereOK DEF Holdings
<1>3. ASSUME r.kind \in {"ack", "bootp"}
      PROVE  [held EXCEPT ![m.hw] = [addr |-> r.addr, left |-> r.left]] \in Holdings
  <2> DEFINE k == [addr |-> r.addr, left |-> r.left]
  <2>1. k \in Holding
    BY <1>3, HostsAssumption DEF Sane, Holding
  <2> HIDE DEF k
  <2>2. [held EXCEPT ![m.hw] = k] \in Holdings
    BY <1>1, <2>1 DEF Holdings
  <2> QED BY <2>2 DEF k
<1> QED
  BY <1>2, <1>3 DEF Heard

LEMMA DhcpPacketOK ==
    ASSUME IInv, NEW m \in Messages, NEW busy, DhcpPacket(m, busy)
    PROVE  IInv'
<1> DEFINE r == DhcpReply(Working, m, busy)
<1>1. Sane(r)
  <2>1. Wellformed(m) /\ m.type \in Kinds
    BY MessageWellformed
  <2>2. Working \in State /\ hosts \in [Addr -> Name \cup {NoName}]
    BY WorkingOK, Parts DEF Hosts
  <2> QED BY ONLY <2>1, <2>2, DhcpReplyOK
<1>2. Replied(m, r)
  BY DEF DhcpPacket
<1> HIDE DEF r
<1>3. r.s \in State
  BY <1>1 DEF Sane
<1> DEFINE s == r.s
<1>4. s \in State
  BY <1>3
<1>5. /\ r.s.t \in Good /\ r.s.confs \in Seq(Config) /\ r.s.epoch \in Epochs
      /\ r.s.pings \in SUBSET Ping
  <2> HIDE DEF s
  <2>1. s.t \in Good /\ s.confs \in Seq(Config) /\ s.epoch \in Epochs /\ s.pings \in SUBSET Ping
    BY ONLY <1>4, StateParts
  <2> QED BY <2>1 DEF s
<1>6. PICK o \in Files(r.s.t, alarm) :
        /\ file' = o.file /\ alarm' = o.alarm
        /\ dns' = LeaseUpdateDns(o.t, dns) /\ lt' = Settle(Entered(o.t))
  BY <1>2 DEF Replied
<1>7. o.t \in Good /\ Readable(o.file) /\ o.alarm \in Nat \cup {NoAlarm}
  <2>1. alarm \in Nat \cup {NoAlarm}
    BY Parts
  <2> QED BY <1>5, <2>1, FilesOK
<1>8. dns' \in SUBSET DnsNames
  BY <1>6, <1>7, UpdateDnsOK, Parts
<1>9. lt' \in Good
  BY <1>6, <1>7, EnteredOK, SettleOK
<1>10. held' \in Holdings
  <2>1. PICK lost \in BOOLEAN : held' = Heard(m, r, lost)
    BY <1>2 DEF Replied
  <2>2. held \in Holdings
    BY Parts
  <2> QED BY <1>1, <2>1, <2>2, HeardOK
<1>11. due' = due /\ hosts' = hosts /\ view' = view /\ confs' = r.s.confs /\ epoch' = r.s.epoch
       /\ pings' = r.s.pings
  BY <1>2 DEF Replied
<1>12. due \in BOOLEAN /\ hosts \in Hosts /\ view \in Views
  BY Parts
<1> QED
  BY <1>5, <1>6, <1>7, <1>8, <1>9, <1>10, <1>11, <1>12, PartsNext

LEMMA ClientSeeksOK == IInv /\ ClientSeeks => IInv'
<1> SUFFICES ASSUME IInv, ClientSeeks PROVE IInv'
  OBVIOUS
<1>1. PICK m \in UNION {Seeks(c) : c \in {d \in Clients : held[d.hw] = Nowhere}} :
        \E busy : DhcpPacket(m, busy)
  BY DEF ClientSeeks
<1>2. m \in Messages
  BY SeeksOK
<1> QED
  BY <1>1, <1>2, DhcpPacketOK

LEMMA ClientUsesOK == IInv /\ ClientUses => IInv'
<1> SUFFICES ASSUME IInv, ClientUses PROVE IInv'
  OBVIOUS
<1>1. PICK m \in UNION {Uses(c) : c \in {d \in Clients : held[d.hw] # Nowhere}} :
        DhcpPacket(m, {})
  BY DEF ClientUses
<1>2. m \in Messages
  BY Parts, UsesOK
<1> QED
  BY <1>1, <1>2, DhcpPacketOK

LEMMA ClientStopsOK == IInv /\ ClientStops => IInv'
<1> SUFFICES ASSUME IInv, ClientStops PROVE IInv'
  OBVIOUS
<1>1. PICK h \in Hw : held' = [held EXCEPT ![h] = Nowhere]
  BY DEF ClientStops
<1>2. held' \in Holdings
  BY <1>1, Parts, NowhereOK DEF Holdings
<1> QED
  BY <1>2, Parts, PartsNext DEF ClientStops

LEMMA ScriptRunOK == IInv /\ ScriptRun => IInv'
<1> SUFFICES ASSUME IInv, ScriptRun PROVE IInv'
  OBVIOUS
<1>1. lt \in Good /\ lt \in Table /\ ~NothingToRun(lt) /\ view \in Views
  BY Parts, GoodTable DEF ScriptRun
<1>2. DoScriptRun(lt) \in Good
  <2>1. DoScriptRun(lt) \in Table /\ Alike(lt, DoScriptRun(lt))
    BY <1>1, DoScriptRunOK
  <2> QED BY <1>1, <2>1, AlikeSound, GoodTable
<1>3. Shown(view, ScriptEvent(lt)) \in Views
  BY <1>1, ScriptEventOK, ShownOK
<1> QED
  BY <1>2, <1>3, Parts, PartsNext DEF ScriptRun

(* A second passes. *)
LEMMA AgedTable ==
    ASSUME NEW t \in Good
    PROVE  [t EXCEPT !.leases = Aged(@), !.old = Aged(@)] \in Good
<1> DEFINE ls == Aged(t.leases)  os == Aged(t.old)
           u == [t EXCEPT !.leases = ls, !.old = os]
<1>1. t \in Table /\ t.leases \in Seq(Lease) /\ t.old \in Seq(Lease)
  BY GoodTable DEF Table
<1>2. /\ ls \in Seq(Lease) /\ os \in Seq(Lease) /\ Len(ls) = Len(t.leases)
      /\ \A i \in 1..Len(t.leases) : /\ ls[i].addr = t.leases[i].addr
                                     /\ ls[i].name = t.leases[i].name
                                     /\ ls[i].clid = t.leases[i].clid
  BY <1>1, AgedLeases
<1> HIDE DEF ls, os
<1>3. u \in Table /\ Alike(t, u)
  BY <1>1, <1>2 DEF Table, Alike
<1>4. u \in Good
  BY <1>3, AlikeSound, GoodTable
<1> QED
  BY <1>4 DEF ls, os

LEMMA TickOK == IInv /\ Tick => IInv'
<1> SUFFICES ASSUME IInv, Tick PROVE IInv'
  OBVIOUS
<1>1. lt' \in Good
  <2>1. lt \in Good
    BY Parts
  <2>2. lt' = [lt EXCEPT !.leases = Aged(@), !.old = Aged(@)]
    BY DEF Tick
  <2> QED BY <2>1, <2>2, AgedTable
<1>2. Readable(file')
  <2>1. file \in Seq(Stored) /\ Len(file) <= DhcpMax /\ FileUnique(file)
    BY Parts DEF Readable
  <2> DEFINE g == Aged(file)
  <2>2. /\ g \in Seq(Stored) /\ Len(g) = Len(file)
        /\ \A i \in 1..Len(file) : g[i].addr = file[i].addr /\ g[i].clid = file[i].clid
    BY <2>1, AgedLines
  <2>3. file' = g
    BY DEF Tick
  <2> HIDE DEF g
  <2> QED BY <2>1, <2>2, <2>3 DEF Readable, FileUnique
<1>3. alarm' \in Nat \cup {NoAlarm}
  BY Parts DEF Tick
<1>4. dns' \in SUBSET DnsNames
  <2>1. ASSUME NEW d \in DnsNames PROVE [d EXCEPT !.left = Later(@)] \in DnsNames
    <3>1. Later(d.left) \in Left
      BY LaterOK DEF DnsNames
    <3> QED BY <3>1 DEF DnsNames
  <2>2. dns' = {[d EXCEPT !.left = Later(@)] : d \in dns}
    BY DEF Tick
  <2>3. dns \in SUBSET DnsNames
    BY Parts
  <2> QED BY <2>1, <2>2, <2>3
<1>5. confs' \in Seq(Config)
  <2>1. confs \in Seq(Config)
    BY Parts
  <2> DEFINE c(i) == [confs[i] EXCEPT !.declined = IF @ = -1 THEN -1 ELSE @ - 1]
  <2>2. ASSUME NEW i \in DOMAIN confs PROVE c(i) \in Config
    <3> DEFINE k == confs[i]  d == IF k.declined = -1 THEN -1 ELSE k.declined - 1
    <3>1. k \in Config
      BY <2>1
    <3> HIDE DEF k
    <3>2. d \in Int
      BY <3>1 DEF Config
    <3> HIDE DEF d
    <3>3. [k EXCEPT !.declined = d] \in Config
      BY <3>1, <3>2 DEF Config
    <3> QED BY <3>3 DEF k, d
  <2>3. confs' = [i \in DOMAIN confs |-> c(i)]
    BY DEF Tick
  <2>4. DOMAIN confs = 1..Len(confs) /\ Len(confs) \in Nat
    BY <2>1
  <2> HIDE DEF c
  <2> DEFINE C == Config
  <2>5. \A i \in DOMAIN confs : c(i) \in C
    BY <2>2
  <2> HIDE DEF C
  <2>6. confs' \in Seq(C)
    BY <2>3, <2>4, <2>5
  <2> QED BY <2>6 DEF C
<1>6. pings' \in SUBSET Ping
  <2>1. ASSUME NEW p \in Ping, p.left > 0 PROVE [p EXCEPT !.left = @ - 1] \in Ping
    <3>1. PingCacheTime \in Nat
      BY DhcpAssumption
    <3> QED BY <2>1, <3>1 DEF Ping
  <2>2. pings \in SUBSET Ping /\ pings' = StillKnown(pings)
    BY Parts DEF Tick
  <2> QED BY <2>1, <2>2 DEF StillKnown
<1>7. held' \in Holdings
  <2>1. held \in Holdings
    BY Parts
  <2> DEFINE f(h) == IF held[h].left = 0 THEN Nowhere ELSE [held[h] EXCEPT !.left = Later(@)]
  <2>2. ASSUME NEW h \in Hw PROVE f(h) \in Holding
    <3> DEFINE k == held[h]  left == Later(k.left)
    <3>1. k \in Holding
      BY <2>1 DEF Holdings
    <3> HIDE DEF k
    <3>2. k.left # 0 => left \in Term /\ (k.left = Never => left = Never)
      BY <3>1, LeasesAssumption DEF Holding, Term, Later, LongGone
    <3> HIDE DEF left
    <3>3. k.left # 0 => [k EXCEPT !.left = left] \in Holding
      BY <3>1, <3>2 DEF Holding, Nowhere
    <3> QED BY <3>3, NowhereOK DEF k, left
  <2>3. held' = [h \in Hw |-> f(h)]
    BY DEF Tick
  <2> HIDE DEF f
  <2> QED BY <2>2, <2>3 DEF Holdings
<1>8. /\ due' \in BOOLEAN /\ hosts' \in Hosts /\ epoch' \in Epochs /\ view' \in Views
  BY Parts DEF Tick
<1> QED
  BY <1>1, <1>2, <1>3, <1>4, <1>5, <1>6, <1>7, <1>8, PartsNext

LEMMA AlarmOK == IInv /\ Alarm => IInv'
<1> SUFFICES ASSUME IInv, Alarm PROVE IInv'
  OBVIOUS
<1> QED
  BY Parts, PartsNext DEF Alarm

LEMMA AlarmEventOK == IInv /\ AlarmEvent => IInv'
<1> SUFFICES ASSUME IInv, AlarmEvent PROVE IInv'
  OBVIOUS
<1> DEFINE u == LeasePrune(lt, 0)
<1>1. u \in Good
  BY Parts, GoodTable, LeasePruneOK
<1>2. PICK o \in Files(u, alarm) : file' = o.file /\ alarm' = o.alarm /\ lt' = Settle(o.t)
  BY DEF AlarmEvent
<1> HIDE DEF u
<1>3. o.t \in Good /\ Readable(o.file) /\ o.alarm \in Nat \cup {NoAlarm}
  <2>1. alarm \in Nat \cup {NoAlarm}
    BY Parts
  <2> QED BY <1>1, <2>1, FilesOK
<1>4. Settle(o.t) \in Good
  BY <1>3, SettleOK
<1> QED
  BY <1>2, <1>3, <1>4, Parts, PartsNext DEF AlarmEvent

(* The files are read again, at SIGHUP or by a new process. *)
LEMMA ReloadOK ==
    ASSUME IInv, NEW t \in Good, NEW cs0 \in Seq(Config), NEW before \in Nat \cup {NoAlarm},
           Reload(t, cs0, before)
    PROVE  /\ lt' \in Good /\ Readable(file') /\ alarm' \in Nat \cup {NoAlarm}
           /\ dns' \in SUBSET DnsNames /\ confs' \in Seq(Config) /\ hosts' \in Hosts
<1>1. PICK ethers \in EthersFiles, bank \in BankFiles, names \in HostsFiles :
        LET cs == Reconfigured(cs0, ethers, bank, names)
        IN /\ confs' = cs /\ hosts' = names
           /\ \E o \in Files(LeaseUpdateFromConfigs(t, cs, names), before) :
                /\ file' = o.file /\ alarm' = o.alarm
                /\ dns' = LeaseUpdateDns(o.t, dns)
                /\ lt' = Settle(RerunScripts(Entered(o.t)))
  BY DEF Reload
<1> DEFINE cs == Reconfigured(cs0, ethers, bank, names)
           u == LeaseUpdateFromConfigs(t, cs, names)
<1>2. PICK o \in Files(u, before) :
        /\ file' = o.file /\ alarm' = o.alarm
        /\ dns' = LeaseUpdateDns(o.t, dns)
        /\ lt' = Settle(RerunScripts(Entered(o.t)))
  BY <1>1
<1>3. confs' = cs /\ hosts' = names
  BY <1>1
<1>4. cs \in Seq(Config)
  BY ReconfiguredOK
<1>5. names \in Hosts
  BY DhcpAssumption DEF Hosts
<1> HIDE DEF cs
<1>6. u \in Good
  BY <1>4, <1>5, LeaseUpdateFromConfigsOK DEF Hosts
<1> HIDE DEF u
<1>7. o.t \in Good /\ Readable(o.file) /\ o.alarm \in Nat \cup {NoAlarm}
  BY <1>6, FilesOK
<1>8. LeaseUpdateDns(o.t, dns) \in SUBSET DnsNames
  BY <1>7, UpdateDnsOK, Parts
<1>9. Settle(RerunScripts(Entered(o.t))) \in Good
  BY <1>7, EnteredOK, RerunOK, SettleOK
<1> QED
  BY <1>2, <1>3, <1>4, <1>5, <1>7, <1>8, <1>9

LEMMA HangUpOK == IInv /\ HangUp => IInv'
<1> SUFFICES ASSUME IInv, HangUp PROVE IInv'
  OBVIOUS
<1>1. Reload(lt, confs, alarm)
  BY DEF HangUp
<1>2. lt \in Good /\ confs \in Seq(Config) /\ alarm \in Nat \cup {NoAlarm}
  BY Parts
<1>3. /\ lt' \in Good /\ Readable(file') /\ alarm' \in Nat \cup {NoAlarm}
      /\ dns' \in SUBSET DnsNames /\ confs' \in Seq(Config) /\ hosts' \in Hosts
  BY <1>1, <1>2, ReloadOK
<1> QED
  BY <1>3, Parts, PartsNext DEF HangUp

LEMMA EpochZero == [i \in DOMAIN Contexts |-> 0] \in Epochs
<1>1. \A i \in DOMAIN Contexts : 0 < Size(Contexts[i])
  BY RangeOK DEF Ranges
<1> QED
  BY <1>1 DEF Epochs

LEMMA RestartOK == IInv /\ Restart => IInv'
<1> SUFFICES ASSUME IInv, NEW how, Starts(how) PROVE IInv'
  BY DEF Restart
<1>1. LeaseInit(file) \in Good
  BY Parts, LeaseInitOK DEF Readable
<1>2. /\ lt' \in Good /\ Readable(file') /\ alarm' \in Nat \cup {NoAlarm}
      /\ dns' \in SUBSET DnsNames /\ confs' \in Seq(Config) /\ hosts' \in Hosts
  <2>1. Reload(LeaseInit(file), CommandLine, NoAlarm)
    BY DEF Starts
  <2>2. CommandLine \in Seq(Config)
    BY HostsAssumption
  <2> QED BY <1>1, <2>1, <2>2, ReloadOK
<1>3. view' \in Views
  <2>1. lt \in Table /\ view \in Views
    BY Parts, GoodTable
  <2>2. FoldLeft(Shown, view, Pending(lt)) \in Views
    BY <2>1, PendingOK, ShownAllOK
  <2> QED BY <2>1, <2>2 DEF Starts
<1>4. epoch' \in Epochs /\ pings' \in SUBSET Ping /\ due' \in BOOLEAN /\ held' \in Holdings
  BY EpochZero, Parts DEF Starts
<1> QED
  BY <1>2, <1>3, <1>4, PartsNext

LEMMA InitOK == Init => IInv
<1> SUFFICES ASSUME Init PROVE IInv
  OBVIOUS
<1>1. lt \in Good
  <2>1. NoLeases \in Table /\ Len(NoLeases.leases) = 0
    <3> DEFINE L == Lease
    <3>1. <<>> \in Seq(L)
      OBVIOUS
    <3> QED BY <3>1 DEF NoLeases, Table
  <2>2. lt = NoLeases
    BY DEF Init
  <2> QED BY <2>1, <2>2, LeasesAssumption DEF Good, Sound, Unique
<1>2. Readable(file)
  <2>1. file = <<>> /\ Len(file) = 0
    BY DEF Init
  <2> DEFINE S == Stored
  <2>2. <<>> \in Seq(S)
    OBVIOUS
  <2> QED BY <2>1, <2>2, LeasesAssumption DEF Readable, FileUnique
<1>3. confs \in Seq(Config) /\ hosts \in Hosts
  <2>1. PICK ethers \in EthersFiles, bank \in BankFiles, names \in HostsFiles :
          confs = Reconfigured(CommandLine, ethers, bank, names) /\ hosts = names
    BY DEF Init
  <2>2. CommandLine \in Seq(Config) /\ names \in Hosts
    BY HostsAssumption, DhcpAssumption DEF Hosts
  <2> QED BY <2>1, <2>2, ReconfiguredOK
<1>4. view \in Views
  <2>1. Unknown \in [hw : Hw \cup {NoHw}, name : Name \cup {NoName}]
    BY DEF Unknown
  <2> QED BY <2>1 DEF Init, Views
<1>5. held \in Holdings
  BY NowhereOK DEF Init, Holdings
<1>6. epoch \in Epochs
  BY EpochZero DEF Init
<1>7. alarm \in Nat \cup {NoAlarm} /\ due \in BOOLEAN /\ dns \in SUBSET DnsNames
      /\ pings \in SUBSET Ping
  BY DEF Init
<1> QED
  BY <1>1, <1>2, <1>3, <1>4, <1>5, <1>6, <1>7, Parts

-----------------------------------------------------------------------------
(* The theorems about the table and its file *)

LEMMA NextOK == IInv /\ [Next]_vars => IInv'
<1> SUFFICES ASSUME IInv, [Next]_vars PROVE IInv'
  OBVIOUS
<1>1. CASE UNCHANGED vars
  BY <1>1, Parts, PartsNext DEF vars
<1> QED
  BY <1>1, ClientSeeksOK, ClientUsesOK, ClientStopsOK, ScriptRunOK, TickOK, AlarmOK,
     AlarmEventOK, HangUpOK, RestartOK DEF Next

(* The inductive invariant: types, unique leases, and a file that can be read. *)
THEOREM DhcpInv == Spec => []IInv
<1> QED
  BY InitOK, NextOK, PTL DEF Spec

(* The table, the file, the entries of the configuration, the names given to
   the DNS and what the script knows have their types at every step of
   lease.c, dhcp.c and rfc2131.c, and there are never more leases than
   --dhcp-lease-max.                                                        *)
THEOREM DhcpTypeOK == Spec => []TypeOK
<1>1. IInv => TypeOK
  BY DEF IInv
<1> QED
  BY <1>1, DhcpInv, PTL

(* For any machines, ranges, dhcp-host entries and contents of /etc/ethers
   and the hosts files, whatever packets come: no two leases have one
   address, host name or client identifier, through renamings by the
   configuration, files cut short by an error, and restarts.                *)
THEOREM DhcpOneLeaseEach == Spec => []OneLeaseEach
<1>1. IInv => OneLeaseEach
  BY DEF IInv
<1> QED
  BY <1>1, DhcpInv, PTL

(* The file, whole or cut short by an error, never has more lines than there
   may be leases, nor an address or an identifier twice: lease_init, which
   ends the process with "too many stored leases", never does so on a file
   the server wrote.                                                        *)
THEOREM DhcpFileReadable == Spec => []Readable(file)
<1>1. IInv => Readable(file)
  BY Parts
<1> QED
  BY <1>1, DhcpInv, PTL

-----------------------------------------------------------------------------
(* What a machine with an address relies on *)

(* A lease with a client identifier is that of the machine that has it. *)
Owner(hw, clid) == \E c \in Clients : c.hw = hw /\ c.clid = clid
Owned(l)        == l.clid # NoClid => Owner(l.hw, l.clid)
OwnedAll(ls)    == \A i \in 1..Len(ls) : Owned(ls[i])

(* A lease of machine h that lasts as long as what the machine holds. *)
Covers(l, h, k) ==
    l.addr = k.addr /\ l.hw = h /\ (l.left = Never \/ (k.left # Never /\ k.left <= l.left))
Backs(t, h, k) == \E i \in 1..Len(t.leases) : Covers(t.leases[i], h, k)

Stems(t, u) ==
    \A i \in 1..Len(u.leases) : \E j \in 1..Len(t.leases) : Tied(u.leases[i], t.leases[j])

(* From t to u no machine but g loses what it relies on, and a table whose
   file is up to date has no lease that was not there before.               *)
Gentle(t, u, g) ==
    /\ OwnedAll(t.leases) => OwnedAll(u.leases)
    /\ ~u.fileDirty => ~t.fileDirty /\ Stems(t, u)
    /\ \A h \in Hw \ {g}, k \in Holding : Backs(t, h, k) => Backs(u, h, k)

LEMMA TiedCovers ==
    ASSUME NEW l, NEW m, NEW h, NEW k, Tied(l, m), Covers(m, h, k)
    PROVE  Covers(l, h, k)
BY DEF Tied, Covers

LEMMA TiedOwned ==
    ASSUME NEW l, NEW m, Tied(l, m), Owned(m) PROVE Owned(l)
BY DEF Tied, Owned

LEMMA GentleTrans ==
    ASSUME NEW t, NEW u, NEW v, NEW g, Gentle(t, u, g), Gentle(u, v, g)
    PROVE  Gentle(t, v, g)
<1>1. ~v.fileDirty => ~t.fileDirty /\ Stems(t, v)
  <2> SUFFICES ASSUME ~v.fileDirty PROVE ~t.fileDirty /\ Stems(t, v)
    OBVIOUS
  <2>1. ~u.fileDirty /\ Stems(u, v) /\ ~t.fileDirty /\ Stems(t, u)
    BY DEF Gentle
  <2>2. ASSUME NEW i \in 1..Len(v.leases)
        PROVE  \E j \in 1..Len(t.leases) : Tied(v.leases[i], t.leases[j])
    <3>1. PICK k \in 1..Len(u.leases) : Tied(v.leases[i], u.leases[k])
      BY <2>1 DEF Stems
    <3>2. PICK j \in 1..Len(t.leases) : Tied(u.leases[k], t.leases[j])
      BY <2>1 DEF Stems
    <3> QED BY <3>1, <3>2 DEF Tied
  <2> QED BY <2>1, <2>2 DEF Stems
<1>2. ASSUME NEW h \in Hw \ {g}, NEW k \in Holding, Backs(t, h, k) PROVE Backs(v, h, k)
  BY <1>2 DEF Gentle
<1> QED
  BY <1>1, <1>2 DEF Gentle

LEMMA GentleAll ==
    ASSUME NEW t, NEW u, NEW g, Gentle(t, u, NoHw) PROVE Gentle(t, u, g)
BY LeasesAssumption DEF Gentle

LEMMA SparedGentle ==
    ASSUME NEW t, NEW u, Spared(t, u) PROVE Gentle(t, u, NoHw)
<1>1. ASSUME OwnedAll(t.leases) PROVE OwnedAll(u.leases)
  <2>1. ASSUME NEW i \in 1..Len(u.leases) PROVE Owned(u.leases[i])
    <3>1. Tied(u.leases[i], t.leases[i]) /\ Owned(t.leases[i])
      BY <1>1 DEF Spared, OwnedAll
    <3> QED BY <3>1, TiedOwned
  <2> QED BY <2>1 DEF OwnedAll
<1>2. ~u.fileDirty => ~t.fileDirty /\ Stems(t, u)
  BY DEF Spared, Stems
<1>3. ASSUME NEW h, NEW k, Backs(t, h, k) PROVE Backs(u, h, k)
  <2>1. PICK i \in 1..Len(t.leases) : Covers(t.leases[i], h, k)
    BY <1>3 DEF Backs
  <2>2. Tied(u.leases[i], t.leases[i]) /\ i \in 1..Len(u.leases)
    BY DEF Spared
  <2>3. Covers(u.leases[i], h, k)
    BY <2>1, <2>2, TiedCovers
  <2> QED BY <2>2, <2>3 DEF Backs
<1> QED
  BY <1>1, <1>2, <1>3 DEF Gentle

(* A lease that covers what a machine holds has not expired. *)
LEMMA CoversLives ==
    ASSUME NEW l, l.left \in Left, NEW h, NEW k \in Holding, Covers(l, h, k)
    PROVE  ~Expired(l)
<1>1. k.left \in Term
  BY DEF Holding
<1> QED
  BY <1>1, LeasesAssumption DEF Covers, Expired, Term, Left, LongGone

LEMMA PruneGentle ==
    ASSUME NEW t \in Good, NEW target, NEW g,
           target \in 1..Len(t.leases) => t.leases[target].hw = g
    PROVE  Gentle(t, LeasePrune(t, target), g)
<1> DEFINE u == LeasePrune(t, target)
<1>1. t \in Sound /\ t \in Table
  BY GoodTable
<1>2. /\ \A j \in 1..Len(u.leases) : \E k \in 1..Len(t.leases) :
           k # target /\ u.leases[j] = t.leases[k]
      /\ \A k \in 1..Len(t.leases) : k # target /\ ~Expired(t.leases[k]) =>
           \E j \in 1..Len(u.leases) : u.leases[j] = t.leases[k]
      /\ ~u.fileDirty => ~t.fileDirty
  BY ONLY <1>1, LeasePruneOK
<1> HIDE DEF u
<1>3. OwnedAll(t.leases) => OwnedAll(u.leases)
  BY <1>2 DEF OwnedAll
<1>4. Stems(t, u)
  BY <1>2 DEF Stems, Tied
<1>5. ASSUME NEW h \in Hw \ {g}, NEW k \in Holding, Backs(t, h, k) PROVE Backs(u, h, k)
  <2>1. PICK i \in 1..Len(t.leases) : Covers(t.leases[i], h, k)
    BY <1>5 DEF Backs
  <2>2. i # target
    BY <2>1 DEF Covers
  <2>3. t.leases[i].left \in Left
    <3>1. t.leases[i] \in Lease
      BY <1>1, LeaseAt
    <3> QED BY <3>1 DEF Lease
  <2>4. ~Expired(t.leases[i])
    BY <2>1, <2>3, CoversLives
  <2>5. PICK j \in 1..Len(u.leases) : u.leases[j] = t.leases[i]
    BY <1>2, <2>2, <2>4
  <2> QED BY <2>1, <2>5 DEF Backs
<1> QED
  BY <1>2, <1>3, <1>4, <1>5 DEF Gentle, u

(* A machine that is given an address, on a lease of its own or a new one. *)
LEMMA GaveGentle ==
    ASSUME NEW t, NEW u, Len(t.leases) \in Nat, NEW lease \in 0..Len(t.leases), NEW addr, NEW hw,
           NEW clid, NEW left, Gave(t, u, lease, addr, hw, clid, left),
           lease # 0 => t.leases[lease].hw = hw /\ t.leases[lease].addr = addr,
           clid # NoClid => Owner(hw, clid)
    PROVE  /\ Gentle(t, u, hw)
           /\ \A k \in Holding : /\ k.addr = addr
                                 /\ left = Never \/ (k.left # Never /\ k.left <= left)
                                 => Backs(u, hw, k)
<1>1. PICK g \in 1..Len(u.leases) :
      /\ u.leases[g].addr = (IF lease = 0 THEN addr ELSE t.leases[lease].addr)
      /\ u.leases[g].hw = hw /\ u.leases[g].left = left
      /\ u.leases[g].clid = (IF clid # NoClid THEN clid
                             ELSE IF lease = 0 THEN NoClid ELSE t.leases[lease].clid)
      /\ \A j \in 1..Len(u.leases) : j # g =>
            \E k \in 1..Len(t.leases) : k # lease /\ Tied(u.leases[j], t.leases[k])
      /\ \A k \in 1..Len(t.leases) : k # lease =>
            \E j \in 1..Len(u.leases) : Tied(u.leases[j], t.leases[k])
      /\ ~u.fileDirty => ~t.fileDirty /\ lease # 0 /\ Tied(u.leases[g], t.leases[lease])
  BY DEF Gave
<1>2. lease # 0 => lease \in 1..Len(t.leases)
  OBVIOUS
<1>3. ASSUME OwnedAll(t.leases) PROVE OwnedAll(u.leases)
  <2>1. Owned(u.leases[g])
    <3>1. lease # 0 => Owned(t.leases[lease])
      BY <1>2, <1>3 DEF OwnedAll
    <3> QED BY <1>1, <3>1 DEF Owned
  <2>2. ASSUME NEW j \in 1..Len(u.leases), j # g PROVE Owned(u.leases[j])
    <3>1. PICK k \in 1..Len(t.leases) : Tied(u.leases[j], t.leases[k])
      BY <1>1, <2>2
    <3>2. Owned(t.leases[k])
      BY <1>3 DEF OwnedAll
    <3> QED BY <3>1, <3>2, TiedOwned
  <2> QED BY <2>1, <2>2 DEF OwnedAll
<1>4. ASSUME ~u.fileDirty PROVE ~t.fileDirty /\ Stems(t, u)
  <2>1. ~t.fileDirty /\ lease \in 1..Len(t.leases) /\ Tied(u.leases[g], t.leases[lease])
    BY <1>1, <1>2, <1>4
  <2>2. ASSUME NEW i \in 1..Len(u.leases)
        PROVE  \E j \in 1..Len(t.leases) : Tied(u.leases[i], t.leases[j])
    BY <1>1, <2>1
  <2> QED BY <2>1, <2>2 DEF Stems
<1>5. ASSUME NEW h \in Hw \ {hw}, NEW k \in Holding, Backs(t, h, k) PROVE Backs(u, h, k)
  <2>1. PICK i \in 1..Len(t.leases) : Covers(t.leases[i], h, k)
    BY <1>5 DEF Backs
  <2>2. i # lease
    BY <1>2, <2>1 DEF Covers
  <2>3. PICK j \in 1..Len(u.leases) : Tied(u.leases[j], t.leases[i])
    BY <1>1, <2>2
  <2>4. Covers(u.leases[j], h, k)
    BY <2>1, <2>3, TiedCovers
  <2> QED BY <2>4 DEF Backs
<1>6. ASSUME NEW k \in Holding, k.addr = addr,
             left = Never \/ (k.left # Never /\ k.left <= left)
      PROVE  Backs(u, hw, k)
  <2>1. Covers(u.leases[g], hw, k)
    BY <1>1, <1>6 DEF Covers
  <2> QED BY <2>1 DEF Backs
<1> QED
  BY <1>3, <1>4, <1>5, <1>6 DEF Gentle

-----------------------------------------------------------------------------
(* What the theorem needs of the configuration *)

(* A client identifier is that of one machine. *)
OneMachine ==
    \A c, d \in Clients : c.clid # NoClid /\ c.clid = d.clid => c.hw = d.hw

(* Every lease is for T seconds or for ever: no renewal is for less time than
   the machine still has.                                                    *)
Times(T) == {0, T, Never}
Steady(T) ==
    /\ T \in 0..MaxLeft /\ MinTime <= T
    /\ \A i \in DOMAIN Contexts : Contexts[i].time \in {T, Never}
    /\ CommandLine \in Seq(Timed(Times(T))) /\ BankFiles \subseteq Seq(Timed(Times(T)))
    /\ Requested \subseteq Times(T)

LEMMA CalcTimeSteady ==
    ASSUME NEW T, Steady(T), NEW c \in Ranges, NEW q, q.conf.time \in Times(T),
           q.m.time \in Times(T)
    PROVE  CalcTime(c, q) \in {T, Never}
<1> DEFINE given == IF q.conf.time # 0 THEN q.conf.time ELSE c.time
           asked == IF q.m.time = Never \/ q.m.time >= MinTime THEN q.m.time ELSE MinTime
<1>1. given \in {T, Never}
  <2>1. c.time \in {T, Never}
    BY RangeOK DEF Steady, Ranges
  <2> QED BY <2>1 DEF Times
<1>2. q.m.time # 0 => asked \in {T, Never}
  BY DEF Times, Steady
<1>3. CalcTime(c, q) = given \/ (q.m.time # 0 /\ CalcTime(c, q) = asked)
  BY DEF CalcTime
<1> HIDE DEF given, asked
<1> QED
  BY <1>1, <1>2, <1>3

-----------------------------------------------------------------------------
(* What a packet changes *)

(* The message is from a client, with its identifier or without. *)
Speaks(m) == \E c \in Clients : m.hw = c.hw /\ m.clid \in {NoClid, c.clid}

(* The lease found for a machine is its own. *)
Known(q, s) ==
    /\ q.lease # 0 => s.t.leases[q.lease].hw = q.m.hw
    /\ q.clid # NoClid => Owner(q.m.hw, q.clid)

LEMMA OwnLease ==
    ASSUME NEW t \in Table, OwnedAll(t.leases), OneMachine, NEW m, Speaks(m),
           FindByClient(t, m.hw, m.clid) # 0
    PROVE  t.leases[FindByClient(t, m.hw, m.clid)].hw = m.hw
<1> DEFINE i == FindByClient(t, m.hw, m.clid)
<1>1. /\ i \in 0..Len(t.leases)
      /\ (m.clid # NoClid /\ t.leases[i].clid = m.clid) \/ t.leases[i].hw = m.hw
  BY FindByClientOK
<1>2. i \in 1..Len(t.leases)
  BY <1>1 DEF Table
<1> HIDE DEF i
<1>3. Owned(t.leases[i])
  BY <1>2 DEF OwnedAll
<1>4. ASSUME m.clid # NoClid, t.leases[i].clid = m.clid PROVE t.leases[i].hw = m.hw
  BY <1>3, <1>4 DEF Owned, Owner, Speaks, OneMachine
<1> QED
  BY <1>1, <1>4 DEF i

LEMMA QueryKnown ==
    ASSUME NEW s \in State, NEW m, Wellformed(m), Speaks(m), OwnedAll(s.t.leases), OneMachine,
           NEW TS, 0 \in TS, s.confs \in Seq(Timed(TS))
    PROVE  LET q == Query(s, m) IN Known(q, s) /\ q.conf.time \in TS
<1> DEFINE lease == IF m.type = "bootp" THEN 0 ELSE FindByClient(s.t, m.hw, m.clid)
           chain == ChainFor(m)
           clid  == ClidOf(s, m, lease)
           first == FindConfig(s.confs, Nets(chain), clid, m.hw, NoName)
           named == FindConfig(s.confs, Nets(chain), NoClid, m.hw, m.name)
           at    == Entry(s, m, first, named)
           conf  == IF at = 0 THEN Blank ELSE s.confs[at]
           auth  == first # 0 /\ conf.name # NoName
           q     == Query(s, m)
<1>1. q = Described(m, chain, lease, clid, at, conf, auth)
  BY DEF Query, Recognised, Matched, Configured
<1>2. s.t \in Table /\ s.confs \in Seq(Config) /\ Len(s.t.leases) \in Nat
  BY StateParts
<1>3. lease # 0 => lease \in 1..Len(s.t.leases) /\ s.t.leases[lease].hw = m.hw
  <2> SUFFICES ASSUME lease # 0
               PROVE  lease \in 1..Len(s.t.leases) /\ s.t.leases[lease].hw = m.hw
    OBVIOUS
  <2>1. lease = FindByClient(s.t, m.hw, m.clid)
    OBVIOUS
  <2> HIDE DEF lease
  <2>2. lease \in 0..Len(s.t.leases)
    BY <1>2, <2>1, FindByClientOK
  <2>3. s.t.leases[lease].hw = m.hw
    BY <1>2, <2>1, OwnLease
  <2> QED BY <1>2, <2>2, <2>3
<1>4. clid = m.clid \/ (lease # 0 /\ clid = s.t.leases[lease].clid)
  BY DEF ClidOf
<1> HIDE DEF lease, chain, clid
<1>5. first \in 0..Len(s.confs) /\ named \in 0..Len(s.confs)
  BY <1>2, FindConfigOK
<1> HIDE DEF first, named
<1>6. at \in 0..Len(s.confs)
  BY <1>5 DEF Entry
<1> HIDE DEF at
<1>7. conf.time \in TS
  <2>1. Blank \in Timed(TS)
    BY BlankTimed
  <2>2. at # 0 => at \in 1..Len(s.confs)
    BY <1>2, <1>6
  <2>3. at # 0 => s.confs[at] \in Timed(TS)
    BY <2>2, ConfigAt
  <2>4. conf \in Timed(TS)
    BY <2>1, <2>3
  <2> QED BY <2>4 DEF Timed
<1> HIDE DEF conf, auth
<1>8. clid # NoClid => Owner(m.hw, clid)
  <2>1. ASSUME clid # NoClid, clid = m.clid PROVE Owner(m.hw, clid)
    BY <2>1 DEF Speaks, Owner
  <2>2. ASSUME clid # NoClid, lease # 0, clid = s.t.leases[lease].clid PROVE Owner(m.hw, clid)
    <3>1. Owned(s.t.leases[lease])
      BY <1>3, <2>2 DEF OwnedAll
    <3> QED BY <1>3, <2>2, <3>1 DEF Owned
  <2> QED BY <1>4, <2>1, <2>2
<1> DEFINE c == IF conf.noclid THEN NoClid ELSE clid
<1>9. q.m = m /\ q.lease = lease /\ q.conf = conf /\ q.clid = c
  BY <1>1 DEF Described
<1>10. c # NoClid => c = clid
  OBVIOUS
<1> HIDE DEF c, q
<1>11. Known(q, s)
  BY <1>3, <1>8, <1>9, <1>10 DEF Known
<1> QED
  BY <1>7, <1>9, <1>11 DEF q

(* What the outcome of a packet m is worth to the machines: no other one
   loses anything, and the machine is given what it is told.                *)
Fair(T, s, m, r) ==
    /\ Gentle(s.t, r.s.t, m.hw)
    /\ r.s.confs \in Seq(Timed(Times(T)))
    /\ r.kind \in {"ack", "bootp"} =>
         /\ r.left \in {T, Never}
         /\ \A k \in Holding : /\ k.addr = r.addr
                               /\ r.left = Never \/ (k.left # Never /\ k.left <= r.left)
                               => Backs(r.s.t, m.hw, k)
    /\ m.type = "request" /\ m.reqip = NoAddr =>
         (r.kind = "ack" /\ r.addr = m.ciaddr) \/ r.s.t = s.t
    /\ m.type = "inform" => Gentle(s.t, r.s.t, NoHw)

LEMMA GentleSelf == ASSUME NEW t, NEW g PROVE Gentle(t, t, g) /\ Gentle(t, t, NoHw)
BY SparedSelf, SparedGentle, GentleAll

LEMMA FairOutcome ==
    ASSUME NEW T, NEW s, NEW m, NEW u, NEW kind, kind \notin {"ack", "bootp"}, NEW addr, NEW left,
           NEW why, Gentle(s.t, u.t, m.hw), u.confs \in Seq(Timed(Times(T))),
           m.type = "request" /\ m.reqip = NoAddr => u.t = s.t,
           m.type = "inform" => Gentle(s.t, u.t, NoHw)
    PROVE  Fair(T, s, m, Outcome(u, kind, addr, left, why))
<1> DEFINE r == Outcome(u, kind, addr, left, why)
<1>1. r.s = u /\ r.kind = kind
  BY DEF Outcome
<1> HIDE DEF r
<1>2. Fair(T, s, m, r)
  BY <1>1 DEF Fair
<1> QED
  BY <1>2 DEF r

LEMMA FairSilent ==
    ASSUME NEW T, NEW s, NEW m, NEW u, Gentle(s.t, u.t, m.hw), u.confs \in Seq(Timed(Times(T))),
           m.type = "request" /\ m.reqip = NoAddr => u.t = s.t,
           m.type = "inform" => Gentle(s.t, u.t, NoHw)
    PROVE  Fair(T, s, m, Silent(u))
<1>1. "none" \notin {"ack", "bootp"}
  OBVIOUS
<1>2. Fair(T, s, m, Outcome(u, "none", NoAddr, 0, ""))
  BY <1>1, FairOutcome
<1> QED
  BY <1>2 DEF Silent

(* What a machine has left is pruned first. *)
LEMMA PrunedGentle ==
    ASSUME NEW s \in State, NEW i, NEW g, i \in 1..Len(s.t.leases) => s.t.leases[i].hw = g
    PROVE  Gentle(s.t, Pruned(s, i).t, g)
<1> DEFINE u == LeasePrune(s.t, i)
<1>1. s.t \in Good
  BY StateParts
<1>2. Gentle(s.t, u, g) /\ u \in Good
  BY ONLY <1>1, i \in 1..Len(s.t.leases) => s.t.leases[i].hw = g, GoodTable, PruneGentle,
     LeasePruneOK
<1> HIDE DEF u
<1>3. Pruned(s, i).t = u
  BY <1>2, StateTable DEF Pruned, u
<1> QED
  BY <1>2, <1>3

(* What a packet does after a lease was pruned, or the ranges searched. *)
LEMMA FairAfter ==
    ASSUME NEW T, NEW s, NEW u, NEW m, NEW r, Gentle(s.t, u.t, m.hw), Fair(T, u, m, r),
           m.type = "request" => m.reqip # NoAddr, m.type # "inform"
    PROVE  Fair(T, s, m, r)
<1>1. Gentle(s.t, r.s.t, m.hw)
  BY GentleTrans DEF Fair
<1> QED
  BY <1>1 DEF Fair

(* A machine that is granted an address. *)
LEMMA GrantsFair ==
    ASSUME NEW T, NEW s \in State, NEW q, NEW lease \in 0..Len(s.t.leases), NEW addr, NEW clid,
           lease # 0 => s.t.leases[lease].hw = q.m.hw /\ s.t.leases[lease].addr = addr,
           clid # NoClid => Owner(q.m.hw, clid), s.confs \in Seq(Timed(Times(T))),
           NEW r, Grants(s, r, lease, addr, q.m.hw, clid), r.left \in {T, Never},
           q.m.type = "request" /\ q.m.reqip = NoAddr => r.kind = "ack" /\ r.addr = q.m.ciaddr,
           q.m.type # "inform"
    PROVE  Fair(T, s, q.m, r)
<1> DEFINE hw == q.m.hw  t == s.t  u == r.s.t  left == r.left
<1>1. Gave(t, u, lease, addr, hw, clid, left) /\ r.addr = addr /\ r.s.confs = s.confs
  BY DEF Grants
<1>2. Len(t.leases) \in Nat /\ lease \in 0..Len(t.leases)
  BY StateParts
<1>3. /\ lease # 0 => t.leases[lease].hw = hw /\ t.leases[lease].addr = addr
      /\ clid # NoClid => Owner(hw, clid)
  OBVIOUS
<1> HIDE DEF hw, t, u, left
<1>4. /\ Gentle(t, u, hw)
      /\ \A k \in Holding : /\ k.addr = addr
                            /\ left = Never \/ (k.left # Never /\ k.left <= left)
                            => Backs(u, hw, k)
  BY ONLY <1>1, <1>2, <1>3, GaveGentle
<1> QED
  BY <1>1, <1>4 DEF Fair, hw, t, u, left

LEMMA ServedFair ==
    ASSUME NEW T, Steady(T), NEW s \in State, NEW q, q.conf \in Config, q.m.hw \in Hw,
           q.name \in Name \cup {NoName}, NEW lease \in 0..Len(s.t.leases), NEW addr \in Addr,
           lease = 0 => FindByAddr(s.t, addr) = 0,
           lease # 0 => s.t.leases[lease].hw = q.m.hw /\ s.t.leases[lease].addr = addr,
           s.confs \in Seq(Timed(Times(T))), q.conf.time \in Times(T),
           q.m.type \notin {"request", "inform"}
    PROVE  Fair(T, s, q.m, Served(s, q, lease, addr))
<1> DEFINE r == Served(s, q, lease, addr)
<1>1. \/ r = Silent(s)
      \/ /\ r.kind = "bootp" /\ r.left = (IF q.conf.time # 0 THEN q.conf.time ELSE Never)
         /\ Grants(s, r, lease, addr, q.m.hw, NoClid)
  BY ServedOK
<1> HIDE DEF r
<1>2. CASE r = Silent(s)
  BY <1>2, FairSilent, GentleSelf DEF r
<1>3. CASE /\ r.kind = "bootp" /\ r.left = (IF q.conf.time # 0 THEN q.conf.time ELSE Never)
           /\ Grants(s, r, lease, addr, q.m.hw, NoClid)
  <2>1. r.left \in {T, Never}
    BY <1>3 DEF Times
  <2>2. Fair(T, s, q.m, r)
    BY <1>3, <2>1, GrantsFair
  <2> QED BY <2>2 DEF r
<1> QED
  BY <1>1, <1>2, <1>3 DEF r

LEMMA BootpFair ==
    ASSUME NEW T, Steady(T), NEW s \in State, NEW q, Describes(q, s), Known(q, s), NEW busy,
           s.confs \in Seq(Timed(Times(T))), q.conf.time \in Times(T), q.m.type = "bootp"
    PROVE  Fair(T, s, q.m, Bootp(s, q, busy))
<1> DEFINE hw == q.m.hw
           holder == FindByAddr(s.t, q.conf.addr)
           own == FindByClient(s.t, hw, NoClid)
           stays == own # 0 /\ AddressAvailable(q.chain, s.t.leases[own].addr, q.tags)
           left == IF own # 0 /\ ~stays THEN Pruned(s, own) ELSE s
           w == AddressAllocate(left, q.chain, hw, q.tags, busy)
           u == After(left, w)
<1>1. \/ Bootp(s, q, busy) = Silent(s)
      \/ Bootp(s, q, busy) = Silent(u)
      \/ /\ q.conf.addr # NoAddr /\ (holder # 0 => s.t.leases[holder].hw = hw)
         /\ Bootp(s, q, busy) = Served(s, q, holder, q.conf.addr)
      \/ own # 0 /\ Bootp(s, q, busy) = Served(s, q, own, s.t.leases[own].addr)
      \/ w.addr # NoAddr /\ Bootp(s, q, busy) = Served(u, q, 0, w.addr)
  BY DEF Bootp, Served, Updated
<1>2. /\ q.conf \in Config /\ hw \in Hw /\ q.name \in Name \cup {NoName} /\ q.chain \in Seq(Ranges)
      /\ q.m.type \notin {"request", "inform"}
  BY DEF Describes, Wellformed
<1>3. s.t \in Table /\ Len(s.t.leases) \in Nat
  BY StateParts
<1>4. left \in State /\ left.confs = s.confs
  BY PrunedOK
<1>5. own \in 0..Len(s.t.leases) /\ (own # 0 => s.t.leases[own].hw = hw)
  BY <1>3, FindByClientOK
<1>6. Gentle(s.t, left.t, hw)
  <2>1. own \in 1..Len(s.t.leases) => s.t.leases[own].hw = hw
    BY <1>3, <1>5
  <2>2. Gentle(s.t, Pruned(s, own).t, hw)
    BY <2>1, PrunedGentle
  <2> QED BY <2>2, GentleSelf
<1> HIDE DEF own, left
<1>7. w \in Finding(left.t)
  BY <1>2, <1>4, AddressAllocateOK
<1> HIDE DEF w
<1>8. u \in State /\ u.t = left.t /\ u.confs = s.confs
  BY <1>4, <1>7, AfterOK
<1> HIDE DEF u
<1>9. CASE Bootp(s, q, busy) = Silent(s)
  BY <1>2, <1>9, FairSilent, GentleSelf
<1>10. CASE Bootp(s, q, busy) = Silent(u)
  BY <1>2, <1>6, <1>8, <1>10, FairSilent
<1>11. CASE /\ q.conf.addr # NoAddr /\ (holder # 0 => s.t.leases[holder].hw = hw)
            /\ Bootp(s, q, busy) = Served(s, q, holder, q.conf.addr)
  <2> DEFINE a == q.conf.addr
  <2>1. a \in Addr
    BY <1>2, <1>11 DEF Config
  <2>2. holder \in 0..Len(s.t.leases) /\ (holder # 0 => s.t.leases[holder].addr = a)
    BY <1>3, FindByAddrOK
  <2>3. holder = 0 => FindByAddr(s.t, a) = 0
    OBVIOUS
  <2> HIDE DEF a, holder
  <2>4. Fair(T, s, q.m, Served(s, q, holder, a))
    BY <1>2, <1>11, <2>1, <2>2, <2>3, ServedFair
  <2> QED BY <1>11, <2>4 DEF a
<1>12. CASE own # 0 /\ Bootp(s, q, busy) = Served(s, q, own, s.t.leases[own].addr)
  <2> DEFINE a == s.t.leases[own].addr
  <2>1. own \in 1..Len(s.t.leases)
    BY <1>3, <1>5, <1>12
  <2>2. s.t.leases[own] \in Lease
    BY <1>3, <2>1, LeaseAt
  <2>3. a \in Addr /\ s.t.leases[own].addr = a
    BY <2>2 DEF Lease
  <2> HIDE DEF a
  <2>4. Fair(T, s, q.m, Served(s, q, own, a))
    BY <1>2, <1>5, <1>12, <2>3, ServedFair
  <2> QED BY <1>12, <2>4 DEF a
<1>13. CASE w.addr # NoAddr /\ Bootp(s, q, busy) = Served(u, q, 0, w.addr)
  <2> DEFINE a == w.addr
  <2>1. a \in Addr /\ FindByAddr(u.t, a) = 0
    BY <1>7, <1>8, <1>13 DEF Finding
  <2>2. 0 \in 0..Len(u.t.leases)
    BY <1>8, StateParts
  <2> HIDE DEF a
  <2>3. Fair(T, u, q.m, Served(u, q, 0, a))
    BY <1>2, <1>8, <2>1, <2>2, ServedFair
  <2>4. Gentle(s.t, u.t, q.m.hw)
    BY <1>6, <1>8
  <2>5. Fair(T, s, q.m, Served(u, q, 0, a))
    BY <1>2, <2>3, <2>4, FairAfter
  <2> QED BY <1>13, <2>5 DEF a
<1> QED
  BY <1>1, <1>9, <1>10, <1>11, <1>12, <1>13


(* The entry of a machine that will not have its address. *)
LEMMA BarredTimed ==
    ASSUME NEW TS, NEW confs0 \in Seq(Timed(TS)), NEW at \in 1..Len(confs0)
    PROVE  [confs0 EXCEPT ![at].declined = Backoff] \in Seq(Timed(TS))
<1> DEFINE k == confs0[at]  c == [k EXCEPT !.declined = Backoff]
<1>1. k \in Timed(TS) /\ Backoff \in Int
  BY ConfigAt, DhcpAssumption
<1> HIDE DEF k
<1>2. c \in Timed(TS)
  BY <1>1 DEF Timed, Config
<1>3. [confs0 EXCEPT ![at].declined = Backoff] = [confs0 EXCEPT ![at] = c]
  BY DEF k
<1> HIDE DEF c
<1>4. [confs0 EXCEPT ![at] = c] \in Seq(Timed(TS))
  BY <1>2, ConfigSet
<1> QED
  BY <1>3, <1>4

(* The machine's own lease, or none, is pruned. *)
LEMMA OwnPruned ==
    ASSUME NEW s \in State, NEW q, Describes(q, s), Known(q, s), q.lease # 0
    PROVE  Gentle(s.t, Pruned(s, q.lease).t, q.m.hw)
<1>1. q.lease \in 1..Len(s.t.leases) => s.t.leases[q.lease].hw = q.m.hw
  BY DEF Known
<1> QED
  BY <1>1, PrunedGentle

LEMMA DeclineFair ==
    ASSUME NEW T, NEW s \in State, NEW q, Describes(q, s), Known(q, s),
           s.confs \in Seq(Timed(Times(T))), q.m.type = "decline"
    PROVE  Fair(T, s, q.m, Decline(s, q))
<1> DEFINE mine == q.lease # 0 /\ s.t.leases[q.lease].addr = q.m.reqip
           s1 == IF mine THEN Pruned(s, q.lease) ELSE s
           e == [id \in DOMAIN s1.epoch |->
                    IF \E i \in DOMAIN q.chain : q.chain[i].id = id
                    THEN (s1.epoch[id] + 1) % Size(Contexts[id]) ELSE s1.epoch[id]]
           barred == [s1 EXCEPT !.confs[q.at].declined = Backoff]
           turned == [s1 EXCEPT !.epoch = e]
<1>1. \/ q.conf.addr # NoAddr /\ Decline(s, q) = Silent(barred)
      \/ Decline(s, q) = Silent(turned)
  BY DEF Decline
<1>2. s1 \in State /\ s1.confs = s.confs /\ Gentle(s.t, s1.t, q.m.hw)
  BY PrunedOK, OwnPruned, GentleSelf
<1> HIDE DEF s1
<1>3. ASSUME q.conf.addr # NoAddr
      PROVE  barred.t = s1.t /\ barred.confs \in Seq(Timed(Times(T)))
  <2>1. q.at \in 1..Len(s1.confs) /\ s1.confs \in Seq(Timed(Times(T)))
    BY <1>2, <1>3, StateParts DEF Describes
  <2>2. [s1.confs EXCEPT ![q.at].declined = Backoff] \in Seq(Timed(Times(T)))
    BY <2>1, BarredTimed
  <2>3. barred.confs = [s1.confs EXCEPT ![q.at].declined = Backoff] /\ barred.t = s1.t
    BY <1>2 DEF State
  <2> QED BY <2>2, <2>3
<1>4. turned.t = s1.t /\ turned.confs = s1.confs
  BY <1>2 DEF State
<1> HIDE DEF barred, turned
<1>5. ASSUME q.conf.addr # NoAddr, Decline(s, q) = Silent(barred)
      PROVE  Fair(T, s, q.m, Decline(s, q))
  BY <1>2, <1>3, <1>5, FairSilent
<1>6. ASSUME Decline(s, q) = Silent(turned) PROVE Fair(T, s, q.m, Decline(s, q))
  BY <1>2, <1>4, <1>6, FairSilent
<1> QED
  BY <1>1, <1>5, <1>6

LEMMA ReleaseFair ==
    ASSUME NEW T, NEW s \in State, NEW q, Describes(q, s), Known(q, s),
           s.confs \in Seq(Timed(Times(T))), q.m.type = "release"
    PROVE  Fair(T, s, q.m, Release(s, q))
<1> DEFINE u == Pruned(s, q.lease)
<1>1. \/ Release(s, q) = Silent(s)
      \/ q.lease # 0 /\ Release(s, q) = Silent(u)
  BY DEF Release
<1>2. u.confs = s.confs /\ (q.lease # 0 => Gentle(s.t, u.t, q.m.hw))
  BY PrunedOK, OwnPruned
<1> HIDE DEF u
<1> QED
  BY <1>1, <1>2, FairSilent, GentleSelf

LEMMA DiscoverFair ==
    ASSUME NEW T, NEW s \in State, NEW q, Describes(q, s), NEW busy,
           s.confs \in Seq(Timed(Times(T))), q.m.type = "discover"
    PROVE  Fair(T, s, q.m, Discover(s, q, busy))
<1> DEFINE w == AddressAllocate(s, q.chain, q.m.hw, q.tags, busy)
           known == ConfiguredFree(s, q) \/ LeaseFits(s, q) \/ AskedFree(s, q)
           addr == IF ConfiguredFree(s, q) THEN q.conf.addr
                   ELSE IF LeaseFits(s, q) THEN s.t.leases[q.lease].addr
                   ELSE IF AskedFree(s, q) THEN q.m.reqip ELSE w.addr
           s1 == IF known THEN s ELSE After(s, w)
           context == NarrowContext(q.chain, addr, q.tags)
           time == CalcTime(Head(context), q)
<1>1. \/ Discover(s, q, busy) = Silent(s)
      \/ Discover(s, q, busy) = Silent(s1)
      \/ Discover(s, q, busy) = Outcome(s1, "offer", addr, time, "")
  BY DEF Discover
<1>2. w \in Finding(s.t)
  <2>1. q.chain \in Seq(Ranges) /\ q.m.hw \in Hw
    BY DEF Describes, Wellformed
  <2> QED BY <2>1, AddressAllocateOK
<1> HIDE DEF w, known, addr, context, time
<1>3. s1.t = s.t /\ s1.confs = s.confs
  BY <1>2, AfterOK
<1> HIDE DEF s1
<1>4. Gentle(s.t, s1.t, q.m.hw) /\ Gentle(s.t, s.t, q.m.hw)
  BY <1>3, GentleSelf
<1>5. "offer" \notin {"ack", "bootp"}
  OBVIOUS
<1>6. Fair(T, s, q.m, Outcome(s1, "offer", addr, time, ""))
  BY <1>3, <1>4, <1>5, FairOutcome
<1> QED
  BY <1>1, <1>3, <1>4, <1>6, FairSilent

LEMMA InformFair ==
    ASSUME NEW T, NEW s \in State, NEW q, Describes(q, s),
           s.confs \in Seq(Timed(Times(T))), q.m.type = "inform"
    PROVE  Fair(T, s, q.m, Inform(s, q))
<1> DEFINE lease == IF q.lease # 0 THEN q.lease ELSE FindByAddr(s.t, q.m.ciaddr)
           t == SetInterface(s.t, lease)
           u == IF lease = 0 THEN s ELSE [s EXCEPT !.t = t]
<1>1. \/ Inform(s, q) = Silent(s)
      \/ Inform(s, q) = Outcome(u, "inform", NoAddr, 0, "")
  BY DEF Inform
<1>2. s.t \in Good /\ s.t \in Sound /\ s.t \in Table /\ Len(s.t.leases) \in Nat
  BY StateParts
<1>3. lease \in 0..Len(s.t.leases)
  BY <1>2, FindByAddrOK DEF Describes
<1> HIDE DEF lease
<1>4. u.confs = s.confs /\ Spared(s.t, u.t)
  <2>1. CASE lease = 0
    BY <2>1, SparedSelf
  <2>2. CASE lease # 0
    <3>1. lease \in 1..Len(s.t.leases)
      BY <1>2, <1>3, <2>2
    <3>2. t \in Table /\ Alike(s.t, t) /\ Spared(s.t, t)
      BY <1>2, <3>1, SetInterfaceOK
    <3> HIDE DEF t
    <3>3. t \in Good
      BY <1>2, <3>2, AlikeSound
    <3>4. [s EXCEPT !.t = t].t = t /\ [s EXCEPT !.t = t].confs = s.confs
      BY <3>3, StateTable
    <3> QED BY <2>2, <3>2, <3>4
  <2> QED BY <2>1, <2>2
<1> HIDE DEF u
<1>5. Gentle(s.t, u.t, NoHw) /\ Gentle(s.t, u.t, q.m.hw)
  BY <1>4, SparedGentle, GentleAll
<1>6. "inform" \notin {"ack", "bootp"}
  OBVIOUS
<1>7. Fair(T, s, q.m, Outcome(u, "inform", NoAddr, 0, ""))
  BY <1>4, <1>5, <1>6, FairOutcome
<1>8. Fair(T, s, q.m, Silent(s))
  BY GentleSelf, FairSilent
<1> QED
  BY <1>1, <1>7, <1>8

LEMMA RequestFair ==
    ASSUME NEW T, Steady(T), NEW s \in State, NEW q, Describes(q, s), Known(q, s),
           s.confs \in Seq(Timed(Times(T))), q.conf.time \in Times(T), q.m.time \in Times(T),
           q.m.type = "request", hosts \in [Addr -> Name \cup {NoName}]
    PROVE  Fair(T, s, q.m, Request(s, q))
<1> DEFINE addr == Wanted(q)
           left == q.m.reqip # NoAddr /\ Moved(s, q)
           s1 == IF left THEN Pruned(s, q.lease) ELSE s
           q1 == IF left THEN [q EXCEPT !.lease = 0] ELSE q
           refused == IF InitReboot(q) /\ left THEN "wrong address"
                      ELSE IF q.m.reqip = NoAddr
                              /\ (Moved(s, q) \/ (q.lease = 0 /\ ~Authoritative))
                      THEN "lease not found" ELSE Objection(s1, q1, addr)
<1>1. \/ Request(s, q) = Silent(s)
      \/ Request(s, q) = Outcome(s1, "nak", NoAddr, 0, refused)
      \/ /\ Objection(s1, q1, addr) = "" /\ (q.m.reqip = NoAddr => ~Moved(s, q))
         /\ Request(s, q) = Acknowledge(s1, q1, addr)
  BY DEF Request
<1>2. left => q.m.reqip # NoAddr /\ q.lease # 0
  BY DEF Moved
<1>3. s1 \in State /\ s1.confs = s.confs /\ Gentle(s.t, s1.t, q.m.hw)
  BY <1>2, PrunedOK, OwnPruned, GentleSelf
<1>4. q.m.reqip = NoAddr => s1 = s
  OBVIOUS
<1>5. Describes(q1, s1) /\ q1.m = q.m /\ q1.conf = q.conf /\ q1.clid = q.clid
  BY LeftOK
<1>6. q1.lease # 0 => ~left /\ q1 = q /\ s1 = s
  BY LeftOK
<1>7. CASE Request(s, q) = Silent(s)
  BY <1>7, FairSilent, GentleSelf
<1>8. CASE Request(s, q) = Outcome(s1, "nak", NoAddr, 0, refused)
  <2> HIDE DEF refused, s1
  <2>1. "nak" \notin {"ack", "bootp"} /\ q.m.type # "inform"
    OBVIOUS
  <2>2. q.m.reqip = NoAddr => s1.t = s.t
    BY <1>4
  <2>3. Fair(T, s, q.m, Outcome(s1, "nak", NoAddr, 0, refused))
    BY <1>3, <2>1, <2>2, FairOutcome
  <2> QED BY <1>8, <2>3
<1>9. CASE /\ Objection(s1, q1, addr) = "" /\ (q.m.reqip = NoAddr => ~Moved(s, q))
           /\ Request(s, q) = Acknowledge(s1, q1, addr)
  <2> DEFINE r == Acknowledge(s1, q1, addr)
  <2>1. q1.lease # 0 => s1.t.leases[q1.lease].hw = q1.m.hw /\ s1.t.leases[q1.lease].addr = addr
    <3> SUFFICES ASSUME q1.lease # 0
                 PROVE  s.t.leases[q.lease].hw = q.m.hw /\ s.t.leases[q.lease].addr = addr
      BY <1>6
    <3>1. ~Moved(s, q) /\ q.lease # 0
      BY <1>6, <1>9
    <3> QED BY <3>1 DEF Moved, Known
  <2>2. addr \in Addr \cup {NoAddr} /\ (q.m.reqip = NoAddr => addr = q.m.ciaddr)
    BY DEF Wanted, Describes, Wellformed
  <2> HIDE DEF s1, q1, addr, left
  <2>3. NarrowContext(q1.chain, addr, q1.tags) # <<>>
    BY <1>9 DEF Objection
  <2>4. q1.lease = 0 => FindByAddr(s1.t, addr) = 0 /\ Room(s1.t)
    BY <1>9 DEF Objection
  <2>5. /\ r.kind = "ack" /\ Grants(s1, r, q1.lease, addr, q1.m.hw, q1.clid)
        /\ \E c \in Ranges : r.left = CalcTime(c, q1)
    BY <1>3, <1>5, <2>2, <2>3, <2>4, AcknowledgeOK
  <2> HIDE DEF r
  <2>6. r.left \in {T, Never}
    <3>1. PICK c \in Ranges : r.left = CalcTime(c, q1)
      BY <2>5
    <3>2. q1.conf.time \in Times(T) /\ q1.m.time \in Times(T)
      BY <1>5
    <3> QED BY <3>1, <3>2, CalcTimeSteady
  <2>7. r.addr = addr
    BY <2>5 DEF Grants
  <2>8. q1.clid # NoClid => Owner(q1.m.hw, q1.clid)
    BY <1>5 DEF Known
  <2>9. q1.lease \in 0..Len(s1.t.leases) /\ s1.confs \in Seq(Timed(Times(T)))
    BY <1>3, <1>5 DEF Describes
  <2>10. /\ q1.m.type = "request" /\ q1.m.reqip = NoAddr => r.kind = "ack" /\ r.addr = q1.m.ciaddr
         /\ q1.m.type # "inform"
    BY <1>5, <2>2, <2>5, <2>7
  <2>11. Fair(T, s1, q1.m, r)
    BY <1>3, <2>1, <2>5, <2>6, <2>8, <2>9, <2>10, GrantsFair
  <2>12. CASE q.m.reqip = NoAddr
    BY <1>4, <1>5, <1>9, <2>11, <2>12 DEF r
  <2>13. CASE q.m.reqip # NoAddr
    <3>1. Fair(T, s, q.m, r)
      BY <1>3, <1>5, <2>10, <2>11, <2>13, FairAfter
    <3> QED BY <1>9, <3>1 DEF r
  <2> QED BY <2>12, <2>13
<1> QED
  BY <1>1, <1>7, <1>8, <1>9

LEMMA ReplyFair ==
    ASSUME NEW T, Steady(T), NEW s \in State, NEW m, Wellformed(m), m.type \in Kinds, NEW busy,
           hosts \in [Addr -> Name \cup {NoName}], Speaks(m), m.time \in Times(T),
           OwnedAll(s.t.leases), OneMachine, s.confs \in Seq(Timed(Times(T)))
    PROVE  Fair(T, s, m, DhcpReply(s, m, busy))
<1> DEFINE q == Query(s, m)
<1>1. Describes(q, s) /\ q.m = m
  BY QueryOK
<1>2. 0 \in Times(T)
  BY DEF Times
<1>3. Known(q, s) /\ q.conf.time \in Times(T)
  BY <1>2, QueryKnown
<1> HIDE DEF q
<1>4. Fair(T, s, m, Silent(s))
  BY FairSilent, GentleSelf
<1>5. ASSUME m.type = "bootp" PROVE Fair(T, s, m, Answer(s, q, busy))
  <2>1. Answer(s, q, busy) \in {Silent(s), Bootp(s, q, busy)}
    BY <1>1, <1>5 DEF Answer
  <2>2. Fair(T, s, m, Bootp(s, q, busy))
    BY <1>1, <1>3, <1>5, BootpFair
  <2> QED BY <1>4, <2>1, <2>2
<1>6. ASSUME m.type = "decline" PROVE Fair(T, s, m, Answer(s, q, busy))
  <2>1. Answer(s, q, busy) \in {Silent(s), Decline(s, q)}
    BY <1>1, <1>6 DEF Answer
  <2>2. Fair(T, s, m, Decline(s, q))
    BY <1>1, <1>3, <1>6, DeclineFair
  <2> QED BY <1>4, <2>1, <2>2
<1>7. ASSUME m.type = "release" PROVE Fair(T, s, m, Answer(s, q, busy))
  <2>1. Answer(s, q, busy) \in {Silent(s), Release(s, q)}
    BY <1>1, <1>7 DEF Answer
  <2>2. Fair(T, s, m, Release(s, q))
    BY <1>1, <1>3, <1>7, ReleaseFair
  <2> QED BY <1>4, <2>1, <2>2
<1>8. ASSUME m.type = "discover" PROVE Fair(T, s, m, Answer(s, q, busy))
  <2>1. Answer(s, q, busy) \in {Silent(s), Discover(s, q, busy)}
    BY <1>1, <1>8 DEF Answer
  <2>2. Fair(T, s, m, Discover(s, q, busy))
    BY <1>1, <1>8, DiscoverFair
  <2> QED BY <1>4, <2>1, <2>2
<1>9. ASSUME m.type = "request" PROVE Fair(T, s, m, Answer(s, q, busy))
  <2>1. Answer(s, q, busy) \in {Silent(s), Request(s, q)}
    BY <1>1, <1>9 DEF Answer
  <2>2. Fair(T, s, m, Request(s, q))
    BY <1>1, <1>3, <1>9, RequestFair
  <2> QED BY <1>4, <2>1, <2>2
<1>10. ASSUME m.type = "inform" PROVE Fair(T, s, m, Answer(s, q, busy))
  <2>1. Answer(s, q, busy) \in {Silent(s), Inform(s, q)}
    BY <1>1, <1>10 DEF Answer
  <2>2. Fair(T, s, m, Inform(s, q))
    BY <1>1, <1>10, InformFair
  <2> QED BY <1>4, <2>1, <2>2
<1>11. Fair(T, s, m, Answer(s, q, busy))
  BY <1>5, <1>6, <1>7, <1>8, <1>9, <1>10 DEF Kinds
<1> QED
  BY <1>11 DEF DhcpReply, q


-----------------------------------------------------------------------------
(* The invariant: what a machine has is backed by a lease that lasts as long,
   and a lease of a clean table by a line of the file.                       *)

Mirrored(t, f) ==
    ~t.fileDirty => \A i \in 1..Len(t.leases) : \E j \in 1..Len(f) : Tied(t.leases[i], f[j])

Backed(t, hd) == \A h \in Hw : hd[h].addr # NoAddr => Backs(t, h, hd[h])
Brief(T, hd)  == \A h \in Hw : hd[h].left \in 0..T \cup {Never}

(* The part of it that is about a table and a file. *)
Kept(t, f) == OwnedAll(t.leases) /\ OwnedAll(f) /\ Mirrored(t, f)

NInv(T) ==
    /\ Kept(lt, file) /\ Backed(lt, held) /\ Brief(T, held)
    /\ confs \in Seq(Timed(Times(T)))

LEMMA GentleKept ==
    ASSUME NEW t, NEW u, NEW g, Gentle(t, u, g), NEW f, Kept(t, f)
    PROVE  Kept(u, f)
<1>1. OwnedAll(u.leases) /\ OwnedAll(f)
  BY DEF Gentle, Kept
<1>2. ASSUME ~u.fileDirty, NEW i \in 1..Len(u.leases)
      PROVE  \E j \in 1..Len(f) : Tied(u.leases[i], f[j])
  <2>1. ~t.fileDirty /\ Stems(t, u)
    BY <1>2 DEF Gentle
  <2>2. PICK k \in 1..Len(t.leases) : Tied(u.leases[i], t.leases[k])
    BY <2>1 DEF Stems
  <2>3. PICK j \in 1..Len(f) : Tied(t.leases[k], f[j])
    BY <2>1 DEF Kept, Mirrored
  <2> QED BY <2>2, <2>3 DEF Tied
<1> QED
  BY <1>1, <1>2 DEF Kept, Mirrored

LEMMA GentleBacked ==
    ASSUME NEW t, NEW u, Gentle(t, u, NoHw), NEW hd \in Holdings, Backed(t, hd)
    PROVE  Backed(u, hd)
<1>1. ASSUME NEW h \in Hw, hd[h].addr # NoAddr PROVE Backs(u, h, hd[h])
  <2>1. h \in Hw \ {NoHw} /\ hd[h] \in Holding /\ Backs(t, h, hd[h])
    BY <1>1, LeasesAssumption DEF Backed, Holdings
  <2> QED BY <2>1 DEF Gentle
<1> QED
  BY <1>1 DEF Backed

(* What is done with a table after a packet, for the DNS and the script. *)
LEMMA SettleGentle ==
    ASSUME NEW t \in Good
    PROVE  /\ Gentle(t, Settle(Entered(t)), NoHw)
           /\ Gentle(t, Settle(RerunScripts(Entered(t))), NoHw)
           /\ Gentle(t, Settle(t), NoHw)
<1>1. ASSUME NEW u \in Good PROVE Spared(u, Settle(u))
  <2>1. Spared(u, Drained(u)) /\ Spared(u, u)
    BY GoodTable, DrainedOK, SparedSelf
  <2> QED BY <2>1 DEF Settle
<1>2. Entered(t) \in Good /\ Spared(t, Entered(t))
  <2>1. t \in Table
    BY GoodTable
  <2>2. Spared(t, Entered(t))
    BY <2>1 DEF Table, Entered, Spared, SameNames, Tied
  <2> QED BY <2>2, EnteredOK
<1> DEFINE e == Entered(t)  v == RerunScripts(e)
<1>3. v \in Good /\ Spared(e, v)
  BY <1>2, GoodTable, RerunOK, RerunScriptsOK
<1> HIDE DEF e, v
<1>4. Spared(t, e) /\ e \in Good
  BY <1>2 DEF e
<1>5. Spared(t, Settle(e)) /\ Spared(t, Settle(v)) /\ Spared(t, Settle(t))
  BY <1>1, <1>3, <1>4, SparedTrans
<1>6. Gentle(t, Settle(e), NoHw) /\ Gentle(t, Settle(v), NoHw) /\ Gentle(t, Settle(t), NoHw)
  BY <1>5, SparedGentle
<1> QED
  BY <1>6 DEF e, v

(* The file is written, or not, or in part. *)
LEMMA FilesKept ==
    ASSUME file \in Seq(Stored), NEW t \in Good, NEW before, NEW o \in Files(t, before),
           Kept(t, file)
    PROVE  o.t.leases = t.leases /\ Kept(o.t, o.file)
<1> DEFINE L == Lines(t)
           stopped(g) == [t |-> t, file |-> g, alarm |-> NextAlarm(t, before, TRUE)]
           clean == [t EXCEPT !.fileDirty = FALSE]
           done == [t |-> clean, file |-> IF t.fileDirty THEN L ELSE file,
                    alarm |-> NextAlarm(t, before, FALSE)]
<1>1. t \in Table /\ clean.leases = t.leases
  BY GoodTable DEF Table
<1>2. /\ L \in Seq(Stored) /\ Len(L) = Len(t.leases) /\ Len(L) \in Nat
      /\ \A i \in 1..Len(L) : Tied(t.leases[i], L[i]) /\ Tied(L[i], t.leases[i])
  <2>1. L \in Seq(Stored) /\ Len(L) = Len(t.leases)
    BY LinesOK
  <2>2. ASSUME NEW i \in 1..Len(t.leases)
        PROVE  Tied(t.leases[i], L[i]) /\ Tied(L[i], t.leases[i])
    <3>1. i \in DOMAIN t.leases
      BY <1>1 DEF Table
    <3> QED BY <3>1 DEF Lines, Tied
  <2> HIDE DEF L
  <2> QED BY <2>1, <2>2
<1>3. \/ o = done
      \/ t.fileDirty /\ (o = stopped(file) \/ \E n \in 0..Len(L) : o = stopped(SubSeq(L, 1, n)))
  BY <1>2 DEF Files, LeaseUpdateFile
<1> HIDE DEF L, clean
<1>4. OwnedAll(L)
  <2>1. ASSUME NEW i \in 1..Len(L) PROVE Owned(L[i])
    <3>1. Owned(t.leases[i])
      BY <1>2 DEF Kept, OwnedAll
    <3> QED BY <1>2, <3>1, TiedOwned
  <2> QED BY <2>1 DEF OwnedAll
<1>5. CASE o = done
  <2>1. o.t = clean /\ o.file = (IF t.fileDirty THEN L ELSE file)
    BY <1>5
  <2>2. OwnedAll(o.file) /\ OwnedAll(clean.leases)
    BY <1>1, <1>4, <2>1 DEF Kept
  <2>3. ASSUME NEW i \in 1..Len(t.leases)
        PROVE  \E j \in 1..Len(o.file) : Tied(t.leases[i], o.file[j])
    <3>1. CASE t.fileDirty
      BY <1>2, <2>1, <3>1
    <3>2. CASE ~t.fileDirty
      BY <2>1, <3>2 DEF Kept, Mirrored
    <3> QED BY <3>1, <3>2
  <2> QED BY <1>1, <2>1, <2>2, <2>3 DEF Kept, Mirrored
<1>6. ASSUME t.fileDirty, NEW n \in 0..Len(L), o = stopped(SubSeq(L, 1, n))
      PROVE  o.t.leases = t.leases /\ Kept(o.t, o.file)
  <2> DEFINE g == SubSeq(L, 1, n)
  <2>1. Len(g) = n /\ \A i \in 1..n : g[i] = L[i] /\ i \in 1..Len(L)
    BY <1>2
  <2>2. o.t = t /\ o.file = g
    BY <1>6
  <2> HIDE DEF g
  <2>3. OwnedAll(g)
    BY <1>4, <2>1 DEF OwnedAll
  <2> QED BY <1>6, <2>2, <2>3 DEF Kept, Mirrored
<1>7. CASE t.fileDirty /\ o = stopped(file)
  BY <1>7 DEF Kept, Mirrored
<1> QED
  BY <1>3, <1>5, <1>6, <1>7

LEMMA SameBacked ==
    ASSUME NEW t, NEW u, u.leases = t.leases, NEW hd, Backed(t, hd)
    PROVE  Backed(u, hd)
BY DEF Backed, Backs


-----------------------------------------------------------------------------
(* What the clients say, and hear *)

(* A machine without an address may say anything; one that has one renews
   it, or gives it up, or asks for nothing.                                 *)
Suits(T, m) ==
    /\ m \in Messages /\ Speaks(m) /\ m.time \in Times(T)
    /\ \/ held[m.hw] = Nowhere
       \/ m.type \in {"release", "decline", "inform"}
       \/ /\ m.type = "request" /\ m.reqip = NoAddr
          /\ m.ciaddr = held[m.hw].addr /\ held[m.hw].left # Never

LEMMA SeeksSuits ==
    ASSUME NEW T, Steady(T), NEW c \in Clients, held[c.hw] = Nowhere, NEW msg \in Seeks(c)
    PROVE  Suits(T, msg)
<1> DEFINE m(type, net) == Message(c, type, net)
           some == CHOOSE a \in Addr : TRUE
           Fine(k) == k.hw = c.hw /\ k.clid \in {NoClid, c.clid} /\ k.time \in Times(T)
<1>1. PICK net \in DOMAIN Router : msg \in Asks(c, net)
  BY DEF Seeks
<1>2. Requested \subseteq Times(T) /\ 0 \in Times(T)
  BY DEF Steady, Times
<1>3. Fine(m("bootp", net))
  BY <1>2 DEF Message
<1>4. ASSUME NEW a \in Addr \cup {NoAddr} PROVE Fine([m("discover", net) EXCEPT !.reqip = a])
  BY <1>2 DEF Message
<1>5. ASSUME NEW a \in Addr, NEW id \in {"none", "this"}, NEW time \in Requested
      PROVE  Fine([m("request", net) EXCEPT !.reqip = a, !.server = id, !.time = time])
  BY <1>2 DEF Message
<1>6. Fine([m("request", net) EXCEPT !.reqip = some, !.server = "other"])
  BY <1>2 DEF Message
<1> HIDE DEF m, Fine
<1>7. Fine(msg)
  <2> DEFINE k == m("request", net)
             n(a) == [m("discover", net) EXCEPT !.reqip = a]
             r(a, id, time) == [k EXCEPT !.reqip = a, !.server = id, !.time = time]
             o == [k EXCEPT !.reqip = some, !.server = "other"]
             I == {"none", "this"}
             A == {n(a) : a \in Addr \cup {NoAddr}}
             B == {r(a, id, time) : a \in Addr, id \in I, time \in Requested}
  <2>1. Asks(c, net) = {m("bootp", net)} \cup A \cup B \cup {o}
    BY DEF Asks, m, some
  <2> HIDE DEF some
  <2>2. /\ \A a \in Addr \cup {NoAddr} : Fine(n(a))
        /\ \A a \in Addr, id \in I, time \in Requested : Fine(r(a, id, time))
        /\ Fine(o)
    BY <1>4, <1>5, <1>6
  <2> HIDE DEF k, n, r, o, I
  <2>3. \A x \in A : Fine(x)
    BY <2>2
  <2>4. \A x \in B : Fine(x)
    BY <2>2
  <2> HIDE DEF A, B
  <2> QED BY <1>1, <1>3, <2>1, <2>2, <2>3, <2>4
<1>8. msg \in Messages
  BY SeeksOK
<1> QED
  BY <1>7, <1>8 DEF Suits, Speaks, Fine

LEMMA UsesSuits ==
    ASSUME NEW T, Steady(T), held \in Holdings, NEW c \in Clients, held[c.hw] # Nowhere,
           NEW msg \in Uses(c)
    PROVE  Suits(T, msg)
<1> DEFINE has == held[c.hw]
           direct == Renews(c, has) \cup {[Told(c, "inform", has) EXCEPT !.ciaddr = has.addr]}
           relayed == Relayed(direct)
           Fine(k) == /\ k.hw = c.hw /\ k.clid \in {NoClid, c.clid} /\ k.time \in Times(T)
                      /\ \/ k.type \in {"release", "decline", "inform"}
                         \/ /\ k.type = "request" /\ k.reqip = NoAddr
                            /\ k.ciaddr = has.addr /\ has.left # Never
<1>1. Requested \subseteq Times(T) /\ 0 \in Times(T)
  BY DEF Steady, Times
<1>2. ASSUME NEW type \in {"inform", "release", "decline"}
      PROVE  /\ Fine([Told(c, type, has) EXCEPT !.ciaddr = has.addr])
             /\ Fine([Told(c, type, has) EXCEPT !.reqip = has.addr])
  BY <1>1 DEF Told, Message
<1>3. ASSUME NEW k \in Renews(c, has) PROVE Fine(k)
  <2>1. /\ has.left # Never
        /\ \E time \in Requested :
             k = [Message(c, "request", NetOf[has.addr]) EXCEPT !.ciaddr = has.addr, !.time = time]
    BY DEF Renews
  <2> QED BY <1>1, <2>1 DEF Message
<1>4. \A k \in direct : Fine(k) /\ k \in Messages
  <2>1. \A k \in direct : Fine(k)
    BY <1>2, <1>3
  <2>2. direct \subseteq Messages
    BY DirectOK
  <2> QED BY <2>1, <2>2
<1>5. ASSUME NEW k \in relayed PROVE Fine(k)
  <2>1. PICK net \in DOMAIN Router : k \in {[j EXCEPT !.net = net, !.relayed = TRUE] : j \in direct}
    BY DEF Relayed
  <2>2. PICK j \in direct : k = [j EXCEPT !.net = net, !.relayed = TRUE]
    BY <2>1
  <2>3. Fine(j) /\ j \in Messages
    BY <1>4
  <2> QED BY <2>2, <2>3 DEF Messages
<1>6. \/ msg \in direct \/ msg \in relayed
      \/ msg = [Told(c, "release", has) EXCEPT !.ciaddr = has.addr]
      \/ msg = [Told(c, "decline", has) EXCEPT !.reqip = has.addr]
  <2> DEFINE A == {[Told(c, "release", has) EXCEPT !.ciaddr = has.addr],
                   [Told(c, "decline", has) EXCEPT !.reqip = has.addr]}
             all == direct \cup {m \in relayed : m.net # NetOf[has.addr]} \cup A
  <2>1. Uses(c) = {m \in all : m.type \in Sends}
    BY Zenon DEF Uses, has, direct, relayed
  <2>2. msg \in A => \/ msg = [Told(c, "release", has) EXCEPT !.ciaddr = has.addr]
                     \/ msg = [Told(c, "decline", has) EXCEPT !.reqip = has.addr]
    OBVIOUS
  <2> HIDE DEF A, relayed, direct, Fine
  <2> QED BY <2>1, <2>2
<1> HIDE DEF relayed, direct
<1>7. Fine(msg)
  BY <1>2, <1>4, <1>5, <1>6
<1>8. msg \in Messages
  BY UsesOK
<1> QED
  BY <1>7, <1>8 DEF Suits, Speaks

(* What the machine has after the reply, or without it, is backed. *)
LEMMA HeardBacked ==
    ASSUME NEW T, Steady(T), held \in Holdings, Brief(T, held), NEW m, Suits(T, m),
           NEW s, NEW r, Sane(r), Fair(T, s, m, r), Backed(s.t, held), NEW lost
    PROVE  Backed(r.s.t, Heard(m, r, lost)) /\ Brief(T, Heard(m, r, lost))
<1> DEFINE hd == Heard(m, r, lost)  g == m.hw
           given == [addr |-> r.addr, left |-> r.left]
<1>1. g \in Hw /\ m \in Messages /\ T \in Nat
  BY MessageWellformed, LeasesAssumption DEF Suits, Steady
<1>2. /\ hd \in Holdings
      /\ \A h \in Hw \ {g} : hd[h] = held[h]
      /\ \/ hd[g] = Nowhere
         \/ r.kind \in {"ack", "bootp"} /\ hd[g] = given
         \/ hd[g] = held[g] /\ m.type \notin {"release", "decline"}
  <2>1. hd \in Holdings
    BY <1>1, HeardOK
  <2>2. \/ hd = [held EXCEPT ![g] = Nowhere]
        \/ r.kind \in {"ack", "bootp"} /\ hd = [held EXCEPT ![g] = given]
        \/ hd = held /\ m.type \notin {"release", "decline"}
    BY DEF Heard
  <2>3. DOMAIN held = Hw
    BY DEF Holdings
  <2> HIDE DEF hd, given
  <2> QED BY <1>1, <2>1, <2>2, <2>3
<1> HIDE DEF hd
<1>3. hd[g] \in Holding /\ held[g] \in Holding
  BY <1>1, <1>2 DEF Holdings
<1>4. ASSUME NEW k \in Holding, k.addr = r.addr, r.kind \in {"ack", "bootp"},
             k.left = r.left \/ (k.left # Never /\ k.left \in 0..T)
      PROVE  Backs(r.s.t, g, k)
  <2>1. r.left \in {T, Never}
    BY <1>4 DEF Fair
  <2>2. r.left = Never \/ (k.left # Never /\ k.left <= r.left)
    BY <1>1, <1>4, <2>1, LeasesAssumption
  <2> QED BY <1>4, <2>2 DEF Fair
<1>5. CASE hd[g] = Nowhere
  <2>1. hd[g].addr = NoAddr /\ hd[g].left = Never
    BY <1>5 DEF Nowhere
  <2> QED BY ONLY <1>1, <1>2, <2>1, held \in Holdings, Backed(s.t, held), Brief(T, held),
             Fair(T, s, m, r) DEF Backed, Brief, Fair, Gentle, Holdings, hd
<1>6. ASSUME hd[g].addr # NoAddr => Backs(r.s.t, g, hd[g]), hd[g].left \in 0..T \cup {Never}
      PROVE  Backed(r.s.t, hd) /\ Brief(T, hd)
  BY ONLY <1>1, <1>2, <1>6, held \in Holdings, Backed(s.t, held), Brief(T, held),
     Fair(T, s, m, r) DEF Backed, Brief, Fair, Gentle, Holdings
<1>7. CASE r.kind \in {"ack", "bootp"} /\ hd[g] = given
  <2>1. hd[g].addr = r.addr /\ hd[g].left = r.left
    BY <1>7
  <2>2. Backs(r.s.t, g, hd[g])
    BY <1>3, <1>4, <1>7, <2>1
  <2>3. hd[g].left \in 0..T \cup {Never}
    BY <1>1, <1>7, <2>1 DEF Fair
  <2> QED BY <1>6, <2>2, <2>3 DEF hd
<1>8. CASE hd[g] = held[g] /\ m.type \notin {"release", "decline"} /\ held[g] # Nowhere
  <2>1. hd[g].left \in 0..T \cup {Never}
    BY <1>1, <1>8 DEF Brief
  <2>2. ASSUME held[g].addr # NoAddr PROVE Backs(r.s.t, g, held[g])
    <3>1. Backs(s.t, g, held[g])
      BY <1>1, <2>2 DEF Backed
    <3>2. CASE m.type = "inform"
      <4>1. Gentle(s.t, r.s.t, NoHw) /\ g \in Hw \ {NoHw}
        BY <1>1, <3>2, LeasesAssumption DEF Fair
      <4> QED BY <1>3, <3>1, <4>1 DEF Gentle
    <3>3. CASE /\ m.type = "request" /\ m.reqip = NoAddr
               /\ m.ciaddr = held[g].addr /\ held[g].left # Never
      <4>1. (r.kind = "ack" /\ r.addr = m.ciaddr) \/ r.s.t = s.t
        BY <3>3 DEF Fair
      <4>2. held[g].left \in 0..T
        BY <1>1, <3>3 DEF Brief
      <4>3. ASSUME r.kind = "ack", r.addr = m.ciaddr PROVE Backs(r.s.t, g, held[g])
        BY <1>3, <1>4, <3>3, <4>2, <4>3
      <4> QED BY <3>1, <4>1, <4>3
    <3> QED BY <1>8, <3>2, <3>3 DEF Suits
  <2> QED BY <1>6, <1>8, <2>1, <2>2 DEF hd
<1> QED
  BY <1>2, <1>5, <1>7, <1>8 DEF hd


-----------------------------------------------------------------------------
(* The steps keep it *)

LEMMA NPartsNext ==
    ASSUME NEW T, Kept(lt', file'), Backed(lt', held'), Brief(T, held'),
           confs' \in Seq(Timed(Times(T)))
    PROVE  NInv(T)'
BY DEF NInv

(* Expired leases go first, which no machine relies on. *)
LEMMA ExpiredGentle ==
    ASSUME IInv
    PROVE  /\ LeasePrune(lt, 0) \in Good /\ Gentle(lt, LeasePrune(lt, 0), NoHw)
           /\ Working.t = LeasePrune(lt, 0) /\ Working.confs = confs
<1>1. lt \in Good /\ Len(lt.leases) \in Nat
  BY Parts, GoodTable DEF Table
<1>2. 0 \notin 1..Len(lt.leases)
  BY <1>1
<1> QED
  BY <1>1, <1>2, GoodTable, LeasePruneOK, PruneGentle DEF Working

(* The file is written, and the table settles. *)
LEMMA WrittenKept ==
    ASSUME IInv, NEW t \in Good, NEW before \in Nat \cup {NoAlarm}, NEW o \in Files(t, before),
           Kept(t, file), NEW hd \in Holdings, Backed(t, hd)
    PROVE  /\ Kept(Settle(Entered(o.t)), o.file) /\ Backed(Settle(Entered(o.t)), hd)
           /\ Kept(Settle(o.t), o.file) /\ Backed(Settle(o.t), hd)
           /\ Kept(Settle(RerunScripts(Entered(o.t))), o.file)
           /\ Backed(Settle(RerunScripts(Entered(o.t))), hd)
<1>1. file \in Seq(Stored)
  BY Parts DEF Readable
<1>2. o.t.leases = t.leases /\ Kept(o.t, o.file) /\ o.t \in Good
  BY <1>1, FilesKept, FilesOK
<1>3. Backed(o.t, hd)
  BY <1>2, SameBacked
<1>4. /\ Gentle(o.t, Settle(Entered(o.t)), NoHw)
      /\ Gentle(o.t, Settle(RerunScripts(Entered(o.t))), NoHw)
      /\ Gentle(o.t, Settle(o.t), NoHw)
  BY <1>2, SettleGentle
<1> QED
  BY <1>2, <1>3, <1>4, GentleKept, GentleBacked

LEMMA PacketNext ==
    ASSUME NEW T, Steady(T), OneMachine, IInv, NInv(T), NEW m, Suits(T, m), NEW busy,
           DhcpPacket(m, busy)
    PROVE  NInv(T)'
<1> DEFINE w == Working  r == DhcpReply(w, m, busy)
<1>1. Wellformed(m) /\ m.type \in Kinds /\ Speaks(m) /\ m.time \in Times(T) /\ m \in Messages
  BY MessageWellformed DEF Suits
<1>2. /\ w \in State /\ hosts \in [Addr -> Name \cup {NoName}] /\ held \in Holdings
      /\ alarm \in Nat \cup {NoAlarm}
  BY WorkingOK, Parts DEF Hosts
<1>3. Gentle(lt, w.t, NoHw) /\ w.confs = confs
  BY ExpiredGentle
<1> HIDE DEF w
<1>4. Kept(lt, file) /\ Backed(lt, held) /\ Brief(T, held) /\ w.confs \in Seq(Timed(Times(T)))
  BY <1>3 DEF NInv
<1>5. Kept(w.t, file) /\ Backed(w.t, held)
  BY <1>2, <1>3, <1>4, GentleKept, GentleBacked
<1>6. OwnedAll(w.t.leases)
  BY <1>5 DEF Kept
<1>7. Sane(r)
  BY ONLY <1>1, <1>2, DhcpReplyOK
<1>8. Fair(T, w, m, r)
  BY <1>1, <1>2, <1>4, <1>6, ReplyFair
<1>9. Replied(m, r)
  BY DEF DhcpPacket, w
<1> HIDE DEF r
<1>10. Kept(r.s.t, file) /\ r.s.confs \in Seq(Timed(Times(T))) /\ r.s.t \in Good
  <2>1. Gentle(w.t, r.s.t, m.hw) /\ r.s.confs \in Seq(Timed(Times(T)))
    BY <1>8 DEF Fair
  <2>2. r.s.t \in Good
    BY <1>7 DEF Sane, State
  <2> QED BY <1>5, <2>1, <2>2, GentleKept
<1>11. /\ held' \in Holdings /\ Backed(r.s.t, held') /\ Brief(T, held')
  <2>1. PICK lost \in BOOLEAN : held' = Heard(m, r, lost)
    BY <1>9 DEF Replied
  <2>2. Heard(m, r, lost) \in Holdings
    BY <1>1, <1>2, <1>7, HeardOK
  <2>3. Backed(r.s.t, Heard(m, r, lost)) /\ Brief(T, Heard(m, r, lost))
    BY <1>2, <1>4, <1>5, <1>7, <1>8, HeardBacked
  <2> QED BY <2>1, <2>2, <2>3
<1>12. PICK o \in Files(r.s.t, alarm) : file' = o.file /\ lt' = Settle(Entered(o.t))
  BY <1>9 DEF Replied
<1>13. Kept(lt', file') /\ Backed(lt', held')
  BY <1>2, <1>10, <1>11, <1>12, WrittenKept
<1>14. confs' = r.s.confs
  BY <1>9 DEF Replied
<1> QED
  BY <1>10, <1>11, <1>13, <1>14, NPartsNext

LEMMA SeeksNext ==
    ASSUME NEW T, Steady(T), OneMachine, IInv, NInv(T), ClientSeeks
    PROVE  NInv(T)'
<1>1. PICK c \in Clients : held[c.hw] = Nowhere
        /\ \E m \in Seeks(c) : \E busy : DhcpPacket(m, busy)
  BY DEF ClientSeeks
<1>2. PICK m \in Seeks(c) : \E busy : DhcpPacket(m, busy)
  BY <1>1
<1>3. Suits(T, m)
  BY <1>1, SeeksSuits
<1> QED
  BY <1>2, <1>3, PacketNext

LEMMA UsesNext ==
    ASSUME NEW T, Steady(T), OneMachine, IInv, NInv(T), ClientUses
    PROVE  NInv(T)'
<1>1. PICK c \in Clients : held[c.hw] # Nowhere /\ \E m \in Uses(c) : DhcpPacket(m, {})
  BY DEF ClientUses
<1>2. PICK m \in Uses(c) : DhcpPacket(m, {})
  BY <1>1
<1>3. Suits(T, m)
  BY <1>1, Parts, UsesSuits
<1> QED
  BY <1>2, <1>3, PacketNext

LEMMA StopsNext ==
    ASSUME NEW T, IInv, NInv(T), ClientStops
    PROVE  NInv(T)'
<1>1. PICK g \in Hw : held' = [held EXCEPT ![g] = Nowhere]
  BY DEF ClientStops
<1>2. held \in Holdings /\ lt' = lt /\ file' = file /\ confs' = confs
  BY Parts DEF ClientStops
<1>3. \A h \in Hw : held'[h] = Nowhere \/ held'[h] = held[h]
  BY <1>1, <1>2 DEF Holdings
<1>4. Backed(lt, held') /\ Brief(T, held')
  BY <1>3 DEF NInv, Backed, Brief, Nowhere
<1> QED
  BY <1>2, <1>4, NPartsNext DEF NInv

LEMMA ScriptNext ==
    ASSUME NEW T, IInv, NInv(T), ScriptRun
    PROVE  NInv(T)'
<1>1. lt \in Table /\ held \in Holdings
  BY Parts, GoodTable
<1>2. lt' = DoScriptRun(lt) /\ ~NothingToRun(lt) /\ file' = file /\ held' = held /\ confs' = confs
  BY DEF ScriptRun
<1>3. Gentle(lt, lt', NoHw)
  BY <1>1, <1>2, DoScriptRunOK, SparedGentle
<1>4. Kept(lt', file) /\ Backed(lt', held)
  BY <1>1, <1>3, GentleKept, GentleBacked DEF NInv
<1> QED
  BY <1>2, <1>4, NPartsNext DEF NInv

LEMMA AlarmEventNext ==
    ASSUME NEW T, IInv, NInv(T), AlarmEvent
    PROVE  NInv(T)'
<1> DEFINE u == LeasePrune(lt, 0)
<1>1. u \in Good /\ Gentle(lt, u, NoHw)
  BY ExpiredGentle
<1>2. held \in Holdings /\ alarm \in Nat \cup {NoAlarm}
  BY Parts
<1>3. PICK o \in Files(u, alarm) : file' = o.file /\ lt' = Settle(o.t)
  BY DEF AlarmEvent
<1> HIDE DEF u
<1>4. Kept(u, file) /\ Backed(u, held)
  BY <1>1, <1>2, GentleKept, GentleBacked DEF NInv
<1>5. Kept(lt', file') /\ Backed(lt', held)
  BY <1>1, <1>2, <1>3, <1>4, WrittenKept
<1>6. held' = held /\ confs' = confs
  BY DEF AlarmEvent
<1> QED
  BY <1>5, <1>6, NPartsNext DEF NInv

(* A second passes for all of them. *)
LEMMA TickNext ==
    ASSUME NEW T, IInv, NInv(T), T \in Nat, Tick
    PROVE  NInv(T)'
<1>1. /\ lt \in Table /\ lt.leases \in Seq(Lease) /\ file \in Seq(Stored) /\ held \in Holdings
      /\ confs \in Seq(Config)
  BY Parts, GoodTable DEF Table, Readable
<1> DEFINE ls == Aged(lt.leases)  f == Aged(file)
<1>2. /\ Len(ls) = Len(lt.leases)
      /\ \A i \in 1..Len(lt.leases) :
           /\ ls[i].addr = lt.leases[i].addr /\ ls[i].clid = lt.leases[i].clid
           /\ ls[i].hw = lt.leases[i].hw /\ ls[i].left = Later(lt.leases[i].left)
  BY <1>1, AgedLeases
<1>3. /\ Len(f) = Len(file)
      /\ \A i \in 1..Len(file) :
           /\ f[i].addr = file[i].addr /\ f[i].clid = file[i].clid
           /\ f[i].hw = file[i].hw /\ f[i].left = Later(file[i].left)
  BY <1>1, AgedLines
<1>4. /\ lt' = [lt EXCEPT !.leases = Aged(@), !.old = Aged(@)] /\ file' = f
      /\ held' = [h \in Hw |-> IF held[h].left = 0 THEN Nowhere
                              ELSE [held[h] EXCEPT !.left = Later(@)]]
      /\ confs' = [i \in DOMAIN confs |->
                      [confs[i] EXCEPT !.declined = IF @ = -1 THEN -1 ELSE @ - 1]]
  BY DEF Tick
<1>5. lt'.leases = ls /\ lt'.fileDirty = lt.fileDirty
  BY <1>1, <1>4 DEF Table
<1> HIDE DEF ls, f
<1>6. OwnedAll(lt'.leases) /\ OwnedAll(file')
  BY <1>2, <1>3, <1>4, <1>5 DEF NInv, Kept, OwnedAll, Owned
<1>7. Mirrored(lt', file')
  <2> SUFFICES ASSUME ~lt.fileDirty, NEW i \in 1..Len(lt.leases)
               PROVE  \E j \in 1..Len(f) : Tied(ls[i], f[j])
    BY <1>2, <1>4, <1>5 DEF Mirrored
  <2>1. PICK j \in 1..Len(file) : Tied(lt.leases[i], file[j])
    BY DEF NInv, Kept, Mirrored
  <2>2. Tied(ls[i], f[j])
    BY <1>2, <1>3, <2>1 DEF Tied
  <2> QED BY <1>3, <2>2
<1>8. ASSUME NEW h \in Hw
      PROVE  /\ held'[h].left \in 0..T \cup {Never}
             /\ held'[h].addr # NoAddr => Backs(lt', h, held'[h])
  <2> DEFINE k == held[h]
  <2>1. /\ k \in [addr : Addr \cup {NoAddr}, left : Term] /\ k.left \in 0..T \cup {Never}
        /\ k.addr # NoAddr => Backs(lt, h, k)
    BY <1>1 DEF NInv, Backed, Brief, Holdings, Holding
  <2>2. held'[h] = IF k.left = 0 THEN Nowhere ELSE [k EXCEPT !.left = Later(k.left)]
    BY <1>4
  <2> HIDE DEF k
  <2>3. CASE k.left = 0
    BY <2>2, <2>3 DEF Nowhere
  <2>4. CASE k.left # 0
    <3>1. held'[h].addr = k.addr /\ held'[h].left = Later(k.left)
      BY <2>1, <2>2, <2>4
    <3>2. Later(k.left) \in 0..T \cup {Never}
      BY <2>1, <2>4, LeasesAssumption DEF Later, LongGone
    <3>3. ASSUME k.addr # NoAddr PROVE Backs(lt', h, held'[h])
      <4>1. PICK i \in 1..Len(lt.leases) : Covers(lt.leases[i], h, k)
        BY <2>1, <3>3 DEF Backs
      <4> DEFINE l == lt.leases[i].left
      <4>2. l \in Left
        <5>1. lt.leases[i] \in Lease
          BY <1>1
        <5> QED BY <5>1 DEF Lease
      <4>3. l = Never \/ (k.left # Never /\ k.left <= l)
        BY <4>1 DEF Covers
      <4> HIDE DEF l
      <4>4. Later(l) = Never \/ (Later(k.left) # Never /\ Later(k.left) <= Later(l))
        BY <2>1, <2>4, <4>2, <4>3, LeasesAssumption DEF Later, LongGone, Left
      <4>5. Covers(ls[i], h, held'[h])
        BY <1>2, <3>1, <4>1, <4>4 DEF Covers, l
      <4> QED BY <1>2, <1>5, <4>5 DEF Backs
    <3> QED BY <3>1, <3>2, <3>3
  <2> QED BY <2>3, <2>4
<1>9. confs' \in Seq(Timed(Times(T)))
  <2> DEFINE C == Timed(Times(T))
             c(i) == [confs[i] EXCEPT !.declined = IF @ = -1 THEN -1 ELSE @ - 1]
  <2>1. confs \in Seq(C)
    BY DEF NInv
  <2>2. ASSUME NEW i \in DOMAIN confs PROVE c(i) \in C
    <3> DEFINE k == confs[i]  d == IF k.declined = -1 THEN -1 ELSE k.declined - 1
    <3>1. k \in C
      BY <2>1
    <3> HIDE DEF k
    <3>2. d \in Int
      BY <3>1 DEF Timed, Config
    <3> HIDE DEF d
    <3>3. [k EXCEPT !.declined = d] \in C
      BY <3>1, <3>2 DEF Timed, Config
    <3> QED BY <3>3 DEF k, d
  <2>3. confs' = [i \in DOMAIN confs |-> c(i)]
    BY <1>4
  <2>4. DOMAIN confs = 1..Len(confs) /\ Len(confs) \in Nat
    BY <2>1
  <2> HIDE DEF c, C
  <2>5. confs' \in Seq(C)
    BY <2>2, <2>3, <2>4
  <2> QED BY <2>5 DEF C
<1>10. Backed(lt', held') /\ Brief(T, held')
  BY <1>8 DEF Backed, Brief
<1> QED
  BY <1>6, <1>7, <1>9, <1>10, NPartsNext DEF Kept

(* The files are read again. *)
LEMMA ReloadKept ==
    ASSUME NEW T, Steady(T), IInv, NEW t \in Good, NEW cs0 \in Seq(Timed(Times(T))),
           NEW before \in Nat \cup {NoAlarm}, Reload(t, cs0, before), Kept(t, file),
           Backed(t, held)
    PROVE  Kept(lt', file') /\ Backed(lt', held) /\ confs' \in Seq(Timed(Times(T)))
<1>1. PICK ethers \in EthersFiles, bank \in BankFiles, names \in HostsFiles :
        LET cs == Reconfigured(cs0, ethers, bank, names)
        IN /\ confs' = cs /\ hosts' = names
           /\ \E o \in Files(LeaseUpdateFromConfigs(t, cs, names), before) :
                /\ file' = o.file /\ alarm' = o.alarm
                /\ dns' = LeaseUpdateDns(o.t, dns)
                /\ lt' = Settle(RerunScripts(Entered(o.t)))
  BY DEF Reload
<1> DEFINE cs == Reconfigured(cs0, ethers, bank, names)
           u == LeaseUpdateFromConfigs(t, cs, names)
<1>2. PICK o \in Files(u, before) :
        file' = o.file /\ lt' = Settle(RerunScripts(Entered(o.t)))
  BY <1>1
<1>3. confs' = cs
  BY <1>1
<1>4. cs \in Seq(Timed(Times(T))) /\ cs \in Seq(Config)
  <2>1. bank \in Seq(Timed(Times(T))) /\ 0 \in Times(T)
    BY DEF Steady, Times
  <2>2. cs \in Seq(Timed(Times(T)))
    BY <2>1, ReconfiguredTimed
  <2> DEFINE C == Timed(Times(T))
  <2>3. C \subseteq Config
    BY DEF Timed
  <2> HIDE DEF cs, C
  <2>4. cs \in Seq(C)
    BY <2>2 DEF C
  <2>5. cs \in Seq(Config)
    BY <2>3, <2>4
  <2> QED BY <2>2, <2>5
<1>5. names \in [Addr -> Name \cup {NoName}]
  BY DhcpAssumption
<1> HIDE DEF cs
<1>6. u \in Good /\ Gentle(t, u, NoHw)
  BY <1>4, <1>5, LeaseUpdateFromConfigsOK, SparedGentle
<1> HIDE DEF u
<1>7. held \in Holdings
  BY Parts
<1>8. Kept(u, file) /\ Backed(u, held)
  BY <1>6, <1>7, GentleKept, GentleBacked
<1>9. Kept(lt', file') /\ Backed(lt', held)
  BY <1>2, <1>6, <1>7, <1>8, WrittenKept
<1> QED
  BY <1>3, <1>4, <1>9

LEMMA HangUpNext ==
    ASSUME NEW T, Steady(T), IInv, NInv(T), HangUp
    PROVE  NInv(T)'
<1>1. Reload(lt, confs, alarm) /\ held' = held
  BY DEF HangUp
<1>2. lt \in Good /\ alarm \in Nat \cup {NoAlarm}
  BY Parts
<1>3. /\ Kept(lt, file) /\ Backed(lt, held) /\ Brief(T, held)
      /\ confs \in Seq(Timed(Times(T)))
  BY DEF NInv
<1>4. Kept(lt', file') /\ Backed(lt', held) /\ confs' \in Seq(Timed(Times(T)))
  BY <1>1, <1>2, <1>3, ReloadKept
<1> QED
  BY <1>1, <1>3, <1>4, NPartsNext

(* The table read from a file that was up to date backs what the table did. *)
LEMMA StartKept ==
    ASSUME NEW T, IInv, NInv(T), ~lt.fileDirty
    PROVE  Kept(LeaseInit(file), file) /\ Backed(LeaseInit(file), held)
<1> DEFINE u == LeaseInit(file)
<1>1. file \in Seq(Stored) /\ Len(file) <= DhcpMax /\ FileUnique(file) /\ held \in Holdings
  BY Parts DEF Readable
<1>2. /\ \A j \in 1..Len(u.leases) : \E k \in 1..Len(file) : Tied(u.leases[j], file[k])
      /\ \A k \in 1..Len(file) : ~Expired(file[k]) =>
           \E j \in 1..Len(u.leases) : Tied(u.leases[j], file[k])
  <2>1. /\ \A j \in 1..Len(u.leases) : \E k \in 1..Len(file) :
             ReadFrom(u.leases[j], file[k], NamesOnce(file))
        /\ \A k \in 1..Len(file) : ~Expired(file[k]) \/ ~u.fileDirty =>
             \E j \in 1..Len(u.leases) : ReadFrom(u.leases[j], file[k], NamesOnce(file))
    BY ONLY <1>1, LeaseInitOK
  <2> HIDE DEF u
  <2> QED BY <2>1 DEF ReadFrom
<1> HIDE DEF u
<1>3. OwnedAll(u.leases)
  <2>1. ASSUME NEW j \in 1..Len(u.leases) PROVE Owned(u.leases[j])
    <3>1. PICK k \in 1..Len(file) : Tied(u.leases[j], file[k])
      BY <1>2
    <3>2. Owned(file[k])
      BY DEF NInv, Kept, OwnedAll
    <3> QED BY <3>1, <3>2, TiedOwned
  <2> QED BY <2>1 DEF OwnedAll
<1>4. ASSUME NEW h \in Hw, held[h].addr # NoAddr PROVE Backs(u, h, held[h])
  <2>1. PICK i \in 1..Len(lt.leases) : Covers(lt.leases[i], h, held[h])
    BY <1>4 DEF NInv, Backed, Backs
  <2>2. PICK k \in 1..Len(file) : Tied(lt.leases[i], file[k])
    BY DEF NInv, Kept, Mirrored
  <2>3. Covers(file[k], h, held[h])
    BY <2>1, <2>2 DEF Tied, Covers
  <2>4. held[h] \in Holding /\ file[k].left \in Left
    <3>1. file[k] \in Stored
      BY <1>1
    <3> QED BY <1>1, <3>1 DEF Holdings, Stored
  <2>5. ~Expired(file[k])
    BY <2>3, <2>4, CoversLives
  <2>6. PICK j \in 1..Len(u.leases) : Tied(u.leases[j], file[k])
    BY <1>2, <2>5
  <2>7. Covers(u.leases[j], h, held[h])
    BY <2>3, <2>6, TiedCovers
  <2> QED BY <2>7 DEF Backs
<1> QED
  BY <1>2, <1>3, <1>4 DEF NInv, Kept, Mirrored, Backed, u

LEMMA RestartNext ==
    ASSUME NEW T, Steady(T), IInv, NInv(T), Restart
    PROVE  NInv(T)'
<1>1. ~lt.fileDirty /\ Reload(LeaseInit(file), CommandLine, NoAlarm) /\ held' = held
  BY DEF Restart, Starts
<1>2. LeaseInit(file) \in Good
  BY Parts, LeaseInitOK DEF Readable
<1>3. CommandLine \in Seq(Timed(Times(T)))
  BY DEF Steady
<1>4. Kept(LeaseInit(file), file) /\ Backed(LeaseInit(file), held)
  BY <1>1, StartKept
<1> DEFINE t == LeaseInit(file)  cs0 == CommandLine
<1> HIDE DEF t, cs0
<1>5. t \in Good /\ Reload(t, cs0, NoAlarm) /\ Kept(t, file) /\ Backed(t, held)
      /\ cs0 \in Seq(Timed(Times(T))) /\ NoAlarm \in Nat \cup {NoAlarm}
  BY <1>1, <1>2, <1>3, <1>4 DEF t, cs0
<1>6. Kept(lt', file') /\ Backed(lt', held) /\ confs' \in Seq(Timed(Times(T)))
  BY <1>5, ReloadKept
<1> QED
  BY <1>1, <1>6, NPartsNext DEF NInv

(* At the start no machine has an address. *)
LEMMA NInit ==
    ASSUME NEW T, Steady(T), Init
    PROVE  NInv(T)
<1>1. /\ lt = NoLeases /\ file = <<>> /\ held = [h \in Hw |-> Nowhere]
  BY DEF Init
<1>2. Kept(lt, file)
  BY <1>1 DEF NoLeases, Kept, OwnedAll, Mirrored
<1>3. Backed(lt, held) /\ Brief(T, held)
  BY <1>1 DEF Backed, Brief, Nowhere
<1>4. confs \in Seq(Timed(Times(T)))
  <2>1. PICK ethers \in EthersFiles, bank \in BankFiles, names \in HostsFiles :
          confs = Reconfigured(CommandLine, ethers, bank, names)
    BY DEF Init
  <2>2. /\ bank \in Seq(Timed(Times(T))) /\ 0 \in Times(T)
        /\ CommandLine \in Seq(Timed(Times(T)))
    BY DEF Steady, Times
  <2> QED BY <2>1, <2>2, ReconfiguredTimed
<1> QED
  BY <1>2, <1>3, <1>4 DEF NInv

(* One step, of a client, of the server or of time. *)
LEMMA NNext ==
    ASSUME NEW T, Steady(T), OneMachine, IInv, NInv(T), [Next]_vars
    PROVE  NInv(T)'
<1>1. CASE UNCHANGED vars
  BY <1>1, NPartsNext DEF vars, NInv
<1>2. CASE Alarm
  BY <1>2, NPartsNext DEF Alarm, NInv
<1>3. T \in Nat
  BY LeasesAssumption DEF Steady
<1> QED
  BY <1>1, <1>2, <1>3, SeeksNext, UsesNext, StopsNext, ScriptNext, TickNext, AlarmEventNext,
     HangUpNext, RestartNext DEF Next

(* Two machines with one address would have two leases for it. *)
LEMMA NApart ==
    ASSUME NEW T, IInv, NInv(T)
    PROVE  NoConflict
<1> SUFFICES ASSUME NEW g \in Hw, NEW h \in Hw, g # h, held[g].addr # NoAddr,
                    held[g].addr = held[h].addr
             PROVE  FALSE
  BY DEF NoConflict
<1>1. lt \in Good
  BY Parts
<1>2. PICK i \in 1..Len(lt.leases) : Covers(lt.leases[i], g, held[g])
  BY DEF NInv, Backed, Backs
<1>3. PICK j \in 1..Len(lt.leases) : Covers(lt.leases[j], h, held[h])
  BY DEF NInv, Backed, Backs
<1>4. i # j /\ lt.leases[i].addr = lt.leases[j].addr
  BY <1>2, <1>3 DEF Covers
<1> QED
  BY <1>1, <1>4 DEF Good, Sound, Unique

-----------------------------------------------------------------------------
(* Where every lease is for one time or for ever, and no two machines have
   one client identifier, two machines never take one address to be theirs:
   what a machine has been told, in an ACK or by BOOTP, is backed by a lease
   of its own that lasts as long, and by a line of the file before the table
   is clean, through lost replies, expiries, SIGHUP, errors of writing and
   restarts.                                                                *)
THEOREM DhcpNoConflict ==
    ASSUME NEW T, Steady(T), OneMachine
    PROVE  Spec => []NoConflict
<1>1. Init => NInv(T)
  BY NInit
<1>2. IInv /\ NInv(T) /\ [Next]_vars => NInv(T)'
  BY NNext
<1>3. IInv /\ NInv(T) => NoConflict
  BY NApart
<1> QED
  BY <1>1, <1>2, <1>3, DhcpInv, PTL DEF Spec

-----------------------------------------------------------------------------
(* The file has every lease, and the alarm comes in time *)

SameLine(l, k) == Tied(l, k) /\ l.name = k.name

(* Two lists that would be the same lines of a file, in whatever order. *)
Matching(ls, ks) ==
    /\ \A i \in 1..Len(ls) : \E j \in 1..Len(ks) : SameLine(ls[i], ks[j])
    /\ \A j \in 1..Len(ks) : \E i \in 1..Len(ls) : SameLine(ls[i], ks[j])

(* What an operation does to a table is noted, unless it changes nothing that
   is in the file, and the DNS and the script will be told of it; and a time it
   gives is not in the past.                                                *)
Noted(t, u) ==
    /\ Tells(t, u)
    /\ ~u.fileDirty => ~t.fileDirty /\ Matching(u.leases, t.leases)
    /\ \A i \in 1..Len(u.leases) :
         u.leases[i].left \in Term
         \/ \E j \in 1..Len(t.leases) : u.leases[i].left = t.leases[j].left

Filed(t, f) == ~t.fileDirty => Matching(t.leases, f)
Living(t)   == \A i \in 1..Len(t.leases) : t.leases[i].left \in Term

LEMMA MatchingSelf == ASSUME NEW ls PROVE Matching(ls, ls)
BY DEF Matching, SameLine, Tied

LEMMA MatchingTrans ==
    ASSUME NEW ls, NEW ks, NEW ms, Matching(ls, ks), Matching(ks, ms)
    PROVE  Matching(ls, ms)
<1>1. ASSUME NEW i \in 1..Len(ls) PROVE \E j \in 1..Len(ms) : SameLine(ls[i], ms[j])
  <2>1. PICK k \in 1..Len(ks) : SameLine(ls[i], ks[k])
    BY DEF Matching
  <2>2. PICK j \in 1..Len(ms) : SameLine(ks[k], ms[j])
    BY DEF Matching
  <2> QED BY <2>1, <2>2 DEF SameLine, Tied
<1>2. ASSUME NEW j \in 1..Len(ms) PROVE \E i \in 1..Len(ls) : SameLine(ls[i], ms[j])
  <2>1. PICK k \in 1..Len(ks) : SameLine(ks[k], ms[j])
    BY DEF Matching
  <2>2. PICK i \in 1..Len(ls) : SameLine(ls[i], ks[k])
    BY DEF Matching
  <2> QED BY <2>1, <2>2 DEF SameLine, Tied
<1> QED
  BY <1>1, <1>2 DEF Matching

LEMMA NotedSelf == ASSUME NEW t PROVE Noted(t, t)
BY MatchingSelf, TellsSelf DEF Noted

LEMMA NotedTrans ==
    ASSUME NEW t, NEW u, NEW v, Noted(t, u), Noted(u, v) PROVE Noted(t, v)
<1>1. ~v.fileDirty => ~t.fileDirty /\ Matching(v.leases, t.leases)
  BY MatchingTrans DEF Noted
<1>2. ASSUME NEW i \in 1..Len(v.leases), v.leases[i].left \notin Term
      PROVE  \E j \in 1..Len(t.leases) : v.leases[i].left = t.leases[j].left
  <2>1. PICK k \in 1..Len(u.leases) : v.leases[i].left = u.leases[k].left
    BY <1>2 DEF Noted
  <2> QED BY <1>2, <2>1 DEF Noted
<1>3. Tells(t, v)
  BY TellsTrans DEF Noted
<1> QED
  BY <1>1, <1>2, <1>3 DEF Noted

LEMMA SparedMatching ==
    ASSUME NEW t, NEW u, SameLines(t, u) PROVE Matching(u.leases, t.leases)
BY DEF SameLines, SameNames, Matching, SameLine

LEMMA SparedNoted ==
    ASSUME NEW t, NEW u, Spared(t, u), Tells(t, u) PROVE Noted(t, u)
<1>1. ~u.fileDirty => ~t.fileDirty /\ SameLines(t, u)
  BY DEF Spared, SameLines
<1>2. \A i \in 1..Len(u.leases) : i \in 1..Len(t.leases) /\ u.leases[i].left = t.leases[i].left
  BY DEF Spared, Tied
<1> QED
  BY <1>1, <1>2, SparedMatching DEF Noted

LEMMA NotedFiled ==
    ASSUME NEW t, NEW u, Noted(t, u), NEW f, Filed(t, f) PROVE Filed(u, f)
BY MatchingTrans DEF Noted, Filed

LEMMA SparedFiled ==
    ASSUME NEW t, NEW u, Spared(t, u), NEW f, Filed(t, f) PROVE Filed(u, f)
<1>1. ~u.fileDirty => ~t.fileDirty /\ Matching(u.leases, t.leases)
  BY SparedMatching DEF Spared, SameLines
<1> QED
  BY <1>1, MatchingTrans DEF Filed

LEMMA NotedLiving ==
    ASSUME NEW t, NEW u, Noted(t, u), Living(t) PROVE Living(u)
<1>1. ASSUME NEW i \in 1..Len(u.leases), u.leases[i].left \notin Term PROVE FALSE
  <2>1. PICK j \in 1..Len(t.leases) : u.leases[i].left = t.leases[j].left
    BY <1>1 DEF Noted
  <2> QED BY <1>1, <2>1 DEF Living
<1> QED
  BY <1>1 DEF Living

LEMMA NotExpired ==
    ASSUME NEW l, l.left \in Left, ~Expired(l) PROVE l.left \in Term
BY LeasesAssumption DEF Expired, Left, LongGone, Term

LEMMA PruneNoted ==
    ASSUME NEW t \in Good, NEW target
    PROVE  Noted(t, LeasePrune(t, target)) /\ Living(LeasePrune(t, target))
<1> DEFINE u == LeasePrune(t, target)
<1>1. t \in Sound /\ t \in Table
  BY GoodTable
<1>2. /\ u \in Sound
      /\ \A j \in 1..Len(u.leases) : \E k \in 1..Len(t.leases) :
           ~Expired(t.leases[k]) /\ u.leases[j] = t.leases[k]
      /\ \A k \in 1..Len(t.leases) : k # target /\ ~Expired(t.leases[k]) =>
           \E j \in 1..Len(u.leases) : u.leases[j] = t.leases[k]
      /\ ~u.fileDirty => /\ ~t.fileDirty
                         /\ \A k \in 1..Len(t.leases) : k # target /\ ~Expired(t.leases[k])
  BY ONLY <1>1, LeasePruneOK
<1>5. Tells(t, u)
  BY <1>1, LeasePruneTells
<1> HIDE DEF u
<1>3. ASSUME ~u.fileDirty PROVE Matching(u.leases, t.leases)
  <2>1. \A k \in 1..Len(t.leases) : \E j \in 1..Len(u.leases) : u.leases[j] = t.leases[k]
    BY <1>2, <1>3
  <2>2. \A j \in 1..Len(u.leases) : \E k \in 1..Len(t.leases) : u.leases[j] = t.leases[k]
    BY <1>2
  <2> QED BY <2>1, <2>2 DEF Matching, SameLine, Tied
<1>4. Living(u)
  <2>1. ASSUME NEW j \in 1..Len(u.leases) PROVE u.leases[j].left \in Term
    <3>1. u.leases[j] \in Lease
      BY <1>2, LeaseAt DEF Sound
    <3>2. ~Expired(u.leases[j])
      BY <1>2
    <3>3. u.leases[j].left \in Left
      BY <3>1 DEF Lease
    <3> QED BY <3>2, <3>3, NotExpired
  <2> QED BY <2>1 DEF Living
<1> QED
  BY <1>2, <1>3, <1>4, <1>5 DEF Noted, Living, u

LEMMA GaveNoted ==
    ASSUME NEW t, NEW u, NEW lease, NEW addr, NEW hw, NEW clid, NEW left \in Term,
           Gave(t, u, lease, addr, hw, clid, left)
    PROVE  Noted(t, u)
<1>1. PICK g \in 1..Len(u.leases) :
        /\ u.leases[g].left = left
        /\ \A j \in 1..Len(u.leases) : j # g =>
              \E k \in 1..Len(t.leases) : Tied(u.leases[j], t.leases[k])
        /\ ~u.fileDirty => ~t.fileDirty /\ SameLines(t, u)
  BY DEF Gave
<1>2. ~u.fileDirty => ~t.fileDirty /\ Matching(u.leases, t.leases)
  BY <1>1, SparedMatching
<1>3. ASSUME NEW i \in 1..Len(u.leases), i # g
      PROVE  \E j \in 1..Len(t.leases) : u.leases[i].left = t.leases[j].left
  BY <1>1, <1>3 DEF Tied
<1>4. Tells(t, u)
  BY DEF Gave
<1> QED
  BY <1>1, <1>2, <1>3, <1>4 DEF Noted


(* What each kind of packet does is noted. *)
Notes(s, r) == Noted(s.t, r.s.t)

LEMMA OutcomeNotes ==
    ASSUME NEW s, NEW u, Noted(s.t, u.t), NEW kind, NEW addr, NEW left, NEW why
    PROVE  Notes(s, Outcome(u, kind, addr, left, why)) /\ Notes(s, Silent(u))
BY DEF Notes, Silent, Outcome

LEMMA SilentNotes == ASSUME NEW s PROVE Notes(s, Silent(s))
BY NotedSelf, OutcomeNotes

LEMMA PrunedNoted ==
    ASSUME NEW s \in State, NEW i PROVE Noted(s.t, Pruned(s, i).t)
<1> DEFINE u == LeasePrune(s.t, i)
<1>1. s.t \in Good
  BY StateParts
<1>2. Noted(s.t, u) /\ u \in Good
  BY ONLY <1>1, GoodTable, PruneNoted, LeasePruneOK
<1> HIDE DEF u
<1>3. Pruned(s, i).t = u
  BY <1>2, StateTable DEF Pruned, u
<1> QED
  BY <1>2, <1>3

LEMMA NotesAfter ==
    ASSUME NEW s, NEW u, NEW r, Noted(s.t, u.t), Notes(u, r) PROVE Notes(s, r)
BY NotedTrans DEF Notes

LEMMA GrantsNotes ==
    ASSUME NEW s, NEW r, r.left \in Term, NEW lease, NEW addr, NEW hw, NEW clid,
           Grants(s, r, lease, addr, hw, clid)
    PROVE  Notes(s, r)
<1> DEFINE t == s.t  u == r.s.t  left == r.left
<1>1. Gave(t, u, lease, addr, hw, clid, left) /\ left \in Term
  BY DEF Grants
<1> HIDE DEF t, u, left
<1>2. Noted(t, u)
  BY <1>1, GaveNoted
<1> QED
  BY <1>2 DEF Notes, t, u

LEMMA ServedNotes ==
    ASSUME NEW s \in State, NEW q, q.conf \in Config, q.m.hw \in Hw, q.name \in Name \cup {NoName},
           NEW lease \in 0..Len(s.t.leases), NEW addr \in Addr,
           lease = 0 => FindByAddr(s.t, addr) = 0
    PROVE  Notes(s, Served(s, q, lease, addr))
<1> DEFINE r == Served(s, q, lease, addr)
<1>1. /\ Sane(r)
      /\ \/ r = Silent(s)
         \/ r.kind = "bootp" /\ Grants(s, r, lease, addr, q.m.hw, NoClid)
  BY ServedOK
<1> HIDE DEF r
<1>2. CASE r = Silent(s)
  BY <1>2, SilentNotes DEF r
<1>3. CASE r.kind = "bootp" /\ Grants(s, r, lease, addr, q.m.hw, NoClid)
  <2> DEFINE hw == q.m.hw
  <2>1. r.left \in Term
    BY <1>1, <1>3 DEF Sane
  <2> HIDE DEF hw
  <2>2. Notes(s, r)
    BY <1>3, <2>1, GrantsNotes DEF hw
  <2> QED BY <2>2 DEF r
<1> QED
  BY <1>1, <1>2, <1>3 DEF r


LEMMA BootpNotes ==
    ASSUME NEW s \in State, NEW q, Describes(q, s), NEW busy
    PROVE  Notes(s, Bootp(s, q, busy))
<1> DEFINE hw == q.m.hw
           holder == FindByAddr(s.t, q.conf.addr)
           own == FindByClient(s.t, hw, NoClid)
           stays == own # 0 /\ AddressAvailable(q.chain, s.t.leases[own].addr, q.tags)
           left == IF own # 0 /\ ~stays THEN Pruned(s, own) ELSE s
           w == AddressAllocate(left, q.chain, hw, q.tags, busy)
           u == After(left, w)
<1>1. \/ Bootp(s, q, busy) = Silent(s)
      \/ Bootp(s, q, busy) = Silent(u)
      \/ /\ q.conf.addr # NoAddr
         /\ Bootp(s, q, busy) = Served(s, q, holder, q.conf.addr)
      \/ own # 0 /\ Bootp(s, q, busy) = Served(s, q, own, s.t.leases[own].addr)
      \/ w.addr # NoAddr /\ Bootp(s, q, busy) = Served(u, q, 0, w.addr)
  BY DEF Bootp, Served, Updated
<1>2. /\ q.conf \in Config /\ hw \in Hw /\ q.name \in Name \cup {NoName} /\ q.chain \in Seq(Ranges)
  BY DEF Describes, Wellformed
<1>3. s.t \in Table /\ Len(s.t.leases) \in Nat
  BY StateParts
<1>4. left \in State /\ Noted(s.t, left.t)
  BY PrunedOK, PrunedNoted, NotedSelf
<1>5. own \in 0..Len(s.t.leases)
  BY <1>3, FindByClientOK
<1> HIDE DEF own, left
<1>6. w \in Finding(left.t)
  BY <1>2, <1>4, AddressAllocateOK
<1> HIDE DEF w
<1>7. u \in State /\ u.t = left.t
  BY <1>4, <1>6, AfterOK
<1> HIDE DEF u
<1>8. CASE Bootp(s, q, busy) = Silent(s)
  BY <1>8, SilentNotes
<1>9. CASE Bootp(s, q, busy) = Silent(u)
  BY <1>4, <1>7, <1>9, OutcomeNotes
<1>10. CASE q.conf.addr # NoAddr /\ Bootp(s, q, busy) = Served(s, q, holder, q.conf.addr)
  <2> DEFINE a == q.conf.addr
  <2>1. a \in Addr
    BY <1>2, <1>10 DEF Config
  <2>2. holder \in 0..Len(s.t.leases) /\ (holder = 0 => FindByAddr(s.t, a) = 0)
    BY <1>3, FindByAddrOK
  <2> HIDE DEF a, holder
  <2>3. Notes(s, Served(s, q, holder, a))
    BY <1>2, <2>1, <2>2, ServedNotes
  <2> QED BY <1>10, <2>3 DEF a
<1>11. CASE own # 0 /\ Bootp(s, q, busy) = Served(s, q, own, s.t.leases[own].addr)
  <2> DEFINE a == s.t.leases[own].addr
  <2>1. own \in 1..Len(s.t.leases)
    BY <1>3, <1>5, <1>11
  <2>2. s.t.leases[own] \in Lease
    BY <1>3, <2>1, LeaseAt
  <2>3. a \in Addr
    BY <2>2 DEF Lease
  <2> HIDE DEF a
  <2>4. Notes(s, Served(s, q, own, a))
    BY <1>2, <1>5, <1>11, <2>3, ServedNotes
  <2> QED BY <1>11, <2>4 DEF a
<1>12. CASE w.addr # NoAddr /\ Bootp(s, q, busy) = Served(u, q, 0, w.addr)
  <2> DEFINE a == w.addr
  <2>1. a \in Addr /\ FindByAddr(u.t, a) = 0
    BY <1>6, <1>7, <1>12 DEF Finding
  <2>2. 0 \in 0..Len(u.t.leases)
    BY <1>7, StateParts
  <2> HIDE DEF a
  <2>3. Notes(u, Served(u, q, 0, a))
    BY <1>2, <1>7, <2>1, <2>2, ServedNotes
  <2>4. Notes(s, Served(u, q, 0, a))
    BY <1>4, <1>7, <2>3, NotesAfter
  <2> QED BY <1>12, <2>4 DEF a
<1> QED
  BY <1>1, <1>8, <1>9, <1>10, <1>11, <1>12

LEMMA DeclineNotes ==
    ASSUME NEW s \in State, NEW q
    PROVE  Notes(s, Decline(s, q))
<1> DEFINE mine == q.lease # 0 /\ s.t.leases[q.lease].addr = q.m.reqip
           s1 == IF mine THEN Pruned(s, q.lease) ELSE s
           e == [id \in DOMAIN s1.epoch |->
                    IF \E i \in DOMAIN q.chain : q.chain[i].id = id
                    THEN (s1.epoch[id] + 1) % Size(Contexts[id]) ELSE s1.epoch[id]]
           barred == [s1 EXCEPT !.confs[q.at].declined = Backoff]
           turned == [s1 EXCEPT !.epoch = e]
<1>1. Decline(s, q) = Silent(barred) \/ Decline(s, q) = Silent(turned)
  BY DEF Decline
<1>2. s1 \in State /\ Noted(s.t, s1.t)
  BY PrunedOK, PrunedNoted, NotedSelf
<1> HIDE DEF s1
<1>3. barred.t = s1.t /\ turned.t = s1.t
  BY <1>2 DEF State
<1> HIDE DEF barred, turned
<1> QED
  BY <1>1, <1>2, <1>3, OutcomeNotes

LEMMA ReleaseNotes ==
    ASSUME NEW s \in State, NEW q PROVE Notes(s, Release(s, q))
<1> DEFINE u == Pruned(s, q.lease)
<1>1. Release(s, q) = Silent(s) \/ Release(s, q) = Silent(u)
  BY DEF Release
<1>2. Noted(s.t, u.t)
  BY PrunedNoted
<1> HIDE DEF u
<1> QED
  BY <1>1, <1>2, SilentNotes, OutcomeNotes

LEMMA DiscoverNotes ==
    ASSUME NEW s \in State, NEW q, Describes(q, s), NEW busy
    PROVE  Notes(s, Discover(s, q, busy))
<1> DEFINE w == AddressAllocate(s, q.chain, q.m.hw, q.tags, busy)
           known == ConfiguredFree(s, q) \/ LeaseFits(s, q) \/ AskedFree(s, q)
           addr == IF ConfiguredFree(s, q) THEN q.conf.addr
                   ELSE IF LeaseFits(s, q) THEN s.t.leases[q.lease].addr
                   ELSE IF AskedFree(s, q) THEN q.m.reqip ELSE w.addr
           s1 == IF known THEN s ELSE After(s, w)
           context == NarrowContext(q.chain, addr, q.tags)
           time == CalcTime(Head(context), q)
<1>1. \/ Discover(s, q, busy) = Silent(s)
      \/ Discover(s, q, busy) = Silent(s1)
      \/ Discover(s, q, busy) = Outcome(s1, "offer", addr, time, "")
  BY DEF Discover
<1>2. w \in Finding(s.t)
  <2>1. q.chain \in Seq(Ranges) /\ q.m.hw \in Hw
    BY DEF Describes, Wellformed
  <2> QED BY <2>1, AddressAllocateOK
<1> HIDE DEF w, known, addr, context, time
<1>3. Noted(s.t, s1.t)
  BY <1>2, AfterOK, NotedSelf
<1> HIDE DEF s1
<1> QED
  BY <1>1, <1>3, SilentNotes, OutcomeNotes

LEMMA InformNotes ==
    ASSUME NEW s \in State, NEW q, Describes(q, s)
    PROVE  Notes(s, Inform(s, q))
<1> DEFINE lease == IF q.lease # 0 THEN q.lease ELSE FindByAddr(s.t, q.m.ciaddr)
           t == SetInterface(s.t, lease)
           u == IF lease = 0 THEN s ELSE [s EXCEPT !.t = t]
<1>1. Inform(s, q) = Silent(s) \/ Inform(s, q) = Outcome(u, "inform", NoAddr, 0, "")
  BY DEF Inform
<1>2. s.t \in Good /\ s.t \in Sound /\ s.t \in Table /\ Len(s.t.leases) \in Nat
  BY StateParts
<1>3. lease \in 0..Len(s.t.leases)
  BY <1>2, FindByAddrOK DEF Describes
<1> HIDE DEF lease
<1>4. Noted(s.t, u.t)
  <2>1. CASE lease = 0
    BY <2>1, NotedSelf
  <2>2. CASE lease # 0
    <3>1. lease \in 1..Len(s.t.leases)
      BY <1>2, <1>3, <2>2
    <3>2. t \in Table /\ Alike(s.t, t) /\ Spared(s.t, t)
      BY <1>2, <3>1, SetInterfaceOK
    <3>5. Tells(s.t, t)
      BY <1>2, <3>1, SetInterfaceTells
    <3> HIDE DEF t
    <3>3. t \in Good /\ Noted(s.t, t)
      BY <1>2, <3>2, <3>5, AlikeSound, SparedNoted
    <3>4. [s EXCEPT !.t = t].t = t
      BY <3>3, StateTable
    <3> QED BY <2>2, <3>3, <3>4
  <2> QED BY <2>1, <2>2
<1> HIDE DEF u
<1> QED
  BY <1>1, <1>4, SilentNotes, OutcomeNotes

LEMMA RequestNotes ==
    ASSUME NEW s \in State, NEW q, Describes(q, s), hosts \in [Addr -> Name \cup {NoName}]
    PROVE  Notes(s, Request(s, q))
<1> DEFINE addr == Wanted(q)
           left == q.m.reqip # NoAddr /\ Moved(s, q)
           s1 == IF left THEN Pruned(s, q.lease) ELSE s
           q1 == IF left THEN [q EXCEPT !.lease = 0] ELSE q
           refused == IF InitReboot(q) /\ left THEN "wrong address"
                      ELSE IF q.m.reqip = NoAddr
                              /\ (Moved(s, q) \/ (q.lease = 0 /\ ~Authoritative))
                      THEN "lease not found" ELSE Objection(s1, q1, addr)
<1>1. \/ Request(s, q) = Silent(s)
      \/ Request(s, q) = Outcome(s1, "nak", NoAddr, 0, refused)
      \/ Objection(s1, q1, addr) = "" /\ Request(s, q) = Acknowledge(s1, q1, addr)
  BY DEF Request
<1>2. s1 \in State /\ Noted(s.t, s1.t)
  BY PrunedOK, PrunedNoted, NotedSelf
<1>3. Describes(q1, s1)
  BY LeftOK
<1>4. addr \in Addr \cup {NoAddr}
  BY DEF Wanted, Describes, Wellformed
<1> HIDE DEF s1, q1, addr, left, refused
<1>5. ASSUME Objection(s1, q1, addr) = "" PROVE Notes(s, Acknowledge(s1, q1, addr))
  <2> DEFINE r == Acknowledge(s1, q1, addr)  hw == q1.m.hw  clid == q1.clid  lease == q1.lease
  <2>1. NarrowContext(q1.chain, addr, q1.tags) # <<>>
    BY <1>5 DEF Objection
  <2>2. q1.lease = 0 => FindByAddr(s1.t, addr) = 0 /\ Room(s1.t)
    BY <1>5 DEF Objection
  <2>3. Sane(r) /\ r.kind = "ack" /\ Grants(s1, r, lease, addr, hw, clid)
    BY <1>2, <1>3, <1>4, <2>1, <2>2, AcknowledgeOK
  <2> HIDE DEF r, hw, clid, lease
  <2>4. r.left \in Term
    BY <2>3 DEF Sane
  <2>5. Notes(s1, r)
    BY <2>3, <2>4, GrantsNotes
  <2>6. Notes(s, r)
    BY <1>2, <2>5, NotesAfter
  <2> QED BY <2>6 DEF r
<1> QED
  BY <1>1, <1>2, <1>5, SilentNotes, OutcomeNotes

LEMMA ReplyNotes ==
    ASSUME NEW s \in State, NEW m, Wellformed(m), m.type \in Kinds, NEW busy,
           hosts \in [Addr -> Name \cup {NoName}]
    PROVE  Notes(s, DhcpReply(s, m, busy))
<1> DEFINE q == Query(s, m)
<1>1. Describes(q, s) /\ q.m = m
  BY QueryOK
<1> HIDE DEF q
<1>2. Answer(s, q, busy) \in {Silent(s), Bootp(s, q, busy), Decline(s, q), Release(s, q),
                              Discover(s, q, busy), Request(s, q), Inform(s, q)}
  <2>1. m.type = "bootp" => Answer(s, q, busy) \in {Silent(s), Bootp(s, q, busy)}
    BY <1>1 DEF Answer
  <2>2. m.type = "decline" => Answer(s, q, busy) \in {Silent(s), Decline(s, q)}
    BY <1>1 DEF Answer
  <2>3. m.type = "release" => Answer(s, q, busy) \in {Silent(s), Release(s, q)}
    BY <1>1 DEF Answer
  <2>4. m.type = "discover" => Answer(s, q, busy) \in {Silent(s), Discover(s, q, busy)}
    BY <1>1 DEF Answer
  <2>5. m.type = "request" => Answer(s, q, busy) \in {Silent(s), Request(s, q)}
    BY <1>1 DEF Answer
  <2>6. m.type = "inform" => Answer(s, q, busy) \in {Silent(s), Inform(s, q)}
    BY <1>1 DEF Answer
  <2> QED BY <2>1, <2>2, <2>3, <2>4, <2>5, <2>6 DEF Kinds
<1>3. /\ Notes(s, Silent(s)) /\ Notes(s, Bootp(s, q, busy)) /\ Notes(s, Decline(s, q))
      /\ Notes(s, Release(s, q)) /\ Notes(s, Discover(s, q, busy)) /\ Notes(s, Request(s, q))
      /\ Notes(s, Inform(s, q))
  BY <1>1, SilentNotes, BootpNotes, DeclineNotes, ReleaseNotes, DiscoverNotes, RequestNotes,
     InformNotes
<1>4. Notes(s, Answer(s, q, busy))
  BY <1>2, <1>3
<1> QED
  BY <1>4 DEF DhcpReply, q


-----------------------------------------------------------------------------
(* The alarm *)

(* SIGALRM comes at most Slop after the end of a lease, and within Retry of
   an error.                                                                *)
Timely(t, a) ==
    /\ \A i \in 1..Len(t.leases) :
         t.leases[i].left # Never => a # NoAlarm /\ a <= t.leases[i].left + Slop
    /\ t.fileDirty => a # NoAlarm /\ a <= Retry

(* No lease is gone for so long that its alarm is in the past. *)
Soon(t) == \A i \in 1..Len(t.leases) : t.leases[i].left # Never => t.leases[i].left + Slop > 0

LEMMA LivingSoon == ASSUME NEW t, Living(t) PROVE Soon(t)
<1>1. ASSUME NEW l \in Term, l # Never PROVE l + Slop > 0
  BY <1>1, LeasesAssumption DEF Term
<1> QED
  BY <1>1 DEF Living, Soon

LEMMA NextAlarmTimely ==
    ASSUME NEW t \in Table, Soon(t), NEW alarm0, NEW failed \in BOOLEAN
    PROVE  LET a == NextAlarm(t, alarm0, failed) IN
           /\ \A i \in 1..Len(t.leases) :
                t.leases[i].left # Never => a # NoAlarm /\ a <= t.leases[i].left + Slop
           /\ failed => a # NoAlarm /\ a <= Retry
<1> DEFINE ends == {t.leases[i].left : i \in DOMAIN t.leases} \ {Never}
           events == {left + Slop : left \in ends} \cup IF failed THEN {Retry} ELSE {}
           next == CHOOSE e \in events : \A f \in events : e <= f
           a == NextAlarm(t, alarm0, failed)
<1>1. \A left \in ends : left \in Int /\ left + Slop > 0
  <2>1. ASSUME NEW i \in DOMAIN t.leases, t.leases[i].left # Never
        PROVE  t.leases[i].left \in Int /\ t.leases[i].left + Slop > 0
    <3>1. i \in 1..Len(t.leases) /\ t.leases[i] \in Lease
      BY DEF Table
    <3>2. t.leases[i].left \in Left
      BY <3>1 DEF Lease
    <3> QED BY <2>1, <3>1, <3>2, LeasesAssumption DEF Left, LongGone, Soon
  <2> QED BY <2>1
<1>2. \A i \in 1..Len(t.leases) : t.leases[i].left # Never => t.leases[i].left \in ends
  BY DEF Table
<1> HIDE DEF ends
<1>3. \A e \in events : e \in Nat /\ e > 0
  BY <1>1, LeasesAssumption
<1>4. /\ \A i \in 1..Len(t.leases) : t.leases[i].left # Never => t.leases[i].left + Slop \in events
      /\ failed => Retry \in events
  BY <1>2
<1> HIDE DEF events
<1>5. ASSUME events # {} PROVE next \in events /\ \A f \in events : next <= f
  <2>1. events \in SUBSET Nat
    BY <1>3
  <2>2. Min(events) \in events /\ \A f \in events : Min(events) <= f
    BY <1>5, <2>1, MinInSet
  <2> QED BY <2>2
<1> HIDE DEF next
<1>6. a = IF events = {} THEN alarm0 ELSE IF next > 0 THEN next ELSE NoAlarm
  BY DEF NextAlarm, events, ends, next
<1>7. ASSUME NEW e \in events PROVE a # NoAlarm /\ a <= e
  BY <1>3, <1>5, <1>6, <1>7, LeasesAssumption
<1> HIDE DEF a
<1>8. /\ \A i \in 1..Len(t.leases) :
           t.leases[i].left # Never => a # NoAlarm /\ a <= t.leases[i].left + Slop
      /\ failed => a # NoAlarm /\ a <= Retry
  BY <1>4, <1>7
<1> QED
  BY <1>8 DEF a

(* The file is written, or not, or in part. *)
LEMMA FilesFiled ==
    ASSUME file \in Seq(Stored), NEW t \in Good, Filed(t, file), NEW before,
           NEW o \in Files(t, before)
    PROVE  Filed(o.t, o.file) /\ (Soon(t) => Timely(o.t, o.alarm))
<1> DEFINE L == Lines(t)
           failed == NextAlarm(t, before, TRUE)
           fine == NextAlarm(t, before, FALSE)
           stopped(g) == [t |-> t, file |-> g, alarm |-> failed]
           clean == [t EXCEPT !.fileDirty = FALSE]
           done == [t |-> clean, file |-> IF t.fileDirty THEN L ELSE file, alarm |-> fine]
<1>1. t \in Table /\ clean.leases = t.leases /\ ~clean.fileDirty
  BY GoodTable DEF Table
<1>2. Matching(t.leases, L)
  <2>1. L \in Seq(Stored) /\ Len(L) = Len(t.leases)
    BY LinesOK
  <2>2. ASSUME NEW i \in 1..Len(t.leases) PROVE SameLine(t.leases[i], L[i])
    <3>1. i \in DOMAIN t.leases
      BY <1>1 DEF Table
    <3> QED BY <3>1 DEF Lines, SameLine, Tied
  <2> HIDE DEF L
  <2> QED BY <2>1, <2>2 DEF Matching
<1>3. o = done \/ (t.fileDirty /\ \E g : o = stopped(g))
  BY DEF Files, LeaseUpdateFile
<1>4. ASSUME Soon(t)
      PROVE  /\ \A i \in 1..Len(t.leases) : t.leases[i].left # Never =>
                  /\ fine # NoAlarm /\ fine <= t.leases[i].left + Slop
                  /\ failed # NoAlarm /\ failed <= t.leases[i].left + Slop
             /\ failed # NoAlarm /\ failed <= Retry
  BY <1>1, <1>4, NextAlarmTimely
<1> HIDE DEF L, clean, fine, failed
<1>5. CASE o = done
  <2>1. o.t = clean /\ o.alarm = fine /\ o.file = (IF t.fileDirty THEN L ELSE file)
    BY <1>5
  <2>2. Matching(t.leases, o.file)
    BY <1>2, <2>1 DEF Filed
  <2> QED BY <1>1, <1>4, <2>1, <2>2 DEF Filed, Timely
<1>6. ASSUME t.fileDirty, NEW g, o = stopped(g)
      PROVE  Filed(o.t, o.file) /\ (Soon(t) => Timely(o.t, o.alarm))
  <2>1. o.t = t /\ o.alarm = failed
    BY <1>6
  <2> QED BY <1>4, <1>6, <2>1 DEF Filed, Timely
<1> QED
  BY <1>3, <1>5, <1>6

(* Nothing is done to the file. *)
SameFile(t, u) == Spared(t, u) /\ u.fileDirty = t.fileDirty

LEMMA SameFileKept ==
    ASSUME NEW t, NEW u, SameFile(t, u), NEW f, NEW a
    PROVE  (Filed(t, f) => Filed(u, f)) /\ (Timely(t, a) => Timely(u, a))
<1>1. Filed(t, f) => Filed(u, f)
  BY SparedFiled DEF SameFile
<1>2. ASSUME Timely(t, a), NEW i \in 1..Len(u.leases), u.leases[i].left # Never
      PROVE  a # NoAlarm /\ a <= u.leases[i].left + Slop
  <2>1. i \in 1..Len(t.leases) /\ u.leases[i].left = t.leases[i].left
    BY DEF SameFile, Spared, Tied
  <2> QED BY <1>2, <2>1 DEF Timely
<1>3. Timely(t, a) => (u.fileDirty => a # NoAlarm /\ a <= Retry)
  BY DEF SameFile, Timely
<1> QED
  BY <1>1, <1>2, <1>3 DEF Timely

LEMMA SettleSame ==
    ASSUME NEW t \in Good
    PROVE  /\ SameFile(t, Settle(Entered(t))) /\ SameFile(t, Settle(t))
           /\ SameFile(t, Settle(RerunScripts(Entered(t))))
<1>1. ASSUME NEW u \in Good PROVE SameFile(u, Settle(u))
  <2>1. Spared(u, Drained(u)) /\ Spared(u, u) /\ u \in Table
    BY GoodTable, DrainedOK, SparedSelf
  <2>2. Drained(u).fileDirty = u.fileDirty
    BY <2>1 DEF Drained, Table
  <2> QED BY <2>1, <2>2 DEF Settle, SameFile
<1>2. Entered(t) \in Good /\ SameFile(t, Entered(t))
  <2>1. t \in Table
    BY GoodTable
  <2>2. SameFile(t, Entered(t))
    BY <2>1 DEF Table, Entered, SameFile, Spared, SameNames, Tied
  <2> QED BY <2>2, EnteredOK
<1> DEFINE e == Entered(t)  v == RerunScripts(e)
<1>3. v \in Good /\ Spared(e, v) /\ e \in Table
  BY <1>2, GoodTable, RerunOK, RerunScriptsOK
<1>4. v.fileDirty = e.fileDirty
  <2> HIDE DEF e
  <2> QED BY <1>3 DEF RerunScripts, Table
<1> HIDE DEF e, v
<1>5. SameFile(t, e) /\ e \in Good
  BY <1>2 DEF e
<1>6. SameFile(t, Settle(e)) /\ SameFile(t, Settle(v)) /\ SameFile(t, Settle(t))
  BY <1>1, <1>3, <1>4, <1>5, SparedTrans DEF SameFile
<1> QED
  BY <1>6 DEF e, v


-----------------------------------------------------------------------------
(* The invariant: a clean table is the file, and the alarm is timely *)

FInv == Filed(lt, file) /\ (QuietHangUp => due \/ Timely(lt, alarm))

LEMMA FPartsNext ==
    ASSUME Filed(lt', file'), QuietHangUp => due' \/ Timely(lt', alarm') PROVE FInv'
BY DEF FInv

LEMMA WrittenFiled ==
    ASSUME IInv, NEW t \in Good, NEW before \in Nat \cup {NoAlarm}, NEW o \in Files(t, before),
           Filed(t, file), NEW u,
           u \in {Settle(Entered(o.t)), Settle(o.t), Settle(RerunScripts(Entered(o.t)))}
    PROVE  Filed(u, o.file) /\ (Soon(t) => Timely(u, o.alarm))
<1>1. file \in Seq(Stored)
  BY Parts DEF Readable
<1>2. Filed(o.t, o.file) /\ (Soon(t) => Timely(o.t, o.alarm)) /\ o.t \in Good
  BY <1>1, FilesFiled, FilesOK
<1>3. SameFile(o.t, u)
  BY <1>2, SettleSame
<1> QED
  BY <1>2, <1>3, SameFileKept

LEMMA PacketFiled ==
    ASSUME IInv, FInv, NEW m \in Messages, NEW busy, DhcpPacket(m, busy)
    PROVE  FInv'
<1> DEFINE w == Working  r == DhcpReply(w, m, busy)
<1>1. Wellformed(m) /\ m.type \in Kinds
  BY MessageWellformed
<1>2. /\ w \in State /\ hosts \in [Addr -> Name \cup {NoName}] /\ alarm \in Nat \cup {NoAlarm}
      /\ lt \in Good
  BY WorkingOK, Parts DEF Hosts
<1>3. Noted(lt, w.t) /\ Living(w.t)
  BY <1>2, PruneNoted, ExpiredGentle
<1> HIDE DEF w
<1>4. Sane(r) /\ Notes(w, r)
  BY ONLY <1>1, <1>2, DhcpReplyOK, ReplyNotes
<1>5. Replied(m, r)
  BY DEF DhcpPacket, w
<1> HIDE DEF r
<1> DEFINE t == r.s.t
<1>6. t \in Good /\ Noted(w.t, t)
  BY <1>4 DEF Sane, State, Notes
<1>7. PICK o \in Files(t, alarm) :
        file' = o.file /\ alarm' = o.alarm /\ lt' = Settle(Entered(o.t))
  BY <1>5 DEF Replied
<1> HIDE DEF t
<1>8. Filed(t, file) /\ Soon(t)
  BY <1>3, <1>6, NotedFiled, NotedLiving, LivingSoon DEF FInv
<1>9. Filed(lt', file') /\ Timely(lt', alarm')
  BY <1>2, <1>6, <1>7, <1>8, WrittenFiled
<1> QED
  BY <1>9, FPartsNext

LEMMA SeeksFiled == IInv /\ FInv /\ ClientSeeks => FInv'
<1> SUFFICES ASSUME IInv, FInv, ClientSeeks PROVE FInv'
  OBVIOUS
<1>1. PICK c \in Clients : \E m \in Seeks(c) : \E busy : DhcpPacket(m, busy)
  BY DEF ClientSeeks
<1>2. PICK m \in Seeks(c) : \E busy : DhcpPacket(m, busy)
  BY <1>1
<1>3. m \in Messages
  BY <1>1, SeeksOK
<1> QED
  BY <1>2, <1>3, PacketFiled

LEMMA UsesFiled == IInv /\ FInv /\ ClientUses => FInv'
<1> SUFFICES ASSUME IInv, FInv, ClientUses PROVE FInv'
  OBVIOUS
<1>1. PICK c \in Clients : held[c.hw] # Nowhere /\ \E m \in Uses(c) : DhcpPacket(m, {})
  BY DEF ClientUses
<1>2. PICK m \in Uses(c) : DhcpPacket(m, {})
  BY <1>1
<1>3. m \in Messages
  BY <1>1, Parts, UsesOK
<1> QED
  BY <1>2, <1>3, PacketFiled

LEMMA ScriptFiled == IInv /\ FInv /\ ScriptRun => FInv'
<1> SUFFICES ASSUME IInv, FInv, ScriptRun PROVE FInv'
  OBVIOUS
<1>1. lt \in Table /\ lt' = DoScriptRun(lt) /\ ~NothingToRun(lt)
  BY Parts, GoodTable DEF ScriptRun
<1>2. SameFile(lt, lt')
  <2>1. Spared(lt, lt')
    BY <1>1, DoScriptRunOK
  <2>2. lt'.fileDirty = lt.fileDirty
    BY <1>1 DEF DoScriptRun, Table
  <2> QED BY <2>1, <2>2 DEF SameFile
<1>3. file' = file /\ alarm' = alarm /\ due' = due
  BY DEF ScriptRun
<1> QED
  BY <1>2, <1>3, SameFileKept, FPartsNext DEF FInv

LEMMA AlarmEventFiled == IInv /\ FInv /\ AlarmEvent => FInv'
<1> SUFFICES ASSUME IInv, FInv, AlarmEvent PROVE FInv'
  OBVIOUS
<1> DEFINE t == LeasePrune(lt, 0)
<1>1. lt \in Good /\ alarm \in Nat \cup {NoAlarm}
  BY Parts
<1>2. t \in Good /\ Noted(lt, t) /\ Living(t)
  BY <1>1, ExpiredGentle, PruneNoted
<1>3. PICK o \in Files(t, alarm) : file' = o.file /\ alarm' = o.alarm /\ lt' = Settle(o.t)
  BY DEF AlarmEvent
<1> HIDE DEF t
<1>4. Filed(t, file) /\ Soon(t)
  BY <1>2, NotedFiled, LivingSoon DEF FInv
<1>5. Filed(lt', file') /\ Timely(lt', alarm')
  BY <1>1, <1>2, <1>3, <1>4, WrittenFiled
<1> QED
  BY <1>5, FPartsNext

(* The alarm is as far from the end of each lease as it was a second ago. *)
LEMMA TickFiled == IInv /\ FInv /\ Tick => FInv'
<1> SUFFICES ASSUME IInv, FInv, Tick PROVE FInv'
  OBVIOUS
<1>1. /\ lt \in Table /\ lt.leases \in Seq(Lease) /\ file \in Seq(Stored)
      /\ alarm \in Nat \cup {NoAlarm}
  BY Parts, GoodTable DEF Table, Readable
<1> DEFINE ls == Aged(lt.leases)  f == Aged(file)
<1>2. /\ Len(ls) = Len(lt.leases)
      /\ \A i \in 1..Len(lt.leases) :
           /\ ls[i].addr = lt.leases[i].addr /\ ls[i].name = lt.leases[i].name
           /\ ls[i].clid = lt.leases[i].clid /\ ls[i].hw = lt.leases[i].hw
           /\ ls[i].left = Later(lt.leases[i].left)
  BY <1>1, AgedLeases
<1>3. /\ Len(f) = Len(file)
      /\ \A i \in 1..Len(file) :
           /\ f[i].addr = file[i].addr /\ f[i].name = file[i].name
           /\ f[i].clid = file[i].clid /\ f[i].hw = file[i].hw
           /\ f[i].left = Later(file[i].left)
  BY <1>1, AgedLines
<1>4. /\ lt' = [lt EXCEPT !.leases = Aged(@), !.old = Aged(@)] /\ file' = f
      /\ alarm # 0 /\ alarm' = (IF alarm = NoAlarm THEN NoAlarm ELSE alarm - 1) /\ due' = due
  BY DEF Tick
<1>5. lt'.leases = ls /\ lt'.fileDirty = lt.fileDirty
  BY <1>1, <1>4 DEF Table
<1> HIDE DEF ls, f
<1>6. ASSUME NEW i \in 1..Len(lt.leases), NEW j \in 1..Len(file), SameLine(lt.leases[i], file[j])
      PROVE  SameLine(ls[i], f[j])
  BY <1>2, <1>3, <1>6 DEF SameLine, Tied
<1>7. Filed(lt', file')
  <2> SUFFICES ASSUME ~lt.fileDirty PROVE Matching(ls, f)
    BY <1>4, <1>5 DEF Filed
  <2>1. Matching(lt.leases, file)
    BY DEF FInv, Filed
  <2> QED BY <1>2, <1>3, <1>6, <2>1 DEF Matching
<1>8. ASSUME Timely(lt, alarm) PROVE Timely(lt', alarm')
  <2>1. ASSUME NEW i \in 1..Len(lt.leases), ls[i].left # Never
        PROVE  alarm' # NoAlarm /\ alarm' <= ls[i].left + Slop
    <3> DEFINE l == lt.leases[i].left
    <3>1. l \in Left
      <4>1. lt.leases[i] \in Lease
        BY <1>1
      <4> QED BY <4>1 DEF Lease
    <3>2. ls[i].left = Later(l)
      BY <1>2
    <3>3. l # Never => alarm # NoAlarm /\ alarm <= l + Slop
      BY <1>8 DEF Timely
    <3> HIDE DEF l
    <3>4. l # Never
      BY <2>1, <3>2 DEF Later
    <3>5. alarm \in Nat \ {0} /\ alarm' = alarm - 1 /\ alarm <= l + Slop
      BY <1>1, <1>4, <3>3, <3>4
    <3>6. l \in Int /\ Later(l) = l - 1
      BY <3>1, <3>4, <3>5, LeasesAssumption DEF Left, LongGone, Later
    <3> QED BY <3>2, <3>5, <3>6, LeasesAssumption
  <2>2. lt.fileDirty => alarm' # NoAlarm /\ alarm' <= Retry
    BY <1>1, <1>4, <1>8, LeasesAssumption DEF Timely
  <2> QED BY <1>2, <1>5, <2>1, <2>2 DEF Timely
<1> QED
  BY <1>4, <1>7, <1>8, FPartsNext DEF FInv


(* The files are read again. *)
LEMMA ReloadFiled ==
    ASSUME IInv, NEW t \in Good, NEW cs0 \in Seq(Config), NEW before \in Nat \cup {NoAlarm},
           Reload(t, cs0, before), Filed(t, file)
    PROVE  Filed(lt', file') /\ (Soon(t) => Timely(lt', alarm'))
<1>1. PICK ethers \in EthersFiles, bank \in BankFiles, names \in HostsFiles :
        LET cs == Reconfigured(cs0, ethers, bank, names)
        IN /\ confs' = cs /\ hosts' = names
           /\ \E o \in Files(LeaseUpdateFromConfigs(t, cs, names), before) :
                /\ file' = o.file /\ alarm' = o.alarm
                /\ dns' = LeaseUpdateDns(o.t, dns)
                /\ lt' = Settle(RerunScripts(Entered(o.t)))
  BY DEF Reload
<1> DEFINE cs == Reconfigured(cs0, ethers, bank, names)
           u == LeaseUpdateFromConfigs(t, cs, names)
<1>2. PICK o \in Files(u, before) :
        file' = o.file /\ alarm' = o.alarm /\ lt' = Settle(RerunScripts(Entered(o.t)))
  BY <1>1
<1>3. cs \in Seq(Config) /\ names \in [Addr -> Name \cup {NoName}]
  BY ReconfiguredOK, DhcpAssumption
<1> HIDE DEF cs
<1>4. u \in Good /\ Spared(t, u)
  BY <1>3, LeaseUpdateFromConfigsOK
<1> HIDE DEF u
<1>5. Filed(u, file) /\ (Soon(t) => Soon(u))
  <2>1. Filed(u, file)
    BY <1>4, SparedFiled
  <2>2. Soon(t) => Soon(u)
    BY <1>4 DEF Soon, Spared, Tied
  <2> QED BY <2>1, <2>2
<1>6. Filed(lt', file') /\ (Soon(u) => Timely(lt', alarm'))
  BY <1>2, <1>4, <1>5, WrittenFiled
<1> QED
  BY <1>5, <1>6

(* An alarm that is set is before the ends of all leases. *)
LEMMA HangUpFiled == IInv /\ FInv /\ HangUp => FInv'
<1> SUFFICES ASSUME IInv, FInv, HangUp PROVE FInv'
  OBVIOUS
<1>1. Reload(lt, confs, alarm) /\ due' = due /\ (QuietHangUp => alarm # 0)
  BY DEF HangUp
<1>2. lt \in Good /\ lt \in Table /\ confs \in Seq(Config) /\ alarm \in Nat \cup {NoAlarm}
  BY Parts, GoodTable
<1>3. Filed(lt', file') /\ (Soon(lt) => Timely(lt', alarm'))
  BY <1>1, <1>2, ReloadFiled DEF FInv
<1>4. ASSUME QuietHangUp, Timely(lt, alarm) PROVE Soon(lt)
  <2>1. ASSUME NEW i \in 1..Len(lt.leases), lt.leases[i].left # Never
        PROVE  lt.leases[i].left + Slop > 0
    <3> DEFINE l == lt.leases[i].left
    <3>1. l \in Left
      <4>1. lt.leases[i] \in Lease
        BY <1>2, LeaseAt
      <4> QED BY <4>1 DEF Lease
    <3>2. l # Never /\ alarm # NoAlarm /\ alarm <= l + Slop
      BY <1>4, <2>1 DEF Timely
    <3> HIDE DEF l
    <3>3. l + Slop > 0
      BY <1>1, <1>2, <1>4, <3>1, <3>2, LeasesAssumption DEF Left, LongGone
    <3> QED BY <3>3 DEF l
  <2> QED BY <2>1 DEF Soon
<1> QED
  BY <1>1, <1>3, <1>4, FPartsNext DEF FInv

(* A file that was up to date has each name in one line, so that reading it
   takes no name from a lease.                                              *)
LEMMA FileNamesOnce ==
    ASSUME IInv, FInv, ~lt.fileDirty
    PROVE  NamesOnce(file)
<1>1. Matching(lt.leases, file) /\ lt \in Good /\ FileUnique(file)
  BY Parts DEF FInv, Filed, Readable
<1>2. ASSUME NEW i \in 1..Len(file), NEW j \in 1..Len(file), i # j, file[i].name # NoName,
             file[i].name = file[j].name
      PROVE  FALSE
  <2>1. PICK a \in 1..Len(lt.leases) : SameLine(lt.leases[a], file[i])
    BY <1>1 DEF Matching
  <2>2. PICK b \in 1..Len(lt.leases) : SameLine(lt.leases[b], file[j])
    BY <1>1 DEF Matching
  <2>3. file[i].addr # file[j].addr
    BY <1>1, <1>2 DEF FileUnique
  <2>4. a # b
    BY <2>1, <2>2, <2>3 DEF SameLine, Tied
  <2>5. lt.leases[a].name # lt.leases[b].name
    BY <1>1, <1>2, <2>1, <2>4 DEF Good, Sound, Unique, SameLine
  <2> QED BY <1>2, <2>1, <2>2, <2>5 DEF SameLine
<1> QED
  BY <1>2 DEF NamesOnce

LEMMA StartFiled ==
    ASSUME IInv, FInv, ~lt.fileDirty
    PROVE  Filed(LeaseInit(file), file) /\ Living(LeaseInit(file)) /\ LeaseInit(file) \in Good
<1> DEFINE u == LeaseInit(file)
<1>1. file \in Seq(Stored) /\ Len(file) <= DhcpMax /\ FileUnique(file)
  BY Parts DEF Readable
<1>2. NamesOnce(file)
  BY FileNamesOnce
<1>3. /\ u \in Good
      /\ \A j \in 1..Len(u.leases) :
           /\ ~Expired(u.leases[j])
           /\ \E k \in 1..Len(file) : ReadFrom(u.leases[j], file[k], NamesOnce(file))
      /\ \A k \in 1..Len(file) : ~Expired(file[k]) \/ ~u.fileDirty =>
           \E j \in 1..Len(u.leases) : ReadFrom(u.leases[j], file[k], NamesOnce(file))
  BY ONLY <1>1, LeaseInitOK
<1> HIDE DEF u
<1>4. Filed(u, file)
  BY <1>2, <1>3 DEF Filed, Matching, SameLine, ReadFrom
<1>5. ASSUME NEW j \in 1..Len(u.leases) PROVE u.leases[j].left \in Term
  <2>1. u.leases[j] \in Lease
    BY <1>3, GoodTable, LeaseAt
  <2>2. u.leases[j].left \in Left
    BY <2>1 DEF Lease
  <2> QED BY <1>3, <2>2, NotExpired
<1> QED
  BY <1>3, <1>4, <1>5 DEF Living, u

LEMMA RestartFiled == IInv /\ FInv /\ Restart => FInv'
<1> SUFFICES ASSUME IInv, FInv, Restart PROVE FInv'
  OBVIOUS
<1> DEFINE t == LeaseInit(file)  cs0 == CommandLine
<1>1. ~lt.fileDirty /\ Reload(t, cs0, NoAlarm)
  BY DEF Restart, Starts
<1>2. t \in Good /\ Filed(t, file) /\ Soon(t)
  BY <1>1, StartFiled, LivingSoon
<1>3. cs0 \in Seq(Config) /\ NoAlarm \in Nat \cup {NoAlarm}
  BY HostsAssumption
<1> HIDE DEF t, cs0
<1>4. Filed(lt', file') /\ Timely(lt', alarm')
  BY <1>1, <1>2, <1>3, ReloadFiled
<1> QED
  BY <1>4, FPartsNext

LEMMA FInit == Init => FInv
<1> SUFFICES ASSUME Init PROVE FInv
  OBVIOUS
<1>1. lt = NoLeases /\ file = <<>>
  BY DEF Init
<1> QED
  BY <1>1 DEF FInv, Filed, Matching, Timely, NoLeases

LEMMA FNext == IInv /\ FInv /\ [Next]_vars => FInv'
<1> SUFFICES ASSUME IInv, FInv, [Next]_vars PROVE FInv'
  OBVIOUS
<1>1. CASE UNCHANGED vars
  BY <1>1, FPartsNext DEF vars, FInv
<1>2. CASE Alarm
  BY <1>2, FPartsNext DEF Alarm, FInv
<1>3. CASE ClientStops
  BY <1>3, FPartsNext DEF ClientStops, FInv
<1> QED
  BY <1>1, <1>2, <1>3, SeeksFiled, UsesFiled, ScriptFiled, TickFiled, AlarmEventFiled,
     HangUpFiled, RestartFiled DEF Next

(* Lists of the same lines are one set of lines. *)
LEMMA FileWhole == IInv /\ FInv => (~lt.fileDirty => ToSet(file) = ToSet(Lines(lt)))
<1> SUFFICES ASSUME IInv, FInv, ~lt.fileDirty PROVE ToSet(file) = ToSet(Lines(lt))
  OBVIOUS
<1> DEFINE L == Lines(lt)
<1>1. lt \in Good /\ lt \in Table /\ file \in Seq(Stored)
  BY Parts, GoodTable DEF Readable
<1>2. /\ L \in Seq(Stored) /\ Len(L) = Len(lt.leases)
      /\ \A i \in 1..Len(lt.leases) : SameLine(lt.leases[i], L[i])
  <2>1. L \in Seq(Stored) /\ Len(L) = Len(lt.leases)
    BY <1>1, LinesOK
  <2>2. ASSUME NEW i \in 1..Len(lt.leases) PROVE SameLine(lt.leases[i], L[i])
    <3>1. i \in DOMAIN lt.leases
      BY <1>1 DEF Table
    <3> QED BY <3>1 DEF Lines, SameLine, Tied
  <2> QED BY <2>1, <2>2
<1> HIDE DEF L
<1>3. ASSUME NEW k \in Stored, NEW l \in Stored, NEW e, SameLine(e, k), SameLine(e, l)
      PROVE  k = l
  <2>1. /\ k.addr = l.addr /\ k.hw = l.hw /\ k.clid = l.clid /\ k.name = l.name
        /\ k.left = l.left
    BY <1>3 DEF SameLine, Tied
  <2>2. ASSUME NEW x \in Stored
        PROVE  x = [addr |-> x.addr, hw |-> x.hw, clid |-> x.clid, name |-> x.name,
                    left |-> x.left]
    BY DEF Stored
  <2> QED BY <2>1, <2>2, Zenon
<1>4. ToSet(file) = ToSet(L)
  <2>1. Matching(lt.leases, file)
    BY DEF FInv, Filed
  <2>2. \A j \in 1..Len(file) : file[j] \in Stored
    BY <1>1
  <2>3. \A i \in 1..Len(L) : L[i] \in Stored
    BY <1>2
  <2>4. ASSUME NEW j \in 1..Len(file) PROVE \E i \in 1..Len(L) : file[j] = L[i]
    <3>1. PICK i \in 1..Len(lt.leases) : SameLine(lt.leases[i], file[j])
      BY <2>1 DEF Matching
    <3> QED BY <1>2, <1>3, <2>2, <2>3, <3>1
  <2>5. ASSUME NEW i \in 1..Len(L) PROVE \E j \in 1..Len(file) : L[i] = file[j]
    <3>1. PICK j \in 1..Len(file) : SameLine(lt.leases[i], file[j])
      BY <1>2, <2>1 DEF Matching
    <3> QED BY <1>2, <1>3, <2>2, <2>3, <3>1
  <2>6. DOMAIN file = 1..Len(file) /\ DOMAIN L = 1..Len(L)
    BY <1>1, <1>2
  <2>7. ToSet(file) = {file[j] : j \in 1..Len(file)} /\ ToSet(L) = {L[i] : i \in 1..Len(L)}
    BY <2>6 DEF ToSet
  <2> QED BY <2>4, <2>5, <2>7
<1> QED
  BY <1>4 DEF L

LEMMA FKept == QuietHangUp /\ IInv /\ FInv => FileAndAlarm
<1> SUFFICES ASSUME QuietHangUp, IInv, FInv PROVE FileAndAlarm
  OBVIOUS
<1>1. DOMAIN lt.leases = 1..Len(lt.leases)
  BY Parts, GoodTable DEF Table
<1> QED
  BY <1>1, FileWhole DEF FInv, Timely, FileAndAlarm

-----------------------------------------------------------------------------
(* The theorems about the file and the alarm *)

(* A table that is not known to differ from its file is the file, whatever
   packets, expiries, errors of writing, SIGHUP and restarts come.          *)
THEOREM DhcpFileWhole == Spec => [](~lt.fileDirty => ToSet(file) = ToSet(Lines(lt)))
<1> QED
  BY FNext, FInit, FileWhole, DhcpInv, PTL DEF Spec

(* And SIGALRM will come within Slop of the end of each lease and within Retry
   of an error, where no SIGHUP comes in the second the alarm is due, which
   can cancel it.                                                           *)
THEOREM DhcpFileAndAlarm ==
    ASSUME QuietHangUp
    PROVE  Spec => []FileAndAlarm
<1>1. IInv /\ FInv => FileAndAlarm
  BY FKept
<1> QED
  BY <1>1, FNext, FInit, DhcpInv, PTL DEF Spec

-----------------------------------------------------------------------------
(* The names the DNS has, and what the script knows *)

(* The names the DNS has are those of leases, as they are; but for those that
   have expired when the DNS is to take the names again.                    *)
OfLt(t, d) == \E i \in 1..Len(t.leases) : SameEntry(t.leases[i], d)
Entries(t, ds) ==
    \A d \in ds : d.left = Never \/ d.left > 0 \/ ~t.dnsDirty => OfLt(t, d)

(* The process is never stopped but in order. *)
Scripted == HasScript /\ Stops \subseteq {"term"}

(* The invariants *)
DInv == Entries(lt, dns)
SInv == Scripted => Informed(lt, view)

SameEntries(t, u) ==
    /\ Len(u.leases) = Len(t.leases)
    /\ \A j \in 1..Len(t.leases) : SameEntry(t.leases[j], u.leases[j])

LEMMA EntriesSame ==
    ASSUME NEW t, NEW u, SameEntries(t, u), NEW ds
    PROVE  /\ (\A d \in ds : OfLt(t, d)) => \A d \in ds : OfLt(u, d)
           /\ Entries(t, ds) /\ u.dnsDirty = t.dnsDirty => Entries(u, ds)
BY DEF SameEntries, SameEntry, OfLt, Entries

LEMMA SameEntriesTrans ==
    ASSUME NEW t, NEW u, NEW v, SameEntries(t, u), SameEntries(u, v) PROVE SameEntries(t, v)
BY DEF SameEntries, SameEntry

LEMMA AlikeEntries ==
    ASSUME NEW t, NEW u, Alike(t, u), Spared(t, u) PROVE SameEntries(t, u)
BY DEF Alike, Spared, Tied, SameEntries, SameEntry

(* The names are taken from the leases if there is anything new to take. *)
LEMMA EntriesTold ==
    ASSUME NEW t \in Table, NEW u \in Table, Tells(t, u), NEW ds \in SUBSET DnsNames,
           t.dnsDirty \/ Entries(t, ds)
    PROVE  \A d \in LeaseUpdateDns(u, ds) : OfLt(u, d)
<1>1. CASE u.dnsDirty
  <2>1. ASSUME NEW d \in NamesOf(u) PROVE OfLt(u, d)
    <3>1. PICK l \in ToSet(u.leases) : d = [name |-> l.name, addr |-> l.addr, left |-> l.left]
      BY DEF NamesOf
    <3>2. PICK i \in 1..Len(u.leases) : l = u.leases[i]
      BY DEF ToSet, Table
    <3> QED BY <3>1, <3>2 DEF SameEntry, OfLt
  <2> QED BY <1>1, <2>1 DEF LeaseUpdateDns
<1>2. CASE ~u.dnsDirty
  <2>1. Echoed(t, u) /\ Entries(t, ds) /\ ~t.dnsDirty /\ LeaseUpdateDns(u, ds) = ds
    BY <1>2 DEF Tells, LeaseUpdateDns
  <2>2. ASSUME NEW d \in ds PROVE OfLt(u, d)
    <3>1. PICK i \in 1..Len(t.leases) : SameEntry(t.leases[i], d)
      BY <2>1, <2>2 DEF Entries, OfLt
    <3>2. t.leases[i].name # NoName
      BY <3>1, LeasesAssumption DEF DnsNames, SameEntry
    <3>3. PICK j \in 1..Len(u.leases) : SameEntry(t.leases[i], u.leases[j])
      BY <2>1, <3>2 DEF Echoed
    <3> QED BY <3>1, <3>3 DEF SameEntry, OfLt
  <2> QED BY <2>1, <2>2
<1> QED
  BY <1>1, <1>2

(* Writing the file leaves the leases alone. *)
LEMMA FilesTold ==
    ASSUME NEW t \in Table, NEW before, NEW o \in Files(t, before)
    PROVE  o.t \in Table /\ o.t.leases = t.leases /\ o.t.old = t.old
           /\ o.t.dnsDirty = t.dnsDirty
<1> DEFINE clean == [t EXCEPT !.fileDirty = FALSE]
<1>1. /\ clean \in Table /\ clean.leases = t.leases /\ clean.old = t.old
      /\ clean.dnsDirty = t.dnsDirty
  BY DEF Table
<1>2. o.t = clean \/ o.t = t
  <2> DEFINE L == Lines(t)
             failed == NextAlarm(t, before, TRUE)
             fine == NextAlarm(t, before, FALSE)
             stopped(g) == [t |-> t, file |-> g, alarm |-> failed]
             done == [t |-> clean, file |-> IF t.fileDirty THEN L ELSE file, alarm |-> fine]
  <2>1. o = done \/ \E g : o = stopped(g)
    BY DEF Files, LeaseUpdateFile
  <2> HIDE DEF L, failed, fine, clean
  <2> QED BY <2>1
<1> HIDE DEF clean
<1> QED
  BY <1>1, <1>2

(* All leases are announced again. *)
LEMMA RerunAnnounces ==
    ASSUME NEW t \in Table
    PROVE  LET u == RerunScripts(t) IN
           /\ u.old = t.old /\ Len(u.leases) = Len(t.leases)
           /\ \A i \in 1..Len(t.leases) : Announces(u.leases[i])
<1> DEFINE ls == [i \in DOMAIN t.leases |-> [t.leases[i] EXCEPT !.changed = TRUE]]
           u == RerunScripts(t)
<1>1. u = [t EXCEPT !.leases = ls]
  BY DEF RerunScripts
<1>2. Len(ls) = Len(t.leases) /\ \A i \in 1..Len(t.leases) : ls[i].changed
  <2>1. /\ DOMAIN t.leases = 1..Len(t.leases) /\ Len(t.leases) \in Nat
        /\ \A i \in 1..Len(t.leases) : t.leases[i] \in Lease
    BY DEF Table
  <2>2. ASSUME NEW k \in Lease PROVE [k EXCEPT !.changed = TRUE].changed
    BY DEF Lease
  <2> QED BY <2>1, <2>2
<1> HIDE DEF ls, u
<1>3. u.old = t.old /\ u.leases = ls
  BY <1>1 DEF Table
<1> QED
  BY <1>2, <1>3 DEF Announces, u

(* What the main loop does after that leaves all there is to tell to a script. *)
LEMMA SettleTold ==
    ASSUME NEW t \in Table, NEW u,
           u \in {Settle(Entered(t)), Settle(t), Settle(RerunScripts(Entered(t)))}
    PROVE  SameEntries(t, u) /\ (HasScript => HeedsAll(t, u))
<1>1. ASSUME NEW v \in Table PROVE SameEntries(v, Settle(v))
  <2>1. SameEntries(v, Drained(v)) /\ SameEntries(v, v)
    BY DrainedOK, AlikeEntries DEF SameEntries, SameEntry
  <2> QED BY <2>1 DEF Settle
<1> DEFINE e == Entered(t)  r == RerunScripts(e)
<1>2. e \in Table /\ e.leases = t.leases /\ e.old = t.old
  BY DEF Entered, Table
<1> HIDE DEF e
<1>3. r \in Table /\ SameEntries(e, r)
  BY <1>2, RerunScriptsOK, AlikeEntries
<1>4. r.old = e.old /\ Len(r.leases) = Len(e.leases)
      /\ \A i \in 1..Len(e.leases) : Announces(r.leases[i]) /\ r.leases[i].addr = e.leases[i].addr
  BY <1>2, <1>3, RerunAnnounces DEF SameEntries, SameEntry
<1> HIDE DEF r
<1>5. HeedsAll(t, t) /\ HeedsAll(t, e) /\ HeedsAll(t, r)
  BY <1>2, <1>4 DEF HeedsAll, Heeds, Gone
<1>6. HasScript => \A v : Settle(v) = v
  BY DEF Settle
<1>7. SameEntries(t, e)
  BY <1>2 DEF SameEntries, SameEntry
<1>8. SameEntries(t, Settle(t)) /\ SameEntries(t, Settle(e)) /\ SameEntries(t, Settle(r))
  BY <1>1, <1>2, <1>3, <1>7, SameEntriesTrans
<1>9. u \in {Settle(e), Settle(t), Settle(r)}
  BY DEF e, r
<1> QED
  BY <1>5, <1>6, <1>8, <1>9

(* A change of the table that is written and told. *)
LEMMA ChangeTold ==
    ASSUME NEW t \in Good, NEW u \in Good, Tells(t, u), NEW ds \in SUBSET DnsNames,
           t.dnsDirty \/ Entries(t, ds), NEW before, NEW o \in Files(u, before), NEW w,
           w \in {Settle(Entered(o.t)), Settle(RerunScripts(Entered(o.t)))}
    PROVE  Entries(w, LeaseUpdateDns(o.t, ds))
<1>1. t \in Table /\ u \in Table
  BY GoodTable
<1>2. o.t \in Table /\ o.t.leases = u.leases /\ o.t.dnsDirty = u.dnsDirty
  BY <1>1, FilesTold
<1>3. \A d \in LeaseUpdateDns(u, ds) : OfLt(u, d)
  BY <1>1, EntriesTold
<1>4. LeaseUpdateDns(o.t, ds) = LeaseUpdateDns(u, ds)
  BY <1>2 DEF LeaseUpdateDns, NamesOf
<1>5. SameEntries(o.t, w)
  BY <1>2, SettleTold
<1>6. SameEntries(u, w)
  BY <1>2, <1>5 DEF SameEntries
<1> QED
  BY <1>3, <1>4, <1>6, EntriesSame DEF Entries

LEMMA InformedSettled ==
    ASSUME NEW u \in Good, NEW v, Informed(u, v), HasScript, NEW before, NEW o \in Files(u, before),
           NEW w, w \in {Settle(Entered(o.t)), Settle(o.t), Settle(RerunScripts(Entered(o.t)))}
    PROVE  Informed(w, v)
<1>1. o.t \in Table /\ o.t.leases = u.leases /\ o.t.old = u.old
  BY GoodTable, FilesTold
<1>2. HeedsAll(o.t, w)
  BY <1>1, SettleTold
<1>3. HeedsAll(u, w)
  BY <1>1, <1>2 DEF HeedsAll, Gone
<1> QED
  BY <1>3, HeedsEach DEF Informed

LEMMA TellsInformed ==
    ASSUME NEW t, NEW u, Tells(t, u), NEW v, Informed(t, v) PROVE Informed(u, v)
BY DEF Tells, Informed

(* Each step *)

LEMMA PacketTold ==
    ASSUME IInv, DInv, SInv, NEW m \in Messages, NEW busy, DhcpPacket(m, busy)
    PROVE  DInv' /\ SInv'
<1> DEFINE w == Working  r == DhcpReply(w, m, busy)
<1>1. Wellformed(m) /\ m.type \in Kinds
  BY MessageWellformed
<1>2. /\ w \in State /\ hosts \in [Addr -> Name \cup {NoName}] /\ dns \in SUBSET DnsNames
      /\ lt \in Good
  BY WorkingOK, Parts DEF Hosts
<1>3. Noted(lt, w.t)
  BY <1>2, PruneNoted, ExpiredGentle
<1> HIDE DEF w
<1>4. Sane(r) /\ Notes(w, r)
  BY ONLY <1>1, <1>2, DhcpReplyOK, ReplyNotes
<1>5. Replied(m, r)
  BY DEF DhcpPacket, w
<1> HIDE DEF r
<1> DEFINE t == r.s.t
<1>6. t \in Good /\ Noted(w.t, t)
  BY <1>4 DEF Sane, State, Notes
<1>7. PICK o \in Files(t, alarm) : lt' = Settle(Entered(o.t)) /\ dns' = LeaseUpdateDns(o.t, dns)
  BY <1>5 DEF Replied
<1>8. view' = view
  BY <1>5 DEF Replied
<1> HIDE DEF t
<1>9. Tells(lt, t)
  BY <1>3, <1>6, NotedTrans DEF Noted
<1>10. Entries(lt', dns')
  BY <1>2, <1>6, <1>7, <1>9, ChangeTold DEF DInv
<1>11. Scripted => Informed(lt', view')
  BY <1>6, <1>7, <1>8, <1>9, TellsInformed, InformedSettled DEF SInv, Scripted
<1> QED
  BY <1>10, <1>11 DEF DInv, SInv

LEMMA SeeksTold == IInv /\ DInv /\ SInv /\ ClientSeeks => DInv' /\ SInv'
<1> SUFFICES ASSUME IInv, DInv, SInv, ClientSeeks PROVE DInv' /\ SInv'
  OBVIOUS
<1>1. PICK c \in Clients : \E m \in Seeks(c) : \E busy : DhcpPacket(m, busy)
  BY DEF ClientSeeks
<1>2. PICK m \in Seeks(c) : \E busy : DhcpPacket(m, busy)
  BY <1>1
<1>3. m \in Messages
  BY <1>1, SeeksOK
<1> QED
  BY <1>2, <1>3, PacketTold

LEMMA UsesTold == IInv /\ DInv /\ SInv /\ ClientUses => DInv' /\ SInv'
<1> SUFFICES ASSUME IInv, DInv, SInv, ClientUses PROVE DInv' /\ SInv'
  OBVIOUS
<1>1. PICK c \in Clients : held[c.hw] # Nowhere /\ \E m \in Uses(c) : DhcpPacket(m, {})
  BY DEF ClientUses
<1>2. PICK m \in Uses(c) : DhcpPacket(m, {})
  BY <1>1
<1>3. m \in Messages
  BY <1>1, Parts, UsesOK
<1> QED
  BY <1>2, <1>3, PacketTold

(* The DNS is not told, but the names of leases that expire are expired there. *)
LEMMA AlarmEventTold == IInv /\ DInv /\ SInv /\ AlarmEvent => DInv' /\ SInv'
<1> SUFFICES ASSUME IInv, DInv, SInv, AlarmEvent PROVE DInv' /\ SInv'
  OBVIOUS
<1> DEFINE t == LeasePrune(lt, 0)
<1>1. lt \in Good /\ lt \in Sound /\ lt \in Table /\ dns \in SUBSET DnsNames
  BY Parts, GoodTable
<1>2. t \in Good /\ Noted(lt, t)
  BY <1>1, ExpiredGentle, PruneNoted
<1>3. \A k \in 1..Len(lt.leases) : k # 0 /\ ~Expired(lt.leases[k]) =>
        \E j \in 1..Len(t.leases) : t.leases[j] = lt.leases[k]
  BY <1>1, LeasePruneOK
<1>4. PICK o \in Files(t, alarm) : lt' = Settle(o.t)
  BY DEF AlarmEvent
<1>5. dns' = dns /\ view' = view
  BY DEF AlarmEvent
<1> HIDE DEF t
<1>6. Entries(t, dns)
  <2> SUFFICES ASSUME NEW d \in dns, d.left = Never \/ d.left > 0 \/ ~t.dnsDirty
               PROVE  OfLt(t, d)
    BY DEF Entries
  <2>1. CASE ~t.dnsDirty
    BY <1>1, <1>2, <2>1, GoodTable, EntriesTold DEF DInv, Noted, LeaseUpdateDns
  <2>2. CASE d.left = Never \/ d.left > 0
    <3>1. PICK k \in 1..Len(lt.leases) : SameEntry(lt.leases[k], d)
      BY <2>2 DEF DInv, Entries, OfLt
    <3>2. k # 0 /\ d.left \in Left
      BY <1>1 DEF DnsNames
    <3>3. ~Expired(lt.leases[k])
      BY <2>2, <3>1, <3>2, LeasesAssumption DEF Expired, SameEntry, Left, LongGone
    <3> QED BY <1>3, <3>1, <3>2, <3>3 DEF OfLt
  <2> QED BY <2>1, <2>2
<1>7. Entries(lt', dns')
  <2>1. t \in Table
    BY <1>2, GoodTable
  <2>2. o.t \in Table /\ o.t.leases = t.leases /\ o.t.dnsDirty = t.dnsDirty
    BY <1>4, <2>1, FilesTold
  <2>3. SameEntries(o.t, lt')
    BY <1>4, <2>2, SettleTold
  <2>4. SameEntries(t, lt')
    BY <2>2, <2>3 DEF SameEntries
  <2>5. lt'.dnsDirty = t.dnsDirty
    BY <1>4, <2>2 DEF Settle, Drained, Table
  <2> QED BY <1>5, <1>6, <2>4, <2>5, EntriesSame
<1>8. Scripted => Informed(lt', view')
  BY <1>2, <1>4, <1>5, TellsInformed, InformedSettled DEF SInv, Scripted, Noted
<1> QED
  BY <1>7, <1>8 DEF DInv, SInv

LEMMA TickTold == IInv /\ DInv /\ SInv /\ Tick => DInv' /\ SInv'
<1> SUFFICES ASSUME IInv, DInv, SInv, Tick PROVE DInv' /\ SInv'
  OBVIOUS
<1>1. /\ lt \in Table /\ lt.leases \in Seq(Lease) /\ lt.old \in Seq(Lease)
      /\ dns \in SUBSET DnsNames
  BY Parts, GoodTable DEF Table
<1> DEFINE ls == Aged(lt.leases)  os == Aged(lt.old)
<1>2. /\ Len(ls) = Len(lt.leases)
      /\ \A i \in 1..Len(lt.leases) :
           /\ ls[i].addr = lt.leases[i].addr /\ ls[i].name = lt.leases[i].name
           /\ ls[i].left = Later(lt.leases[i].left)
  BY <1>1, AgedLeases
<1>3. /\ Len(os) = Len(lt.old)
      /\ \A i \in 1..Len(lt.old) : os[i].addr = lt.old[i].addr
  BY <1>1, AgedLeases
<1>4. \A i \in 1..Len(lt.leases) : Heeds(lt.leases[i], ls[i])
  <2>1. ASSUME NEW k \in Lease, NEW left PROVE Heeds(k, [k EXCEPT !.left = left])
    BY DEF Lease, Heeds, Announces
  <2> SUFFICES ASSUME NEW i \in 1..Len(lt.leases) PROVE Heeds(lt.leases[i], ls[i])
    OBVIOUS
  <2> DEFINE k == lt.leases[i]  left == Later(k.left)
  <2>2. k \in Lease
    BY <1>1
  <2>3. ls[i] = [k EXCEPT !.left = left]
    BY <1>1 DEF Aged
  <2> HIDE DEF ls, k, left
  <2>4. Heeds(k, [k EXCEPT !.left = left])
    BY <2>1, <2>2
  <2> QED BY <2>3, <2>4 DEF k
<1>5. lt' = [lt EXCEPT !.leases = ls, !.old = os] /\ view' = view
      /\ dns' = {[d EXCEPT !.left = Later(@)] : d \in dns}
  BY DEF Tick
<1>6. lt'.leases = ls /\ lt'.old = os /\ lt'.dnsDirty = lt.dnsDirty
  BY <1>1, <1>5 DEF Table
<1> HIDE DEF ls, os
<1>7. Entries(lt', dns')
  <2> SUFFICES ASSUME NEW e \in dns', e.left = Never \/ e.left > 0 \/ ~lt.dnsDirty
               PROVE  \E i \in 1..Len(ls) : SameEntry(ls[i], e)
    BY <1>6 DEF Entries, OfLt
  <2>1. PICK d \in dns : e = [d EXCEPT !.left = Later(d.left)]
    BY <1>5
  <2>2. d \in DnsNames
    BY <1>1
  <2>3. d.left \in Left /\ e.addr = d.addr /\ e.name = d.name /\ e.left = Later(d.left)
    BY <2>1, <2>2 DEF DnsNames
  <2>4. d.left = Never \/ d.left > 0 \/ ~lt.dnsDirty
    BY <2>3, LeasesAssumption DEF Left, LongGone, Later
  <2>5. PICK i \in 1..Len(lt.leases) : SameEntry(lt.leases[i], d)
    BY <2>4 DEF DInv, Entries, OfLt
  <2> QED BY <1>2, <2>3, <2>5 DEF SameEntry
<1>8. HeedsAll(lt, lt')
  BY <1>2, <1>3, <1>4, <1>6 DEF HeedsAll, Gone
<1>9. Scripted => Informed(lt', view')
  BY <1>5, <1>8, HeedsEach DEF SInv, Informed
<1> QED
  BY <1>7, <1>9 DEF DInv, SInv

(* When the files are read again all leases are announced again. *)
LEMMA ReloadTold ==
    ASSUME IInv, NEW t \in Good, NEW cs0 \in Seq(Config), NEW before \in Nat \cup {NoAlarm},
           Reload(t, cs0, before), t.dnsDirty \/ Entries(t, dns)
    PROVE  /\ Entries(lt', dns')
           /\ HasScript => \A v : Clear(t, v) => Informed(lt', v)
<1>1. PICK ethers \in EthersFiles, bank \in BankFiles, names \in HostsFiles :
        LET cs == Reconfigured(cs0, ethers, bank, names)
        IN /\ confs' = cs /\ hosts' = names
           /\ \E o \in Files(LeaseUpdateFromConfigs(t, cs, names), before) :
                /\ file' = o.file /\ alarm' = o.alarm
                /\ dns' = LeaseUpdateDns(o.t, dns)
                /\ lt' = Settle(RerunScripts(Entered(o.t)))
  BY DEF Reload
<1> DEFINE cs == Reconfigured(cs0, ethers, bank, names)
           u == LeaseUpdateFromConfigs(t, cs, names)
<1>2. PICK o \in Files(u, before) :
        dns' = LeaseUpdateDns(o.t, dns) /\ lt' = Settle(RerunScripts(Entered(o.t)))
  BY <1>1
<1>3. cs \in Seq(Config) /\ names \in [Addr -> Name \cup {NoName}]
  BY ReconfiguredOK, DhcpAssumption
<1> HIDE DEF cs
<1>4. u \in Good /\ Tells(t, u)
  BY <1>3, LeaseUpdateFromConfigsOK
<1> HIDE DEF u
<1>5. dns \in SUBSET DnsNames /\ u \in Table
  BY <1>4, Parts, GoodTable
<1>6. Entries(lt', dns')
  BY <1>2, <1>4, <1>5, ChangeTold
<1>7. ASSUME HasScript, NEW v, Clear(t, v) PROVE Informed(lt', v)
  <2> DEFINE e == Entered(o.t)
  <2>1. o.t \in Table /\ o.t.leases = u.leases /\ o.t.old = u.old
    BY <1>2, <1>5, FilesTold
  <2>2. HeedsAll(o.t, lt')
    BY <1>2, <1>7, <2>1, SettleTold
  <2>3. HeedsAll(u, lt')
    BY <2>1, <2>2 DEF HeedsAll, Gone
  <2>4. Clear(lt', v)
    BY <1>4, <1>7, <2>3, HeedsEach DEF Tells
  <2>5. e \in Table /\ e.leases = u.leases
    BY <2>1 DEF Entered, Table
  <2>6. lt' = RerunScripts(e)
    BY <1>2, <1>7 DEF Settle
  <2> HIDE DEF e
  <2>7. \A i \in 1..Len(lt'.leases) : Announces(lt'.leases[i])
    BY <2>5, <2>6, RerunAnnounces
  <2> QED BY <2>4, <2>7 DEF Informed, Heeded
<1> QED
  BY <1>6, <1>7

LEMMA HangUpTold == IInv /\ DInv /\ SInv /\ HangUp => DInv' /\ SInv'
<1> SUFFICES ASSUME IInv, DInv, SInv, HangUp PROVE DInv' /\ SInv'
  OBVIOUS
<1>1. Reload(lt, confs, alarm) /\ view' = view
  BY DEF HangUp
<1>2. lt \in Good /\ confs \in Seq(Config) /\ alarm \in Nat \cup {NoAlarm}
  BY Parts
<1>3. Entries(lt', dns') /\ (HasScript => \A v : Clear(lt, v) => Informed(lt', v))
  BY <1>1, <1>2, ReloadTold DEF DInv
<1> QED
  BY <1>1, <1>3 DEF DInv, SInv, Informed, Scripted

(* A message tells the script of one address. *)
LEMMA ShownAt ==
    ASSUME NEW v \in Views, NEW e \in Events
    PROVE  LET w == Shown(v, e)  b == e.addr IN
           /\ b \in Addr /\ \A a \in Addr : a # b => w[a] = v[a]
           /\ e.action = "del" => w[b] = Unknown
           /\ e.action = "old_hostname" => w[b].hw = v[b].hw /\ w[b].name = NoName
           /\ e.action \notin {"del", "old_hostname"} => w[b].hw = e.hw /\ w[b].name = e.name
<1> DEFINE b == e.addr  k == v[b]
           told == IF e.action = "del" THEN Unknown
                   ELSE IF e.action = "old_hostname" THEN [k EXCEPT !.name = NoName]
                   ELSE [hw |-> e.hw, name |-> e.name]
<1>1. b \in Addr /\ k \in [hw : Hw \cup {NoHw}, name : Name \cup {NoName}]
  BY DEF Events, Views
<1>2. Shown(v, e) = [v EXCEPT ![b] = told]
  BY DEF Shown
<1>3. /\ e.action = "del" => told = Unknown
      /\ e.action = "old_hostname" => told.hw = k.hw /\ told.name = NoName
      /\ e.action \notin {"del", "old_hostname"} => told.hw = e.hw /\ told.name = e.name
  <2> HIDE DEF b, k
  <2> QED BY <1>1
<1>4. DOMAIN v = Addr
  BY DEF Views
<1> HIDE DEF told
<1> QED
  BY <1>1, <1>2, <1>3, <1>4

(* After it the script knows of the leases of another address what it knew. *)
LEMMA RunFormer ==
    ASSUME NEW t \in Table, t.old # <<>>, NEW v \in Views, Informed(t, v)
    PROVE  Informed(DoScriptRun(t), Shown(v, ScriptEvent(t)))
<1> DEFINE l == t.old[1]  e == ScriptEvent(t)  w == Shown(v, e)  u == DoScriptRun(t)
           k == [l EXCEPT !.oldName = NoName]
           os == [t.old EXCEPT ![1] = k]
           n == Len(t.old)
<1>1. n \in Nat /\ n > 0 /\ t.old \in Seq(Lease) /\ l \in Lease /\ l = Head(t.old)
  BY DEF Table
<1>2. e \in Events
  BY ScriptEventOK DEF NothingToRun
<1>3. e = IF l.oldName # NoName THEN Event("old_hostname", l, l.oldName)
          ELSE Event("del", l, l.name)
  BY <1>1 DEF ScriptEvent
<1>4. e.addr = l.addr /\ e.action = IF l.oldName # NoName THEN "old_hostname" ELSE "del"
  BY <1>3 DEF Event
<1> HIDE DEF e
<1>5. /\ l.addr \in Addr /\ \A a \in Addr : a # l.addr => w[a] = v[a]
      /\ e.action = "del" => w[l.addr] = Unknown
  BY <1>2, <1>4, ShownAt
<1> HIDE DEF w
<1>6. u.leases = t.leases
      /\ u.old = IF l.oldName # NoName THEN os ELSE Tail(t.old)
  <2>1. [t EXCEPT !.old[1].oldName = NoName] = [t EXCEPT !.old = os]
    BY <1>1 DEF Table
  <2> HIDE DEF os
  <2>2. u = IF l.oldName # NoName THEN [t EXCEPT !.old = os] ELSE [t EXCEPT !.old = Tail(t.old)]
    BY <1>1, <2>1 DEF DoScriptRun
  <2> HIDE DEF u, l
  <2> QED BY <2>2 DEF Table
<1> HIDE DEF u
<1>7. Gone(t, l.addr)
  BY <1>1 DEF Gone
<1>8. ASSUME NEW a PROVE Gone(u, a) => Gone(t, a)
  <2>1. CASE l.oldName # NoName
    <3>1. k.addr = l.addr
      <4> HIDE DEF l
      <4> QED BY <1>1 DEF Lease
    <3> HIDE DEF k
    <3>2. Len(os) = n /\ \A j \in 1..n : os[j].addr = t.old[j].addr
      BY <1>1, <3>1
    <3> QED BY <1>6, <2>1, <3>2 DEF Gone
  <2>2. CASE l.oldName = NoName
    <3>1. ASSUME NEW j \in 1..Len(Tail(t.old))
          PROVE  j + 1 \in 1..n /\ Tail(t.old)[j] = t.old[j + 1]
      BY <1>1
    <3> QED BY <1>6, <2>2, <3>1 DEF Gone
  <2> QED BY <2>1, <2>2
<1>9. ASSUME NEW a, Gone(t, a) PROVE Gone(u, a) \/ (a = l.addr /\ e.action = "del")
  <2>1. CASE l.oldName # NoName
    <3>1. k.addr = l.addr
      <4> HIDE DEF l
      <4> QED BY <1>1 DEF Lease
    <3> HIDE DEF k
    <3>2. Len(os) = n /\ \A j \in 1..n : os[j].addr = t.old[j].addr
      BY <1>1, <3>1
    <3> QED BY <1>6, <1>9, <2>1, <3>2 DEF Gone
  <2>2. CASE l.oldName = NoName
    <3>1. PICK j \in 1..n : t.old[j].addr = a
      BY <1>9 DEF Gone
    <3>2. j = 1 \/ (j - 1 \in 1..Len(Tail(t.old)) /\ Tail(t.old)[j - 1] = t.old[j])
      BY <1>1
    <3> QED BY <1>4, <1>6, <2>2, <3>1, <3>2 DEF Gone
  <2> QED BY <2>1, <2>2
<1> HIDE DEF l, os
<1>10. Heeded(u, w)
  <2> SUFFICES ASSUME NEW i \in 1..Len(t.leases), ~Announces(t.leases[i])
               PROVE  Reported(t.leases[i], w) /\ ~Gone(u, t.leases[i].addr)
    BY <1>6 DEF Heeded
  <2>1. Reported(t.leases[i], v) /\ ~Gone(t, t.leases[i].addr)
    BY DEF Informed, Heeded
  <2>2. t.leases[i].addr \in Addr
    BY LeaseAt DEF Lease
  <2>3. w[t.leases[i].addr] = v[t.leases[i].addr]
    BY <1>5, <1>7, <2>1, <2>2
  <2> QED BY <1>8, <2>1, <2>3 DEF Reported
<1>11. Clear(u, w)
  BY <1>5, <1>6, <1>7, <1>9 DEF Informed, Clear
<1> QED
  BY <1>10, <1>11 DEF Informed, u, w, e

(* With nothing to run no lease is to be announced, nor a name it lost. *)
LEMMA NothingSaid ==
    ASSUME NEW t \in Table, NothingToRun(t)
    PROVE  \A j \in 1..Len(t.leases) : ~Announces(t.leases[j]) /\ t.leases[j].oldName = NoName
<1> DEFINE n == Len(t.leases)
           S == {j \in 1..n : t.leases[j].oldName # NoName}
           T == {j \in 1..n : t.leases[j].new \/ t.leases[j].changed}
           r == Renamed(t)  a == Announced(t)
<1>1. n \in Nat /\ S \in SUBSET (1..n) /\ T \in SUBSET (1..n)
  BY DEF Table
<1>2. r = (IF S # {} THEN Min(S) ELSE 0) /\ a = (IF T # {} THEN Min(T) ELSE 0)
  BY DEF Renamed, Announced, SelectInSeq
<1>3. r = 0 /\ a = 0
  BY DEF NothingToRun
<1> HIDE DEF r, a
<1>4. S = {} /\ T = {}
  <2> HIDE DEF S, T, n
  <2> QED BY <1>1, <1>2, <1>3, FirstPlace
<1> QED
  BY <1>4 DEF Announces

(* The script is told of one lease, and no former ones are left. *)
OneTold(t, u, i, v, w) ==
    /\ t.old = <<>> /\ u.old = <<>>
    /\ Len(u.leases) = Len(t.leases)
    /\ \A j \in 1..Len(t.leases) : u.leases[j].addr = t.leases[j].addr
                                   /\ (j # i => u.leases[j] = t.leases[j])
    /\ \A a \in Addr : a # t.leases[i].addr => w[a] = v[a]
    /\ Announces(u.leases[i]) \/ Reported(u.leases[i], w)

LEMMA RunLease ==
    ASSUME NEW t \in Sound, NEW u, NEW i \in 1..Len(t.leases), NEW v, NEW w,
           Informed(t, v), OneTold(t, u, i, v, w)
    PROVE  Informed(u, w)
<1>1. \A a : ~Gone(t, a) /\ ~Gone(u, a)
  BY DEF Gone, OneTold
<1>2. Heeded(u, w)
  <2> SUFFICES ASSUME NEW j \in 1..Len(t.leases), j # i, ~Announces(t.leases[j])
               PROVE  Reported(t.leases[j], w)
    BY <1>1 DEF Heeded, OneTold
  <2>1. Reported(t.leases[j], v)
    BY DEF Informed, Heeded
  <2>2. t.leases[j].addr \in Addr
    BY LeaseAt DEF Lease, Sound
  <2>3. t.leases[j].addr # t.leases[i].addr
    BY DEF Sound, Unique
  <2> QED BY <2>1, <2>2, <2>3 DEF Reported, OneTold
<1>3. Clear(u, w)
  BY <1>1 DEF Informed, Clear, OneTold
<1> QED
  BY <1>2, <1>3 DEF Informed

LEMMA RunInforms ==
    ASSUME NEW t \in Sound, ~NothingToRun(t), NEW v \in Views, Informed(t, v)
    PROVE  Informed(DoScriptRun(t), Shown(v, ScriptEvent(t)))
<1> DEFINE n == Len(t.leases)
           S == {j \in 1..n : t.leases[j].oldName # NoName}
           T == {j \in 1..n : t.leases[j].new \/ t.leases[j].changed}
           e == ScriptEvent(t)  w == Shown(v, e)  u == DoScriptRun(t)
<1>1. n \in Nat /\ S \in SUBSET (1..n) /\ T \in SUBSET (1..n) /\ t \in Table /\ Unique(t)
  BY DEF Table, Sound
<1>2. Renamed(t) = (IF S # {} THEN Min(S) ELSE 0) /\ Announced(t) = (IF T # {} THEN Min(T) ELSE 0)
  BY DEF Renamed, Announced, SelectInSeq
<1>3. /\ Renamed(t) # 0 => Renamed(t) \in 1..n
      /\ Renamed(t) = 0 => S = {}
      /\ Renamed(t) # 0 => Renamed(t) \in S
  <2> HIDE DEF S, T, n
  <2> QED BY <1>1, <1>2, FirstPlace
<1>4. Announced(t) # 0 => Announced(t) \in 1..n
  <2> HIDE DEF S, T, n
  <2> QED BY <1>1, <1>2, FirstPlace
<1>5. e \in Events /\ w = Shown(v, e)
  BY <1>1, ScriptEventOK
<1>6. CASE t.old # <<>>
  BY <1>1, <1>6, RunFormer
<1>7. CASE t.old = <<>> /\ Renamed(t) # 0
  <2> DEFINE i == Renamed(t)  k == t.leases[i]
             l == [k EXCEPT !.oldName = NoName]
             ls == [t.leases EXCEPT ![i] = l]
  <2>1. i \in 1..n /\ k \in Lease /\ k.oldName # NoName
    BY <1>1, <1>3, <1>7, LeaseAt
  <2>2. u = [t EXCEPT !.leases = ls]
    <3>1. u = [t EXCEPT !.leases[i].oldName = NoName]
      BY <1>7 DEF DoScriptRun
    <3> QED BY <1>1, <2>1, <3>1 DEF Table
  <2>3. e.addr = k.addr /\ e.action = "old_hostname"
    BY <1>7 DEF ScriptEvent, Event
  <2> HIDE DEF e
  <2>4. /\ \A a \in Addr : a # k.addr => w[a] = v[a]
        /\ w[k.addr].hw = v[k.addr].hw /\ w[k.addr].name = NoName
    BY <1>5, <2>3, ShownAt
  <2> HIDE DEF w, k, i
  <2>5. /\ l \in Lease /\ l.addr = k.addr /\ l.oldName = NoName
        /\ l.name = k.name /\ l.hw = k.hw /\ (Announces(l) <=> Announces(k))
    BY <2>1 DEF Lease, Announces
  <2> HIDE DEF l
  <2>6. /\ Len(ls) = n
        /\ \A j \in 1..n : ls[j] = IF j = i THEN l ELSE t.leases[j]
    BY <1>1, <2>1, <2>5, LeaseSet DEF k
  <2> HIDE DEF u, ls, S, T
  <2>7. u.leases = ls /\ u.old = <<>>
    BY <1>1, <1>7, <2>2 DEF Table
  <2>8. Announces(l) \/ Reported(l, w)
    <3>1. Announces(k) \/ Reported(k, v)
      BY <2>1 DEF Informed, Heeded, k
    <3> QED BY <2>1, <2>4, <2>5, <3>1 DEF Reported
  <2>9. \A j \in 1..n : u.leases[j].addr = t.leases[j].addr
                        /\ (j # i => u.leases[j] = t.leases[j])
    BY <2>5, <2>6, <2>7 DEF k
  <2>10. \A a \in Addr : a # t.leases[i].addr => w[a] = v[a]
    BY <2>4 DEF k
  <2>11. Len(u.leases) = n /\ (Announces(u.leases[i]) \/ Reported(u.leases[i], w))
    BY <2>1, <2>6, <2>7, <2>8
  <2>12. Informed(t, v) /\ u.old = <<>>
    BY <2>7
  <2>13. Informed(u, w)
    <3>1. /\ i \in 1..Len(t.leases) /\ t.old = <<>> /\ Len(u.leases) = Len(t.leases)
          /\ \A j \in 1..Len(t.leases) : u.leases[j].addr = t.leases[j].addr
                                           /\ (j # i => u.leases[j] = t.leases[j])
      BY <1>7, <2>1, <2>9, <2>11
    <3>2. Announces(u.leases[i]) \/ Reported(u.leases[i], w)
      BY <2>11
    <3>3. OneTold(t, u, i, v, w)
      BY <2>10, <2>12, <3>1, <3>2 DEF OneTold
    <3> QED BY <3>1, <3>3, RunLease
  <2> QED BY <2>13 DEF u, w, e
<1>8. CASE t.old = <<>> /\ Renamed(t) = 0
  <2> DEFINE i == Announced(t)  k == t.leases[i]
             l == [k EXCEPT !.new = FALSE, !.changed = FALSE]
             ls == [t.leases EXCEPT ![i] = l]
  <2>1. i \in 1..n /\ k \in Lease /\ k.oldName = NoName
    BY <1>1, <1>3, <1>4, <1>8, LeaseAt DEF NothingToRun
  <2>2. u = [t EXCEPT !.leases = ls]
    <3>1. u = [t EXCEPT !.leases[i].new = FALSE, !.leases[i].changed = FALSE]
      BY <1>8 DEF DoScriptRun
    <3> HIDE DEF i
    <3>2. t = [t EXCEPT !.leases = t.leases] /\ i \in DOMAIN t.leases
      BY <1>1, <2>1 DEF Table
    <3> QED BY <3>1, <3>2
  <2>3. /\ e.addr = k.addr /\ e.hw = k.hw /\ e.name = k.name
        /\ e.action \notin {"del", "old_hostname"}
    BY <1>8 DEF ScriptEvent, Event
  <2> HIDE DEF e
  <2>4. /\ \A a \in Addr : a # k.addr => w[a] = v[a]
        /\ w[k.addr].hw = k.hw /\ w[k.addr].name = k.name
    BY <1>5, <2>3, ShownAt
  <2> HIDE DEF w, k, i
  <2>5. /\ l \in Lease /\ l.addr = k.addr /\ l.oldName = k.oldName
        /\ l.name = k.name /\ l.hw = k.hw
    BY <2>1 DEF Lease
  <2> HIDE DEF l
  <2>6. /\ Len(ls) = n
        /\ \A j \in 1..n : ls[j] = IF j = i THEN l ELSE t.leases[j]
    BY <1>1, <2>1, <2>5, LeaseSet DEF k
  <2> HIDE DEF u, ls, S, T
  <2>7. u.leases = ls /\ u.old = <<>>
    BY <1>1, <1>8, <2>2 DEF Table
  <2>8. Reported(l, w)
    BY <2>1, <2>4, <2>5 DEF Reported
  <2>9. \A j \in 1..n : u.leases[j].addr = t.leases[j].addr
                        /\ (j # i => u.leases[j] = t.leases[j])
    BY <2>5, <2>6, <2>7 DEF k
  <2>10. \A a \in Addr : a # t.leases[i].addr => w[a] = v[a]
    BY <2>4 DEF k
  <2>11. Len(u.leases) = n /\ (Announces(u.leases[i]) \/ Reported(u.leases[i], w))
    BY <2>1, <2>6, <2>7, <2>8
  <2>12. Informed(t, v) /\ u.old = <<>>
    BY <2>7
  <2>13. Informed(u, w)
    <3>1. /\ i \in 1..Len(t.leases) /\ t.old = <<>> /\ Len(u.leases) = Len(t.leases)
          /\ \A j \in 1..Len(t.leases) : u.leases[j].addr = t.leases[j].addr
                                           /\ (j # i => u.leases[j] = t.leases[j])
      BY <1>8, <2>1, <2>9, <2>11
    <3>2. Announces(u.leases[i]) \/ Reported(u.leases[i], w)
      BY <2>11
    <3>3. OneTold(t, u, i, v, w)
      BY <2>10, <2>12, <3>1, <3>2 DEF OneTold
    <3> QED BY <3>1, <3>3, RunLease
  <2> QED BY <2>13 DEF u, w, e
<1> QED
  BY <1>6, <1>7, <1>8

LEMMA ScriptTold == IInv /\ DInv /\ SInv /\ ScriptRun => DInv' /\ SInv'
<1> SUFFICES ASSUME IInv, DInv, SInv, ScriptRun PROVE DInv' /\ SInv'
  OBVIOUS
<1>1. /\ HasScript /\ ~NothingToRun(lt) /\ lt' = DoScriptRun(lt) /\ dns' = dns
      /\ view' = Shown(view, ScriptEvent(lt))
  BY DEF ScriptRun
<1>2. lt \in Table /\ lt \in Sound /\ view \in Views
  BY Parts, GoodTable
<1>3. Entries(lt', dns')
  <2>1. lt'.dnsDirty = lt.dnsDirty
    BY <1>1, <1>2 DEF DoScriptRun, Table
  <2> QED BY <1>1, <1>2, <2>1, DoScriptRunOK, AlikeEntries, EntriesSame DEF DInv
<1>4. Scripted => Informed(lt', view')
  BY <1>1, <1>2, RunInforms DEF SInv
<1> QED
  BY <1>3, <1>4 DEF DInv, SInv

(* A script that knows nothing of an address, or is told last that its lease is
   gone, knows nothing of it.                                               *)
LEMMA ShownEnds ==
    ASSUME NEW v \in Views, NEW es \in Seq(Events), NEW a \in Addr, Closes(es, a),
           v[a] = Unknown \/ Ends(es, a)
    PROVE  FoldLeft(Shown, v, es)[a] = Unknown
<1> DEFINE n == Len(es)  all == FoldLeft(Shown, v, es)
<1>1. PICK w \in [0..n -> Views] :
         /\ w[0] = v /\ w[n] = all
         /\ \A k \in 1..n : w[k] = Shown(w[k - 1], es[k])
  BY ShownSteps
<1>2. n \in Nat /\ \A k \in 1..n : es[k] \in Events
  OBVIOUS
<1> HIDE DEF all
<1> DEFINE Ended(k) == w[k][a] = Unknown \/ \E m \in (k + 1)..n : Takes(es[m], a)
           P == {k \in 0..n : Ended(k)}
<1>3. 0 \in P
  <2>1. 0 \in 0..n /\ 0 + 1 = 1
    BY <1>2
  <2> HIDE DEF n
  <2> QED BY <1>1, <2>1 DEF Ends, n
<1>4. ASSUME NEW k \in 1..n, k - 1 \in P PROVE k \in P
  <2> DEFINE u == w[k - 1]  e == es[k]
  <2>1. /\ u \in Views /\ e \in Events /\ w[k] = Shown(u, e) /\ k \in 0..n
        /\ k - 1 \in 0..n
    BY <1>1, <1>2
  <2>2. u[a] = Unknown \/ \E m \in k..n : Takes(es[m], a)
    <3>1. k - 1 + 1 = k
      BY <1>2
    <3> QED BY <1>4, <3>1
  <2>3. e.addr = a => \E m \in k..n : Takes(es[m], a)
    BY DEF Closes
  <2> HIDE DEF u, e, n
  <2>4. /\ a # e.addr => w[k][a] = u[a]
        /\ e.addr = a /\ e.action = "del" => w[k][a] = Unknown
    BY <2>1, ShownAt
  <2>5. CASE Takes(e, a)
    BY <2>1, <2>4, <2>5 DEF Takes
  <2>6. CASE ~Takes(e, a)
    <3>1. ASSUME NEW m \in k..n, Takes(es[m], a) PROVE m \in (k + 1)..n
      <4>1. m # k
        BY <2>6, <3>1 DEF e
      <4> QED BY <1>2, <4>1
    <3>2. e.addr = a => Ended(k)
      BY <2>3, <3>1
    <3>3. e.addr # a => Ended(k)
      BY <2>2, <2>4, <3>1
    <3> QED BY <2>1, <3>2, <3>3
  <2> QED BY <2>5, <2>6
<1> HIDE DEF P, n
<1>5. n \in P
  <2>1. \A k \in 0..n : k \in P
    BY <1>2, <1>3, <1>4, UpTo
  <2> QED BY <1>2, <2>1
<1>6. (n + 1)..n = {}
  BY <1>2
<1> QED
  BY <1>1, <1>5, <1>6 DEF P, all

(* One that is stopped in order is told all that was left, so that it knows only
   addresses of leases, which are all in the file.                          *)
LEMMA StoppedClear ==
    ASSUME IInv, FInv, Informed(lt, view), ~lt.fileDirty
    PROVE  Clear(LeaseInit(file), FoldLeft(Shown, view, Pending(lt)))
<1> DEFINE u == LeaseInit(file)  es == Pending(lt)  w == FoldLeft(Shown, view, es)
<1> SUFFICES ASSUME NEW a \in Addr
             PROVE  (\E i \in 1..Len(u.leases) : u.leases[i].addr = a) \/ Gone(u, a)
                    \/ w[a] = Unknown
  BY DEF Clear
<1>1. /\ lt \in Table /\ view \in Views /\ Matching(lt.leases, file)
      /\ file \in Seq(Stored) /\ Len(file) <= DhcpMax /\ FileUnique(file)
  BY Parts, GoodTable DEF Readable, FInv, Filed
<1>2. CASE \E i \in 1..Len(lt.leases) : lt.leases[i].addr = a
  <2>1. PICK k \in 1..Len(file) : file[k].addr = a
    <3>1. PICK i \in 1..Len(lt.leases) : lt.leases[i].addr = a
      BY <1>2
    <3>2. \E k \in 1..Len(file) : SameLine(lt.leases[i], file[k])
      BY ONLY <1>1, <3>1 DEF Matching
    <3> QED BY ONLY <3>1, <3>2 DEF SameLine, Tied
  <2>2. \A j \in 1..Len(file) :
          (\E i \in 1..Len(u.leases) : u.leases[i].addr = file[j].addr) \/ Gone(u, file[j].addr)
    BY ONLY <1>1, LeaseInitOK
  <2> HIDE DEF u
  <2> QED BY <2>1, <2>2
<1>3. CASE \A i \in 1..Len(lt.leases) : lt.leases[i].addr # a
  <2>1. view[a] = Unknown \/ Gone(lt, a)
    BY <1>3 DEF Informed, Clear
  <2>2. es \in Seq(Events) /\ Closes(es, a) /\ (Gone(lt, a) => Ends(es, a))
    BY <1>1, <1>3, PendingOK
  <2> HIDE DEF es
  <2>3. w[a] = Unknown
    BY ONLY <1>1, <2>1, <2>2, a \in Addr, ShownEnds
  <2> QED BY <2>3
<1> QED
  BY <1>2, <1>3

LEMMA RestartTold == IInv /\ FInv /\ DInv /\ SInv /\ Restart => DInv' /\ SInv'
<1> SUFFICES ASSUME IInv, FInv, DInv, SInv, Restart PROVE DInv' /\ SInv'
  OBVIOUS
<1> DEFINE t == LeaseInit(file)  cs0 == CommandLine  v == FoldLeft(Shown, view, Pending(lt))
<1>1. PICK how \in Stops : ~lt.fileDirty /\ Starts(how)
  BY DEF Restart
<1>2. /\ Reload(t, cs0, NoAlarm)
      /\ view' = IF how = "term" /\ HasScript THEN v ELSE view
  BY <1>1 DEF Starts
<1>3. t \in Good /\ t.dnsDirty
  BY Parts, LeaseInitOK DEF Readable
<1>4. cs0 \in Seq(Config) /\ NoAlarm \in Nat \cup {NoAlarm}
  BY HostsAssumption
<1>5. Scripted => Clear(t, v)
  BY <1>1, StoppedClear DEF SInv
<1>6. Scripted => view' = v /\ HasScript
  BY <1>1, <1>2 DEF Scripted
<1> HIDE DEF t, cs0, v
<1>7. Entries(lt', dns') /\ (HasScript => \A x : Clear(t, x) => Informed(lt', x))
  BY <1>2, <1>3, <1>4, ReloadTold
<1>8. Scripted => Informed(lt', view')
  BY <1>5, <1>6, <1>7
<1> QED
  BY <1>7, <1>8 DEF DInv, SInv

LEMMA TInit == Init => DInv /\ SInv
<1> SUFFICES ASSUME Init PROVE DInv /\ SInv
  OBVIOUS
<1>1. lt = NoLeases /\ dns = {} /\ view = [a \in Addr |-> Unknown]
  BY DEF Init
<1>2. lt.leases = <<>> /\ Len(lt.leases) = 0
  BY <1>1 DEF NoLeases
<1>3. Informed(lt, view)
  BY <1>1, <1>2 DEF Informed, Heeded, Clear
<1> QED
  BY <1>1, <1>3 DEF DInv, SInv, Entries

LEMMA TSame ==
    ASSUME DInv, SInv, UNCHANGED <<lt, dns, view>> PROVE DInv' /\ SInv'
BY DEF DInv, SInv

LEMMA TNext == IInv /\ FInv /\ DInv /\ SInv /\ [Next]_vars => DInv' /\ SInv'
<1> SUFFICES ASSUME IInv, FInv, DInv, SInv, [Next]_vars PROVE DInv' /\ SInv'
  OBVIOUS
<1>1. CASE UNCHANGED vars
  BY <1>1, TSame DEF vars
<1>2. CASE Alarm
  BY <1>2, TSame DEF Alarm
<1>3. CASE ClientStops
  BY <1>3, TSame DEF ClientStops
<1> QED
  BY <1>1, <1>2, <1>3, SeeksTold, UsesTold, ScriptTold, TickTold, AlarmEventTold,
     HangUpTold, RestartTold DEF Next

LEMMA TInv == Spec => [](IInv /\ FInv /\ DInv /\ SInv)
<1> QED
  BY InitOK, FInit, TInit, NextOK, FNext, TNext, PTL DEF Spec

(* A name of the DNS whose memory was freed is expired and will be dropped at
   the next lease_update_dns; all others are names of leases there are.      *)
THEOREM DhcpFreedNamesExpired == Spec => []FreedNamesExpired
<1>1. IInv /\ DInv => FreedNamesExpired
  <2> SUFFICES ASSUME IInv, DInv, NEW d \in dns,
                      ~(lt.dnsDirty /\ d.left # Never /\ d.left <= 0)
               PROVE  NameLives(d)
    BY DEF FreedNamesExpired
  <2>1. lt \in Table /\ d \in DnsNames
    BY Parts, GoodTable
  <2>2. d.left = Never \/ d.left > 0 \/ ~lt.dnsDirty
    BY <2>1, LeasesAssumption DEF DnsNames, Left, LongGone
  <2>3. PICK i \in 1..Len(lt.leases) : SameEntry(lt.leases[i], d)
    BY <2>2 DEF DInv, Entries, OfLt
  <2>4. lt.leases[i] \in ToSet(lt.leases)
    BY <2>1 DEF Table, ToSet
  <2> QED BY <2>3, <2>4 DEF SameEntry, NameLives
<1> QED
  BY <1>1, TInv, PTL

(* The script has been told exactly the leases there are when do_script_run has
   nothing left to queue, where the process stops only in order: killed, it
   forgets what it had still to tell.                                       *)
THEOREM DhcpScriptSynced ==
    ASSUME Stops \subseteq {"term"}
    PROVE  Spec => []ScriptSynced
<1>1. IInv /\ SInv => ScriptSynced
  <2> SUFFICES ASSUME IInv, SInv, HasScript, NothingToRun(lt)
               PROVE  view = [a \in Addr |->
                         LET i == FindByAddr(lt, a)
                         IN IF i = 0 THEN Unknown
                            ELSE [hw |-> lt.leases[i].hw, name |-> lt.leases[i].name]]
    BY DEF ScriptSynced
  <2>1. lt \in Table /\ view \in Views /\ Informed(lt, view)
    BY Parts, GoodTable DEF SInv, Scripted
  <2>2. lt.old = <<>> /\ \A a : ~Gone(lt, a)
    BY DEF NothingToRun, Gone
  <2>3. \A j \in 1..Len(lt.leases) : ~Announces(lt.leases[j]) /\ lt.leases[j].oldName = NoName
    BY <2>1, NothingSaid
  <2>4. ASSUME NEW a \in Addr
        PROVE  view[a] = LET i == FindByAddr(lt, a)
                         IN IF i = 0 THEN Unknown
                            ELSE [hw |-> lt.leases[i].hw, name |-> lt.leases[i].name]
    <3> DEFINE i == FindByAddr(lt, a)
    <3>1. /\ i \in 0..Len(lt.leases) /\ Len(lt.leases) \in Nat
          /\ i = 0 => \A j \in 1..Len(lt.leases) : lt.leases[j].addr # a
          /\ i # 0 => i \in 1..Len(lt.leases) /\ lt.leases[i].addr = a
      BY <2>1, FindByAddrOK
    <3> HIDE DEF i
    <3>2. CASE i = 0
      <4>1. view[a] = Unknown
        BY <2>1, <2>2, <3>1, <3>2 DEF Informed, Clear
      <4> QED BY <3>2, <4>1 DEF i
    <3>3. CASE i # 0
      <4> DEFINE x == view[a]  l == lt.leases[i]
      <4>1. Reported(l, view) /\ l.addr = a /\ l.oldName = NoName
        BY <2>1, <2>3, <3>1, <3>3 DEF Informed, Heeded
      <4>2. x \in [hw : Hw \cup {NoHw}, name : Name \cup {NoName}]
        BY <2>1 DEF Views
      <4>3. x.hw = l.hw /\ x.name = l.name
        BY <4>1 DEF Reported
      <4> HIDE DEF x, l
      <4>4. x = [hw |-> l.hw, name |-> l.name]
        BY <4>2, <4>3
      <4> QED BY <3>3, <4>4 DEF i, x, l
    <3> QED BY <3>2, <3>3
  <2> QED BY <2>1, <2>4 DEF Views
<1> QED
  BY <1>1, TInv, PTL

-----------------------------------------------------------------------------
(* The entries: no two have one address, which is what check_dhcp_hosts sees
   to and nothing after it undoes.                                           *)

Apart(cs) == \A i, j \in 1..Len(cs) : i # j /\ cs[i].addr # NoAddr => cs[i].addr # cs[j].addr

SameAddrs(cs, ds) == Len(ds) = Len(cs) /\ \A i \in 1..Len(cs) : ds[i].addr = cs[i].addr

CInv == Apart(confs)

LEMMA SameApart == ASSUME NEW cs, NEW ds, Apart(cs), SameAddrs(cs, ds) PROVE Apart(ds)
BY DEF Apart, SameAddrs

LEMMA CheckDhcpHostsApart ==
    ASSUME NEW cs \in Seq(Config) PROVE Apart(CheckDhcpHosts(cs))
<1> DEFINE n == Len(cs)
           twice(i) == \E j \in i + 1..n : cs[j].addr # NoAddr /\ cs[j].addr = cs[i].addr
           d(i) == IF twice(i) THEN [cs[i] EXCEPT !.addr = NoAddr] ELSE cs[i]
           ds == CheckDhcpHosts(cs)
<1>1. ds = [i \in 1..n |-> d(i)] /\ n \in Nat
  BY DEF CheckDhcpHosts
<1>2. ASSUME NEW i \in 1..n PROVE twice(i) => d(i).addr = NoAddr
  <2> DEFINE c == cs[i]
  <2>1. c \in Config
    OBVIOUS
  <2> HIDE DEF c
  <2>2. [c EXCEPT !.addr = NoAddr].addr = NoAddr
    BY <2>1 DEF Config
  <2> HIDE DEF twice
  <2> QED BY <2>2 DEF c
<1>3. \A i \in 1..n : ~twice(i) => d(i) = cs[i]
  <2> HIDE DEF twice, n
  <2> QED OBVIOUS
<1> HIDE DEF ds, d
<1>4. Len(ds) = n /\ \A i \in 1..n : ds[i] = d(i)
  BY <1>1
<1>5. ASSUME NEW i \in 1..n, NEW j \in 1..n, i < j, ds[i].addr # NoAddr
      PROVE  ds[i].addr # ds[j].addr
  <2>1. ~twice(i)
    <3> HIDE DEF twice
    <3> QED BY <1>2, <1>4, <1>5
  <2>2. ds[i] = cs[i]
    <3> HIDE DEF twice
    <3> QED BY <1>3, <1>4, <2>1
  <2>3. j \in i + 1..n
    BY <1>1, <1>5
  <2>4. cs[j].addr # cs[i].addr
    BY <1>5, <2>1, <2>2, <2>3
  <2>5. ds[j] = cs[j] \/ ds[j].addr = NoAddr
    <3> HIDE DEF twice
    <3> QED BY <1>2, <1>3, <1>4
  <2> QED BY <1>5, <2>2, <2>4, <2>5
<1>6. ASSUME NEW i \in 1..n, NEW j \in 1..n, i # j, ds[i].addr # NoAddr
      PROVE  ds[i].addr # ds[j].addr
  <2>1. CASE i < j
    BY <1>5, <1>6, <2>1
  <2>2. CASE j < i
    <3>1. ds[j].addr # NoAddr => ds[j].addr # ds[i].addr
      BY <1>5, <2>2
    <3> QED BY <1>6, <3>1
  <2>3. i < j \/ j < i
    BY <1>1, <1>6
  <2> QED BY <2>1, <2>2, <2>3
<1> HIDE DEF n
<1>7. Apart(ds)
  BY <1>4, <1>6 DEF Apart
<1> QED
  BY <1>7 DEF ds

LEMMA ReconfiguredApart ==
    ASSUME NEW cs \in Seq(Config), NEW ethers \in EthersFiles, NEW bank \in BankFiles, NEW names
    PROVE  Apart(Reconfigured(cs, ethers, bank, names))
<1> DEFINE TS == 0..MaxLeft \cup {Never}
           C == Timed(TS)
           a == DhcpReadEthers(cs, ethers)
           b == RereadDhcp(a, bank)
           c == DhcpUpdateConfigs(b, names)
<1>1. 0 \in TS /\ ethers \in Seq(Ethers) /\ bank \in Seq(Config)
  BY LeasesAssumption, DhcpAssumption
<1>2. C = Config
  BY DEF Timed, Config
<1> HIDE DEF TS
<1>3. cs \in Seq(Timed(TS)) /\ bank \in Seq(Timed(TS))
  BY <1>1, <1>2
<1>4. a \in Seq(Timed(TS))
  BY <1>1, <1>3, DhcpReadEthersOK
<1> HIDE DEF a
<1>5. b \in Seq(Timed(TS))
  BY <1>1, <1>3, <1>4, RereadDhcpOK
<1> HIDE DEF b
<1>6. c \in Seq(Timed(TS))
  BY <1>1, <1>5, DhcpUpdateConfigsOK
<1> HIDE DEF c
<1>7. c \in Seq(Config)
  BY <1>2, <1>6
<1> QED
  BY <1>7, CheckDhcpHostsApart DEF Reconfigured, a, b, c

LEMMA SameAddrsSelf == ASSUME NEW cs PROVE SameAddrs(cs, cs)
BY DEF SameAddrs

(* A packet changes no address of an entry. *)
LEMMA DeclineAddrs ==
    ASSUME NEW s \in State, NEW q, Describes(q, s)
    PROVE  SameAddrs(s.confs, Decline(s, q).s.confs)
<1> DEFINE mine == q.lease # 0 /\ s.t.leases[q.lease].addr = q.m.reqip
           s1 == IF mine THEN Pruned(s, q.lease) ELSE s
           e == [id \in DOMAIN s1.epoch |->
                    IF \E i \in DOMAIN q.chain : q.chain[i].id = id
                    THEN (s1.epoch[id] + 1) % Size(Contexts[id]) ELSE s1.epoch[id]]
           barred == [s1 EXCEPT !.confs[q.at].declined = Backoff]
           turned == [s1 EXCEPT !.epoch = e]
<1>1. \/ q.conf.addr # NoAddr /\ Decline(s, q).s = barred
      \/ Decline(s, q).s = turned
  BY DEF Decline, Silent, Outcome
<1>2. s1 \in State /\ s1.confs = s.confs
  BY PrunedOK
<1> HIDE DEF s1
<1>3. ASSUME q.conf.addr # NoAddr PROVE SameAddrs(s.confs, barred.confs)
  <2> DEFINE cs == s.confs  at == q.at
  <2>1. barred.confs = [s1.confs EXCEPT ![q.at].declined = Backoff]
    BY <1>2 DEF State
  <2>2. barred.confs = [cs EXCEPT ![at].declined = Backoff]
    BY <1>2, <2>1
  <2>3. cs \in Seq(Config) /\ at \in 1..Len(cs)
    BY <1>3, StateParts DEF Describes
  <2> HIDE DEF cs, at
  <2> DEFINE ds == [cs EXCEPT ![at].declined = Backoff]  k == cs[at]
             c == [k EXCEPT !.declined = Backoff]
  <2>4. k \in Config
    BY <2>3
  <2> HIDE DEF k
  <2>5. c.addr = k.addr
    BY <2>4 DEF Config
  <2> HIDE DEF c
  <2>6. ds = [cs EXCEPT ![at] = c]
    BY DEF c, k
  <2> HIDE DEF ds
  <2>7. Len(ds) = Len(cs) /\ \A i \in 1..Len(cs) : ds[i].addr = cs[i].addr
    BY <2>3, <2>5, <2>6 DEF k
  <2> QED BY <2>2, <2>7 DEF SameAddrs, ds, cs
<1>4. turned.confs = s.confs
  BY <1>2 DEF State
<1> HIDE DEF barred, turned
<1> QED
  BY <1>1, <1>3, <1>4, SameAddrsSelf

LEMMA BootpAddrs ==
    ASSUME NEW s \in State, NEW q, Describes(q, s), NEW busy
    PROVE  Bootp(s, q, busy).s.confs = s.confs
<1> DEFINE hw == q.m.hw
           holder == FindByAddr(s.t, q.conf.addr)
           own == FindByClient(s.t, hw, NoClid)
           stays == own # 0 /\ AddressAvailable(q.chain, s.t.leases[own].addr, q.tags)
           left == IF own # 0 /\ ~stays THEN Pruned(s, own) ELSE s
           w == AddressAllocate(left, q.chain, hw, q.tags, busy)
           u == After(left, w)
<1>1. \/ Bootp(s, q, busy) = Silent(s)
      \/ Bootp(s, q, busy) = Silent(u)
      \/ Bootp(s, q, busy) = Served(s, q, holder, q.conf.addr)
      \/ Bootp(s, q, busy) = Served(s, q, own, s.t.leases[own].addr)
      \/ Bootp(s, q, busy) = Served(u, q, 0, w.addr)
  BY DEF Bootp, Served, Updated
<1>2. q.chain \in Seq(Ranges) /\ hw \in Hw
  BY DEF Describes, Wellformed
<1>3. left \in State /\ left.confs = s.confs
  BY PrunedOK
<1> HIDE DEF left
<1>4. w \in Finding(left.t)
  BY <1>2, <1>3, AddressAllocateOK
<1> HIDE DEF w
<1>5. u \in State /\ u.confs = s.confs
  BY <1>3, <1>4, AfterOK
<1> HIDE DEF u
<1>6. ASSUME NEW v \in State, NEW lease, NEW addr
      PROVE  Served(v, q, lease, addr).s.confs = v.confs
  <2>1. PICK t, time : \/ Served(v, q, lease, addr) = Silent(v)
                       \/ Served(v, q, lease, addr)
                            = Outcome([v EXCEPT !.t = t], "bootp", addr, time, "")
    BY DEF Served
  <2> DEFINE u1 == [v EXCEPT !.t = t]
  <2>2. u1.confs = v.confs
    BY DEF State
  <2> HIDE DEF u1
  <2>3. Outcome(u1, "bootp", addr, time, "").s = u1 /\ Silent(v).s = v
    BY DEF Outcome, Silent
  <2>4. \/ Served(v, q, lease, addr) = Silent(v)
        \/ Served(v, q, lease, addr) = Outcome(u1, "bootp", addr, time, "")
    BY <2>1 DEF u1
  <2> QED BY <2>2, <2>3, <2>4
<1>7. \A v : Silent(v).s = v
  BY DEF Silent, Outcome
<1> QED
  BY <1>1, <1>5, <1>6, <1>7

LEMMA RequestAddrs ==
    ASSUME NEW s \in State, NEW q PROVE Request(s, q).s.confs = s.confs
<1> DEFINE addr == Wanted(q)
           left == q.m.reqip # NoAddr /\ Moved(s, q)
           s1 == IF left THEN Pruned(s, q.lease) ELSE s
           q1 == IF left THEN [q EXCEPT !.lease = 0] ELSE q
<1>1. \/ Request(s, q).s = s
      \/ Request(s, q).s = s1
      \/ Request(s, q) = Acknowledge(s1, q1, addr)
  BY DEF Request, Silent, Outcome
<1>2. s1 \in State /\ s1.confs = s.confs
  BY PrunedOK
<1> HIDE DEF s1, q1, addr
<1>3. PICK t : Acknowledge(s1, q1, addr).s = [s1 EXCEPT !.t = t]
  BY DEF Acknowledge, Outcome
<1>4. [s1 EXCEPT !.t = t].confs = s1.confs
  BY <1>2 DEF State
<1> QED
  BY <1>1, <1>2, <1>3, <1>4

LEMMA ReplyAddrs ==
    ASSUME NEW s \in State, NEW m, Wellformed(m), m.type \in Kinds, NEW busy
    PROVE  SameAddrs(s.confs, DhcpReply(s, m, busy).s.confs)
<1> DEFINE q == Query(s, m)
<1>1. Describes(q, s) /\ q.m = m
  BY QueryOK
<1> HIDE DEF q
<1>2. Answer(s, q, busy) \in {Silent(s), Bootp(s, q, busy), Decline(s, q), Release(s, q),
                              Discover(s, q, busy), Request(s, q), Inform(s, q)}
  <2>1. m.type = "bootp" => Answer(s, q, busy) \in {Silent(s), Bootp(s, q, busy)}
    BY <1>1 DEF Answer
  <2>2. m.type = "decline" => Answer(s, q, busy) \in {Silent(s), Decline(s, q)}
    BY <1>1 DEF Answer
  <2>3. m.type = "release" => Answer(s, q, busy) \in {Silent(s), Release(s, q)}
    BY <1>1 DEF Answer
  <2>4. m.type = "discover" => Answer(s, q, busy) \in {Silent(s), Discover(s, q, busy)}
    BY <1>1 DEF Answer
  <2>5. m.type = "request" => Answer(s, q, busy) \in {Silent(s), Request(s, q)}
    BY <1>1 DEF Answer
  <2>6. m.type = "inform" => Answer(s, q, busy) \in {Silent(s), Inform(s, q)}
    BY <1>1 DEF Answer
  <2> QED BY <2>1, <2>2, <2>3, <2>4, <2>5, <2>6 DEF Kinds
<1>3. \A u : Silent(u).s = u
  BY DEF Silent, Outcome
<1>4. Release(s, q).s.confs = s.confs
  <2>1. Release(s, q) = Silent(s) \/ Release(s, q) = Silent(Pruned(s, q.lease))
    BY DEF Release
  <2> QED BY <1>3, <2>1, PrunedOK
<1>5. Discover(s, q, busy).s.confs = s.confs
  <2> DEFINE w == AddressAllocate(s, q.chain, q.m.hw, q.tags, busy)
  <2>1. Discover(s, q, busy).s = s \/ Discover(s, q, busy).s = After(s, w)
    BY DEF Discover, Silent, Outcome
  <2>2. q.chain \in Seq(Ranges) /\ q.m.hw \in Hw
    BY <1>1 DEF Describes, Wellformed
  <2>3. w \in Finding(s.t)
    BY <2>2, AddressAllocateOK
  <2> HIDE DEF w
  <2> QED BY <2>1, <2>3, AfterOK
<1>6. Inform(s, q).s.confs = s.confs
  <2>1. PICK t : Inform(s, q).s = s \/ Inform(s, q).s = [s EXCEPT !.t = t]
    BY DEF Inform, Silent, Outcome
  <2>2. [s EXCEPT !.t = t].confs = s.confs
    BY DEF State
  <2> QED BY <2>1, <2>2
<1>7. SameAddrs(s.confs, Answer(s, q, busy).s.confs)
  BY <1>1, <1>2, <1>3, <1>4, <1>5, <1>6, DeclineAddrs, BootpAddrs, RequestAddrs, SameAddrsSelf
<1> QED
  BY <1>7 DEF DhcpReply, q

LEMMA PacketApart ==
    ASSUME IInv, CInv, NEW m \in Messages, NEW busy, DhcpPacket(m, busy)
    PROVE  CInv'
<1>1. Wellformed(m) /\ m.type \in Kinds /\ Working \in State /\ Working.confs = confs
  BY MessageWellformed, WorkingOK DEF Working
<1>2. confs' = DhcpReply(Working, m, busy).s.confs
  BY DEF DhcpPacket, Replied
<1>3. SameAddrs(confs, confs')
  BY <1>1, <1>2, ReplyAddrs
<1> QED
  BY <1>3, SameApart DEF CInv

LEMMA ReloadApart ==
    ASSUME NEW t, NEW cs0 \in Seq(Config), NEW before, Reload(t, cs0, before)
    PROVE  CInv'
<1>1. PICK ethers \in EthersFiles, bank \in BankFiles, names \in HostsFiles :
        confs' = Reconfigured(cs0, ethers, bank, names)
  BY DEF Reload
<1> QED
  BY <1>1, ReconfiguredApart DEF CInv

LEMMA TickApart == IInv /\ CInv /\ Tick => CInv'
<1> SUFFICES ASSUME IInv, CInv, Tick PROVE CInv'
  OBVIOUS
<1> DEFINE d(c) == [c EXCEPT !.declined = IF @ = -1 THEN -1 ELSE @ - 1]
<1>1. confs \in Seq(Config) /\ confs' = [i \in DOMAIN confs |-> d(confs[i])]
  BY Parts DEF Tick
<1>2. ASSUME NEW c \in Config PROVE d(c).addr = c.addr
  BY DEF Config
<1> HIDE DEF d
<1>3. SameAddrs(confs, confs')
  BY <1>1, <1>2 DEF SameAddrs
<1> QED
  BY <1>3, SameApart DEF CInv

LEMMA CInit == Init => CInv
<1> SUFFICES ASSUME Init PROVE CInv
  OBVIOUS
<1>1. PICK ethers \in EthersFiles, bank \in BankFiles, names \in HostsFiles :
        confs = Reconfigured(CommandLine, ethers, bank, names) /\ hosts = names
  BY DEF Init
<1> QED
  BY <1>1, ReconfiguredApart, HostsAssumption DEF CInv

LEMMA CNext == IInv /\ CInv /\ [Next]_vars => CInv'
<1> SUFFICES ASSUME IInv, CInv, [Next]_vars PROVE CInv'
  OBVIOUS
<1>1. CASE UNCHANGED confs
  BY <1>1 DEF CInv
<1>2. CASE ClientSeeks
  <2>1. PICK m \in UNION {Seeks(c) : c \in {d \in Clients : held[d.hw] = Nowhere}} :
          \E busy : DhcpPacket(m, busy)
    BY <1>2 DEF ClientSeeks
  <2>2. m \in Messages
    BY SeeksOK
  <2> QED BY <2>1, <2>2, PacketApart
<1>3. CASE ClientUses
  <2>1. PICK m \in UNION {Uses(c) : c \in {d \in Clients : held[d.hw] # Nowhere}} :
          DhcpPacket(m, {})
    BY <1>3 DEF ClientUses
  <2>2. m \in Messages
    BY Parts, UsesOK
  <2> QED BY <2>1, <2>2, PacketApart
<1>4. CASE HangUp
  BY <1>4, Parts, ReloadApart DEF HangUp
<1>5. CASE Restart
  <2>1. Reload(LeaseInit(file), CommandLine, NoAlarm)
    BY <1>5 DEF Restart, Starts
  <2> QED BY <2>1, ReloadApart, HostsAssumption
<1>6. \/ UNCHANGED confs \/ ClientSeeks \/ ClientUses \/ Tick \/ HangUp \/ Restart
  BY DEF Next, vars, ClientStops, ScriptRun, Alarm, AlarmEvent
<1> QED
  BY <1>1, <1>2, <1>3, <1>4, <1>5, <1>6, TickApart

-----------------------------------------------------------------------------
(* Ranges that may serve an address *)

LEMMA AvailableInOK ==
    ASSUME NEW chain \in Seq(Ranges), NEW addr, NEW tags
    PROVE  LET v == AvailableIn(chain, addr, tags) IN
           /\ v \in 0..Len(chain)
           /\ v # 0 => /\ v \in 1..Len(chain) /\ addr # Router[Head(chain).net]
                       /\ Serves(chain[v], addr, tags)
           /\ chain # <<>> /\ addr # Router[Head(chain).net]
                /\ (\E i \in 1..Len(chain) : Serves(chain[i], addr, tags)) => v # 0
<1> DEFINE n == Len(chain)
           A == {i \in 1..n : ~chain[i].static /\ addr \in chain[i].start..chain[i].end
                              /\ MatchNetid(chain[i].all, chain[i].none, tags, TRUE)}
           a == IF A # {} THEN Min(A) ELSE 0
           out == chain = <<>> \/ addr = Router[Head(chain).net]
           v == AvailableIn(chain, addr, tags)
<1>1. n \in Nat /\ A \in SUBSET (1..n)
  <2>1. n \in Nat
    OBVIOUS
  <2> HIDE DEF n
  <2> QED BY <2>1
<1>2. v = IF out THEN 0 ELSE a
  BY DEF AvailableIn, SelectInSeq
<1>3. A = {i \in 1..n : Serves(chain[i], addr, tags)}
  BY DEF Serves
<1> HIDE DEF n, A, v
<1>4. a \in 0..n /\ (a = 0 => A = {}) /\ (a # 0 => a \in A /\ a \in 1..n)
  BY <1>1, FirstPlace
<1> HIDE DEF a
<1>5. v \in 0..n /\ (v # 0 => v \in 1..n /\ ~out /\ Serves(chain[v], addr, tags))
  BY <1>1, <1>2, <1>3, <1>4
<1>6. ~out /\ (\E i \in 1..n : Serves(chain[i], addr, tags)) => v # 0
  BY <1>2, <1>3, <1>4
<1> QED
  BY <1>5, <1>6 DEF n, v

LEMMA ChainOneNet ==
    ASSUME NEW net PROVE \A i \in 1..Len(Chain(net)) : Chain(net)[i].net = net
<1> DEFINE S == {i \in DOMAIN Contexts : Contexts[i].net = net}
           R == {c \in Ranges : c.net = net}
           u == Sifted(Contexts, S)
<1>1. Contexts \in Seq(Ranges) /\ S \in SUBSET (1..Len(Contexts)) /\ Len(Contexts) \in Nat
      /\ \A i \in S : Contexts[i] \in R
  <2>1. Contexts \in Seq(Context)
    BY DhcpAssumption
  <2>2. \A i \in 1..Len(Contexts) : Contexts[i] \in Ranges
    BY <2>1 DEF Ranges
  <2> QED BY <2>1, <2>2
<1> HIDE DEF S, R
<1>2. SiftedFrom(u, Contexts, S)
  BY <1>1, SiftedOK
<1> HIDE DEF u
<1>3. PICK n \in 0..Len(Contexts) : \E p \in [1..n -> 1..Len(Contexts)] :
        Listed(p, n, S) /\ u = [j \in 1..n |-> Contexts[p[j]]]
  BY <1>2 DEF SiftedFrom
<1>4. PICK p \in [1..n -> 1..Len(Contexts)] :
        Listed(p, n, S) /\ u = [j \in 1..n |-> Contexts[p[j]]]
  BY <1>3
<1>5. \A j \in 1..n : p[j] \in S
  BY <1>4 DEF Listed
<1>6. u \in Seq(R)
  BY <1>1, <1>4, <1>5
<1>7. Reverse(u) \in Seq(R)
  BY <1>6, ReverseType
<1>8. Chain(net) = Reverse(u)
  BY DEF Chain, u, S
<1>9. \A i \in 1..Len(Chain(net)) : Chain(net)[i] \in R
  BY <1>7, <1>8
<1> QED
  BY <1>9 DEF R

OneNet(chain) == \A i, j \in 1..Len(chain) : chain[i].net = chain[j].net

LEMMA ChainForOneNet == ASSUME NEW m PROVE OneNet(ChainFor(m))
<1>1. ASSUME NEW net PROVE OneNet(Chain(net))
  BY ChainOneNet DEF OneNet
<1> QED
  BY <1>1 DEF ChainFor

(* What a range of the chain serves, that to which the chain is narrowed does. *)
LEMMA NarrowAvailable ==
    ASSUME NEW chain \in Seq(Ranges), OneNet(chain), NEW addr, NEW tags,
           AddressAvailable(chain, addr, tags)
    PROVE  AddressAvailable(NarrowContext(chain, addr, tags), addr, tags)
<1> DEFINE v == AvailableIn(chain, addr, tags)  c == chain[v]  one == <<c>>
<1>1. v # 0
  BY DEF AddressAvailable
<1>2. v \in 1..Len(chain) /\ addr # Router[Head(chain).net] /\ Serves(chain[v], addr, tags)
  BY <1>1, AvailableInOK
<1>3. NarrowContext(chain, addr, tags) = one
  BY <1>1 DEF NarrowContext
<1> HIDE DEF v
<1>4. c \in Ranges /\ c.net = Head(chain).net
  <2>1. Head(chain) = chain[1] /\ 1 \in 1..Len(chain)
    BY <1>2
  <2> QED BY <1>2, <2>1 DEF OneNet
<1>5. addr # Router[c.net] /\ Serves(c, addr, tags)
  BY <1>2, <1>4
<1> HIDE DEF c
<1>6. one \in Seq(Ranges) /\ one # <<>> /\ Len(one) = 1 /\ Head(one) = c /\ one[1] = c
  BY <1>4
<1> HIDE DEF one
<1>7. 1 \in 1..Len(one) /\ Serves(one[1], addr, tags) /\ addr # Router[Head(one).net]
  BY <1>5, <1>6
<1>8. AvailableIn(one, addr, tags) # 0
  BY <1>6, <1>7, AvailableInOK
<1> QED
  BY <1>3, <1>8 DEF AddressAvailable

(* A network of the chain has a range to narrow to. *)
LEMMA NarrowNear ==
    ASSUME NEW chain \in Seq(Ranges), NEW addr, addr # NoAddr, NetOf[addr] \in Nets(chain), NEW tags
    PROVE  NarrowContext(chain, addr, tags) # <<>>
<1> DEFINE n == Len(chain)
           near(c) == addr # NoAddr /\ NetOf[addr] = c.net
           B == {i \in 1..n : near(chain[i]) /\ chain[i].static}
           C == {i \in 1..n : near(chain[i])}
           b == IF B # {} THEN Min(B) ELSE 0
           c == IF C # {} THEN Min(C) ELSE 0
           v == AvailableIn(chain, addr, tags)
           at == IF v # 0 THEN v ELSE IF b # 0 THEN b ELSE c
<1>1. n \in Nat /\ C \in SUBSET (1..n) /\ C # {}
  BY DEF Nets
<1>2. NarrowContext(chain, addr, tags) = IF at = 0 THEN <<>> ELSE <<chain[at]>>
  BY DEF NarrowContext, SelectInSeq
<1> HIDE DEF n, B, C, v
<1>3. c # 0
  BY <1>1, FirstPlace
<1> HIDE DEF b, c
<1>4. at # 0
  BY <1>3
<1> HIDE DEF at
<1> QED
  BY <1>2, <1>4

-----------------------------------------------------------------------------
(* What is found out of a message *)

(* The same of two messages that differ in what the address is asked with. *)
LEMMA QuerySame ==
    ASSUME NEW s, NEW m, NEW k, m.type # "bootp", k.type # "bootp", m.hw = k.hw,
           m.clid = k.clid, m.name = k.name, m.tags = k.tags, ChainFor(m) = ChainFor(k)
    PROVE  LET q == Query(s, m)  p == Query(s, k) IN
           /\ q.chain = p.chain /\ q.lease = p.lease /\ q.at = p.at /\ q.conf = p.conf
           /\ q.tags = p.tags
<1> DEFINE lease == FindByClient(s.t, m.hw, m.clid)
           chain == ChainFor(m)
           clid  == ClidOf(s, m, lease)
           first == FindConfig(s.confs, Nets(chain), clid, m.hw, NoName)
           named == FindConfig(s.confs, Nets(chain), NoClid, m.hw, m.name)
           at    == Entry(s, m, first, named)
           conf  == IF at = 0 THEN Blank ELSE s.confs[at]
           auth  == first # 0 /\ conf.name # NoName
<1>1. Query(s, m) = Described(m, chain, lease, clid, at, conf, auth)
  BY DEF Query, Recognised, Matched, Configured
<1>2. ClidOf(s, k, lease) = clid
  BY DEF ClidOf
<1>3. Entry(s, k, first, named) = at
  BY DEF Entry
<1>4. Query(s, k) = Described(k, chain, lease, clid, at, conf, auth)
  <2>1. Query(s, k) = Recognised(s, k, chain, lease, clid)
    BY <1>2 DEF Query
  <2> HIDE DEF lease, chain, clid
  <2>2. Recognised(s, k, chain, lease, clid) = Matched(s, k, chain, lease, clid, first)
    BY DEF Recognised
  <2> HIDE DEF first
  <2>3. Matched(s, k, chain, lease, clid, first) = Configured(s, k, chain, lease, clid, first, at)
    BY <1>3 DEF Matched
  <2> HIDE DEF named, at
  <2> QED BY <2>1, <2>2, <2>3 DEF Configured
<1> HIDE DEF lease, chain, clid, first, named, at, conf, auth
<1> QED
  BY <1>1, <1>4 DEF Described

(* An entry that is found is in the list, and for a network of the chain. *)
LEMMA QueryEntry ==
    ASSUME NEW s \in State, NEW m
    PROVE  LET q == Query(s, m) IN
           /\ q.chain = ChainFor(m)
           /\ q.conf.addr # NoAddr => /\ q.at \in 1..Len(s.confs) /\ q.conf = s.confs[q.at]
                                      /\ IsAddrInContext(Nets(q.chain), q.conf)
<1> DEFINE lease == IF m.type = "bootp" THEN 0 ELSE FindByClient(s.t, m.hw, m.clid)
           chain == ChainFor(m)
           clid  == ClidOf(s, m, lease)
           first == FindConfig(s.confs, Nets(chain), clid, m.hw, NoName)
           named == FindConfig(s.confs, Nets(chain), NoClid, m.hw, m.name)
           at    == Entry(s, m, first, named)
           conf  == IF at = 0 THEN Blank ELSE s.confs[at]
           auth  == first # 0 /\ conf.name # NoName
           q     == Query(s, m)
<1>1. q = Described(m, chain, lease, clid, at, conf, auth)
  BY DEF Query, Recognised, Matched, Configured
<1>2. s.confs \in Seq(Config)
  BY StateParts
<1> HIDE DEF chain, lease, clid
<1>3. /\ first \in 0..Len(s.confs) /\ (first # 0 => IsAddrInContext(Nets(chain), s.confs[first]))
      /\ named \in 0..Len(s.confs) /\ (named # 0 => IsAddrInContext(Nets(chain), s.confs[named]))
  BY <1>2, FindConfigOK
<1>4. at \in {first, named}
  BY DEF Entry
<1> HIDE DEF first, named, at
<1>5. at \in 0..Len(s.confs) /\ (at # 0 => IsAddrInContext(Nets(chain), s.confs[at]))
  BY <1>3, <1>4
<1>6. conf.addr # NoAddr => at # 0 /\ conf = s.confs[at]
  BY DEF Blank
<1> HIDE DEF conf, auth, q
<1>7. q.chain = chain /\ q.at = at /\ q.conf = conf
  BY <1>1 DEF Described
<1>8. at # 0 => at \in 1..Len(s.confs)
  BY <1>2, <1>5
<1> QED
  BY <1>5, <1>6, <1>7, <1>8 DEF q, chain

-----------------------------------------------------------------------------
(* What is offered is given *)

(* A client's lease is the one found by its address. *)
LEMMA LeaseHolder ==
    ASSUME NEW s \in State, NEW i \in 1..Len(s.t.leases)
    PROVE  s.t.leases[i].addr \in Addr /\ FindByAddr(s.t, s.t.leases[i].addr) = i
<1> DEFINE a == s.t.leases[i].addr  v == FindByAddr(s.t, a)
<1>1. s.t \in Table /\ Unique(s.t)
  BY StateParts
<1>2. s.t.leases[i] \in Lease
  BY <1>1, LeaseAt
<1>3. /\ v = 0 => \A j \in 1..Len(s.t.leases) : s.t.leases[j].addr # a
      /\ v # 0 => v \in 1..Len(s.t.leases) /\ s.t.leases[v].addr = a
  BY <1>1, FindByAddrOK
<1> HIDE DEF v
<1>4. v = i
  BY <1>1, <1>3 DEF Unique
<1> QED
  BY <1>2, <1>4 DEF Lease, v

(* What a DISCOVER is offered: a range serves it, or it is configured; no other
   client has it, and no other entry.                                        *)
LEMMA DiscoverOffers ==
    ASSUME NEW s \in State, Apart(s.confs), NEW q, Describes(q, s), NEW busy,
           NEW r, r = Discover(s, q, busy), r.kind = "offer", q.chain # <<>>, OneNet(q.chain),
           q.conf.addr # NoAddr => q.at \in 1..Len(s.confs) /\ q.conf = s.confs[q.at]
    PROVE  /\ ~Ignored(q) /\ r.addr \in Addr /\ NarrowContext(q.chain, r.addr, q.tags) # <<>>
           /\ r.addr = q.conf.addr \/ AddressAvailable(q.chain, r.addr, q.tags)
           /\ FindByAddr(s.t, r.addr) \in {0, q.lease}
           /\ \/ FindByAddress(s.confs, r.addr) \in {0, q.at}
              \/ q.lease # 0 /\ r.addr = s.t.leases[q.lease].addr
<1> DEFINE w == AddressAllocate(s, q.chain, q.m.hw, q.tags, busy)
           known == ConfiguredFree(s, q) \/ LeaseFits(s, q) \/ AskedFree(s, q)
           addr == IF ConfiguredFree(s, q) THEN q.conf.addr
                   ELSE IF LeaseFits(s, q) THEN s.t.leases[q.lease].addr
                   ELSE IF AskedFree(s, q) THEN q.m.reqip ELSE w.addr
           s1 == IF known THEN s ELSE After(s, w)
           context == NarrowContext(q.chain, addr, q.tags)
           time == CalcTime(Head(context), q)
<1>1. /\ ~Ignored(q) /\ addr # NoAddr /\ context # <<>>
      /\ r = Outcome(s1, "offer", addr, time, "")
  <2>1. Discover(s, q, busy) = IF Ignored(q) THEN Silent(s)
                               ELSE IF addr = NoAddr \/ context = <<>> THEN Silent(s1)
                               ELSE Outcome(s1, "offer", addr, time, "")
    BY DEF Discover
  <2>2. \A u : Silent(u).kind # "offer"
    BY DEF Silent, Outcome
  <2> HIDE DEF w, known, addr, s1, context, time
  <2> QED BY <2>1, <2>2
<1>2. r.addr = addr
  <2> HIDE DEF addr, s1, time, context
  <2>1. Outcome(s1, "offer", addr, time, "").addr = addr
    BY DEF Outcome
  <2> QED BY <1>1, <2>1
<1>3. /\ q.chain \in Seq(Ranges) /\ q.m.hw \in Hw /\ q.lease \in 0..Len(s.t.leases)
      /\ q.m.reqip \in Addr \cup {NoAddr} /\ q.conf \in Config
  BY DEF Describes, Wellformed
<1>4. w \in Found(Offerable(s, q.chain, q.tags))
  BY <1>3, AddressAllocateOK
<1> HIDE DEF w, context, s1, time
<1>5. s.confs \in Seq(Config) /\ Len(s.t.leases) \in Nat
  BY StateParts
<1>6. CASE ConfiguredFree(s, q)
  <2> DEFINE a == q.conf.addr  v == FindByAddress(s.confs, a)
  <2>1. a # NoAddr /\ FindByAddr(s.t, a) \in {0, q.lease} /\ addr = a
    BY <1>6 DEF ConfiguredFree
  <2>2. q.at \in 1..Len(s.confs) /\ s.confs[q.at].addr = a /\ a \in Addr
    BY <1>3, <2>1 DEF Config
  <2>3. v # 0 => v \in 1..Len(s.confs) /\ s.confs[v].addr = a
    BY <1>5, FindByAddressOK
  <2> HIDE DEF v, a
  <2>4. v \in {0, q.at}
    BY <2>1, <2>2, <2>3 DEF Apart
  <2> QED BY <1>1, <1>2, <2>1, <2>2, <2>4 DEF context, v, a
<1>7. CASE ~ConfiguredFree(s, q) /\ LeaseFits(s, q)
  <2>1. /\ q.lease # 0 /\ addr = s.t.leases[q.lease].addr
        /\ AddressAvailable(q.chain, addr, q.tags)
    BY <1>7 DEF LeaseFits
  <2>2. q.lease \in 1..Len(s.t.leases)
    BY <1>3, <1>5, <2>1
  <2> HIDE DEF addr
  <2>3. addr \in Addr /\ FindByAddr(s.t, addr) = q.lease
    BY <2>1, <2>2, LeaseHolder
  <2> QED BY <1>1, <1>2, <2>1, <2>3 DEF context
<1>8. CASE ~ConfiguredFree(s, q) /\ ~LeaseFits(s, q) /\ AskedFree(s, q)
  <2>1. /\ addr = q.m.reqip /\ addr # NoAddr /\ AddressAvailable(q.chain, addr, q.tags)
        /\ FindByAddr(s.t, addr) = 0 /\ FindByAddress(s.confs, addr) = 0
    BY <1>8 DEF AskedFree
  <2> HIDE DEF addr
  <2> QED BY <1>1, <1>2, <1>3, <2>1 DEF context
<1>9. CASE ~ConfiguredFree(s, q) /\ ~LeaseFits(s, q) /\ ~AskedFree(s, q)
  <2>1. addr = w.addr
    BY <1>9
  <2> HIDE DEF addr
  <2>2. addr \in Offerable(s, q.chain, q.tags)
    BY <1>1, <1>4, <2>1 DEF Found
  <2>3. /\ addr \in Addr /\ FindByAddr(s.t, addr) = 0 /\ addr \notin Routers(q.chain)
        /\ addr \notin Reserved(s.confs)
        /\ \E i \in 1..Len(q.chain) : Serves(q.chain[i], addr, q.tags)
    BY <2>2 DEF Offerable, Open
  <2>4. addr # Router[Head(q.chain).net]
    <3>1. 1 \in DOMAIN q.chain /\ Head(q.chain) = q.chain[1]
      BY <1>3
    <3>2. Head(q.chain).net \in Nets(q.chain)
      BY <3>1 DEF Nets
    <3> QED BY <2>3, <3>2 DEF Routers
  <2>5. AddressAvailable(q.chain, addr, q.tags)
    BY <1>3, <2>3, <2>4, AvailableInOK DEF AddressAvailable
  <2>6. FindByAddress(s.confs, addr) = 0
    <3> DEFINE v == FindByAddress(s.confs, addr)
    <3>1. v # 0 => v \in 1..Len(s.confs) /\ s.confs[v].addr = addr /\ addr # NoAddr
      BY <1>5, FindByAddressOK
    <3>2. DOMAIN s.confs = 1..Len(s.confs)
      BY <1>5
    <3> HIDE DEF v
    <3>3. v = 0
      BY <2>3, <3>1, <3>2 DEF Reserved
    <3> QED BY <3>3 DEF v
  <2> QED BY <1>1, <1>2, <2>3, <2>5, <2>6 DEF context
<1> QED
  BY <1>6, <1>7, <1>8, <1>9

(* Such an address is given to the client that selects it. *)
LEMMA RequestGives ==
    ASSUME NEW s \in State, NEW q, Describes(q, s), NEW a, a # NoAddr, q.m.reqip = a,
           q.m.server = "this", ~Ignored(q), OneNet(q.chain),
           NarrowContext(q.chain, a, q.tags) # <<>>,
           a = q.conf.addr \/ AddressAvailable(q.chain, a, q.tags),
           FindByAddr(s.t, a) \in {0, q.lease}, FindByAddress(s.confs, a) \in {0, q.at}
    PROVE  Request(s, q).why \in {"", "no leases left"}
<1> DEFINE addr == Wanted(q)
           left == q.m.reqip # NoAddr /\ Moved(s, q)
           s1 == IF left THEN Pruned(s, q.lease) ELSE s
           q1 == IF left THEN [q EXCEPT !.lease = 0] ELSE q
           refused == IF InitReboot(q) /\ left THEN "wrong address"
                      ELSE IF q.m.reqip = NoAddr
                              /\ (Moved(s, q) \/ (q.lease = 0 /\ ~Authoritative))
                      THEN "lease not found" ELSE Objection(s1, q1, addr)
<1>1. addr = a /\ Selecting(q) /\ ~InitReboot(q) /\ ~NoAnswer(q)
  BY DEF Wanted, Selecting, InitReboot, NoAnswer
<1>2. Request(s, q) = IF refused # "" THEN Outcome(s1, "nak", NoAddr, 0, refused)
                      ELSE Acknowledge(s1, q1, addr)
  BY <1>1 DEF Request
<1>3. refused = Objection(s1, q1, a)
  BY <1>1
<1>4. s1 \in State /\ s1.confs = s.confs
  BY PrunedOK
<1>5. /\ q1.m = q.m /\ q1.chain = q.chain /\ q1.at = q.at /\ q1.conf = q.conf /\ q1.tags = q.tags
      /\ q1.lease = IF left THEN 0 ELSE q.lease
  <2> DEFINE p == [q EXCEPT !.lease = 0]
  <2>1. p = [m |-> q.m, chain |-> q.chain, lease |-> 0, at |-> q.at, conf |-> q.conf,
             clid |-> q.clid, name |-> q.name, auth |-> q.auth, tags |-> q.tags]
    BY DEF Describes
  <2> HIDE DEF p
  <2>2. /\ p.m = q.m /\ p.chain = q.chain /\ p.at = q.at /\ p.conf = q.conf /\ p.tags = q.tags
        /\ p.lease = 0
    BY <2>1
  <2> HIDE DEF left
  <2> QED BY <2>2 DEF p
<1>6. FindByAddr(s1.t, a) \in {0, q1.lease}
  <2> DEFINE v == FindByAddr(s.t, a)
  <2>1. s.t \in Table
    BY StateParts
  <2>2. CASE left
    <3> DEFINE u == Pruned(s, q.lease)
    <3>1. q.lease # 0 /\ s.t.leases[q.lease].addr # a
      BY <1>1, <2>2 DEF Moved
    <3>2. v = 0
      BY <2>1, <3>1, FindByAddrOK
    <3>3. \A k \in 1..Len(s.t.leases) : s.t.leases[k].addr # a
      BY <2>1, <3>2, FindByAddrOK
    <3>4. /\ u \in State
          /\ \A j \in 1..Len(u.t.leases) : \E k \in 1..Len(s.t.leases) :
               k # q.lease /\ u.t.leases[j] = s.t.leases[k]
      BY PrunedOK
    <3> HIDE DEF u
    <3>5. u.t \in Table
      BY <3>4, StateParts
    <3>6. FindByAddr(u.t, a) = 0
      <4> DEFINE j == FindByAddr(u.t, a)
      <4> SUFFICES ASSUME j # 0 PROVE FALSE
        OBVIOUS
      <4>1. j \in 1..Len(u.t.leases) /\ u.t.leases[j].addr = a
        BY <3>5, FindByAddrOK
      <4> HIDE DEF j
      <4> QED BY <3>3, <3>4, <4>1
    <3> QED BY <2>2, <3>6 DEF u
  <2>3. CASE ~left
    BY <2>3
  <2> QED BY <2>2, <2>3
<1> HIDE DEF s1, q1, left
<1>7. AddressAvailable(NarrowContext(q.chain, a, q.tags), a, q.tags) \/ a = q.conf.addr
  BY NarrowAvailable DEF Describes
<1>8. Selecting(q1)
  BY <1>1, <1>5 DEF Selecting
<1>9. Objection(s1, q1, a) \in {"", "no leases left"}
  <2>1. NarrowContext(q1.chain, a, q1.tags) # <<>>
    BY <1>5
  <2>2. ~(~AddressAvailable(NarrowContext(q1.chain, a, q1.tags), a, q1.tags) /\ q1.conf.addr # a)
    BY <1>5, <1>7
  <2>3. FindByAddress(s1.confs, a) \in {0, q1.at}
    BY <1>4, <1>5
  <2> QED BY <1>6, <1>8, <2>1, <2>2, <2>3 DEF Objection
<1> HIDE DEF refused, addr
<1>10. Acknowledge(s1, q1, addr).why = ""
  BY DEF Acknowledge, Outcome
<1>11. Outcome(s1, "nak", NoAddr, 0, refused).why = refused
  BY DEF Outcome
<1> QED
  BY <1>2, <1>3, <1>9, <1>10, <1>11

(* A client that is told of its configured address is offered that one. *)
LEMMA DiscoverConfigured ==
    ASSUME NEW s, NEW q, ConfiguredFree(s, q), ~Ignored(q), NEW busy,
           NarrowContext(q.chain, q.conf.addr, q.tags) # <<>>
    PROVE  Configures(Discover(s, q, busy), q)
<1> DEFINE a == q.conf.addr
           w == AddressAllocate(s, q.chain, q.m.hw, q.tags, busy)
           context == NarrowContext(q.chain, a, q.tags)
           r == Outcome(s, "offer", a, CalcTime(Head(context), q), "")
<1>1. a # NoAddr
  BY DEF ConfiguredFree
<1>2. Discover(s, q, busy) = r
  <2> HIDE DEF w
  <2> QED BY <1>1 DEF Discover, w
<1>3. r.kind = "offer" /\ r.addr = a
  <2> HIDE DEF a, context
  <2> QED BY DEF Outcome
<1> HIDE DEF r
<1> QED
  BY <1>2, <1>3 DEF Configures

LEMMA MessageFields ==
    ASSUME NEW c \in Clients, NEW type \in {"discover", "request"},
           NEW net \in Nat \cup DOMAIN Router, NEW k, k = Message(c, type, net)
    PROVE  /\ k \in Messages /\ k.type = type /\ k.hw = c.hw /\ k.clid = c.clid
           /\ k.name = c.name /\ k.tags = c.tags /\ k.net = net /\ k.ciaddr = NoAddr
           /\ k.reqip = NoAddr
<1>1. c \in Client /\ type \in Kinds
  BY DhcpAssumption DEF Kinds
<1> QED
  BY <1>1, MessageOK DEF Message

SameSender(m, k) ==
    /\ m.type = k.type /\ m.hw = k.hw /\ m.clid = k.clid /\ m.name = k.name /\ m.tags = k.tags
    /\ m.net = k.net

LEMMA FilledFields ==
    ASSUME NEW k \in Messages, NEW a, NEW id
    PROVE  /\ LET m == [k EXCEPT !.reqip = a]
              IN SameSender(m, k) /\ m.ciaddr = k.ciaddr
           /\ LET m == [k EXCEPT !.reqip = a, !.server = id]
              IN SameSender(m, k) /\ m.ciaddr = k.ciaddr /\ m.reqip = a /\ m.server = id
           /\ LET m == [k EXCEPT !.ciaddr = a]
              IN SameSender(m, k) /\ m.ciaddr = a /\ m.reqip = k.reqip /\ m.relayed = k.relayed
BY DEF Messages, SameSender

(* Messages of a client on one network are taken for the same. *)
Resembles(q, p) ==
    q.chain = p.chain /\ q.lease = p.lease /\ q.at = p.at /\ q.conf = p.conf /\ q.tags = p.tags

LEMMA SameIgnored == ASSUME NEW q, NEW p, Resembles(q, p) PROVE Ignored(q) <=> Ignored(p)
BY DEF Ignored, Resembles

LEMMA OfferStands ==
    ASSUME NEW s \in State, Apart(s.confs), NEW c \in Clients, NEW net \in DOMAIN Router,
           NEW ip \in Addr \cup {NoAddr}
    PROVE  Stands(s, c, net, Offered(s, c, net, ip))
<1> DEFINE base == Message(c, "discover", net)
           asks == Message(c, "request", net)
           m == [base EXCEPT !.reqip = ip]
           r == DhcpReply(s, m, {})
           k == [asks EXCEPT !.reqip = r.addr, !.server = "this"]
           b == Query(s, base)
           q == Query(s, m)
           p == Query(s, k)
<1> SUFFICES ASSUME r.kind = "offer", ~Outlived(s, b)
             PROVE  DhcpReply(s, k, {}).why \in {"", "no leases left"}
  BY DEF Stands, Offered, Selected
<1>1. /\ base \in Messages /\ base.type = "discover" /\ base.hw = c.hw /\ base.clid = c.clid
      /\ base.name = c.name /\ base.tags = c.tags /\ base.net = net /\ base.ciaddr = NoAddr
  BY MessageFields
<1>2. /\ asks \in Messages /\ asks.type = "request" /\ asks.hw = c.hw /\ asks.clid = c.clid
      /\ asks.name = c.name /\ asks.tags = c.tags /\ asks.net = net /\ asks.ciaddr = NoAddr
  BY MessageFields
<1> HIDE DEF base, asks
<1>3. 0 \in Term
  BY ONLY LeasesAssumption DEF Term
<1>4. m \in Messages /\ SameSender(m, base) /\ m.ciaddr = NoAddr
  BY <1>1, <1>3, FilledIn, FilledFields
<1> HIDE DEF m, r
<1> DEFINE a == r.addr
<1> HIDE DEF a
<1>5. SameSender(k, asks) /\ k.ciaddr = NoAddr /\ k.reqip = a /\ k.server = "this"
  <2> QED BY <1>2 DEF k, a, Messages, SameSender
<1>6. a \in Addr => k \in Messages
  BY <1>2, <1>3, FilledIn DEF a
<1> HIDE DEF k
<1>7. ChainFor(m) = Chain(net) /\ ChainFor(base) = Chain(net) /\ ChainFor(k) = Chain(net)
  BY <1>1, <1>2, <1>4, <1>5 DEF ChainFor, SameSender
<1>8. Resembles(b, q) /\ Resembles(p, q)
  <2>1. /\ m.type # "bootp" /\ base.type # "bootp" /\ k.type # "bootp"
        /\ base.hw = m.hw /\ base.clid = m.clid /\ base.name = m.name /\ base.tags = m.tags
        /\ k.hw = m.hw /\ k.clid = m.clid /\ k.name = m.name /\ k.tags = m.tags
        /\ ChainFor(base) = ChainFor(m) /\ ChainFor(k) = ChainFor(m)
    BY <1>1, <1>2, <1>4, <1>5, <1>7 DEF SameSender
  <2>2. Resembles(b, q)
    BY ONLY <2>1, QuerySame DEF Resembles, b, q
  <2>3. Resembles(p, q)
    BY ONLY <2>1, QuerySame DEF Resembles, p, q
  <2> QED BY <2>2, <2>3
<1>9. Describes(q, s) /\ q.m = m
  BY <1>4, MessageWellformed, QueryOK
<1>10. /\ q.chain = Chain(net) /\ OneNet(q.chain)
       /\ q.conf.addr # NoAddr => q.at \in 1..Len(s.confs) /\ q.conf = s.confs[q.at]
  BY <1>7, QueryEntry, ChainForOneNet
<1> HIDE DEF b, q, p
<1>11. q.chain # <<>> /\ r = Discover(s, q, {})
  <2>1. r = Answer(s, q, {})
    BY DEF r, DhcpReply, q
  <2>2. Silent(s).kind # "offer"
    BY DEF Silent, Outcome
  <2>3. q.chain # <<>>
    BY <2>1, <2>2 DEF Answer
  <2> QED BY <1>1, <1>4, <1>9, <2>1, <2>3 DEF Answer, SameSender
<1>12. /\ ~Ignored(q) /\ a \in Addr /\ NarrowContext(q.chain, a, q.tags) # <<>>
       /\ a = q.conf.addr \/ AddressAvailable(q.chain, a, q.tags)
       /\ FindByAddr(s.t, a) \in {0, q.lease}
       /\ \/ FindByAddress(s.confs, a) \in {0, q.at}
          \/ q.lease # 0 /\ a = s.t.leases[q.lease].addr
  BY <1>9, <1>10, <1>11, DiscoverOffers DEF a
<1>13. FindByAddress(s.confs, a) \in {0, q.at}
  BY <1>8, <1>12 DEF Outlived, Resembles
<1>14. Describes(p, s) /\ p.m = k
  BY <1>6, <1>12, MessageWellformed, QueryOK DEF p
<1>15. /\ a # NoAddr /\ p.m.reqip = a /\ p.m.server = "this" /\ ~Ignored(p) /\ OneNet(p.chain)
       /\ NarrowContext(p.chain, a, p.tags) # <<>>
       /\ a = p.conf.addr \/ AddressAvailable(p.chain, a, p.tags)
       /\ FindByAddr(s.t, a) \in {0, p.lease} /\ FindByAddress(s.confs, a) \in {0, p.at}
  <2>1. a # NoAddr
    BY <1>12, HostsAssumption
  <2>2. ~Ignored(p)
    BY <1>8, <1>12, SameIgnored
  <2> QED BY <1>5, <1>8, <1>10, <1>12, <1>13, <1>14, <2>1, <2>2 DEF Resembles
<1>16. Request(s, p).why \in {"", "no leases left"}
  BY <1>14, <1>15, RequestGives
<1>17. DhcpReply(s, k, {}) = Request(s, p)
  <2>1. p.chain # <<>> /\ p.m.type = "request"
    BY <1>2, <1>5, <1>8, <1>11, <1>14 DEF Resembles, SameSender
  <2>2. DhcpReply(s, k, {}) = Answer(s, p, {})
    BY DEF DhcpReply, p
  <2> QED BY <2>1, <2>2 DEF Answer
<1> QED
  BY <1>16, <1>17

LEMMA RenewedConfigures ==
    ASSUME NEW s \in State, NEW c \in Clients, NEW a \in Addr,
           Renewed(s, c, a).why = "static lease available"
    PROVE  Configures(Offered(s, c, NetOf[a], a), Query(s, Message(c, "discover", NetOf[a])))
<1> SUFFICES ASSUME NEW net, net = NetOf[a]
             PROVE  Configures(Offered(s, c, net, a), Query(s, Message(c, "discover", net)))
  OBVIOUS
<1> DEFINE base == Message(c, "discover", net)
           asks == Message(c, "request", net)
           m == [base EXCEPT !.reqip = a]
           k == [asks EXCEPT !.ciaddr = a]
           b == Query(s, base)
           q == Query(s, m)
           p == Query(s, k)
<1>1. net \in Nat \cup DOMAIN Router /\ a # NoAddr
  BY HostsAssumption
<1>2. /\ base \in Messages /\ base.type = "discover" /\ base.hw = c.hw /\ base.clid = c.clid
      /\ base.name = c.name /\ base.tags = c.tags /\ base.net = net /\ base.ciaddr = NoAddr
  <2>1. "discover" \in {"discover", "request"}
    OBVIOUS
  <2>2. c \in Clients /\ base = Message(c, "discover", net)
    OBVIOUS
  <2> HIDE DEF base
  <2> QED BY ONLY <1>1, <2>1, <2>2, MessageFields
<1>3. /\ asks \in Messages /\ asks.type = "request" /\ asks.hw = c.hw /\ asks.clid = c.clid
      /\ asks.name = c.name /\ asks.tags = c.tags /\ asks.net = net /\ asks.reqip = NoAddr
  <2>1. "request" \in {"discover", "request"}
    OBVIOUS
  <2>2. c \in Clients /\ asks = Message(c, "request", net)
    OBVIOUS
  <2> HIDE DEF asks
  <2> QED BY ONLY <1>1, <2>1, <2>2, MessageFields
<1> HIDE DEF base, asks
<1>4. 0 \in Term
  BY ONLY LeasesAssumption DEF Term
<1>5. m \in Messages /\ SameSender(m, base) /\ m.ciaddr = NoAddr
  BY <1>2, <1>4, FilledIn, FilledFields
<1>6. k \in Messages /\ SameSender(k, asks) /\ k.ciaddr = a /\ k.reqip = NoAddr
  BY <1>3, <1>4, FilledIn, FilledFields
<1>7. Offered(s, c, net, a) = DhcpReply(s, m, {}) /\ Renewed(s, c, a) = DhcpReply(s, k, {})
  BY DEF Offered, Renewed, m, k, base, asks
<1> HIDE DEF m, k
<1>8. ChainFor(m) = Chain(net) /\ ChainFor(base) = Chain(net) /\ ChainFor(k) = Chain(net)
  BY <1>2, <1>3, <1>5, <1>6 DEF ChainFor, SameSender
<1>9. Resembles(b, q) /\ Resembles(p, q)
  <2>1. /\ m.type # "bootp" /\ base.type # "bootp" /\ k.type # "bootp"
        /\ base.hw = m.hw /\ base.clid = m.clid /\ base.name = m.name /\ base.tags = m.tags
        /\ k.hw = m.hw /\ k.clid = m.clid /\ k.name = m.name /\ k.tags = m.tags
        /\ ChainFor(base) = ChainFor(m) /\ ChainFor(k) = ChainFor(m)
    BY <1>2, <1>3, <1>5, <1>6, <1>8 DEF SameSender
  <2>2. Resembles(b, q)
    BY ONLY <2>1, QuerySame DEF Resembles, b, q
  <2>3. Resembles(p, q)
    BY ONLY <2>1, QuerySame DEF Resembles, p, q
  <2> QED BY <2>2, <2>3
<1>10. q.m = m /\ p.m = k /\ q.conf \in Config /\ q.chain \in Seq(Ranges)
  BY <1>5, <1>6, MessageWellformed, QueryOK DEF Describes
<1>11. q.conf.addr # NoAddr => IsAddrInContext(Nets(q.chain), q.conf)
  BY QueryEntry
<1> HIDE DEF b, q, p
<1>12. /\ p.chain # <<>> /\ Request(s, p).why = "static lease available"
       /\ Renewed(s, c, a) = Request(s, p)
  <2>1. Renewed(s, c, a) = Answer(s, p, {})
    BY <1>7 DEF DhcpReply, p
  <2>2. Silent(s).why # "static lease available"
    BY DEF Silent, Outcome
  <2>3. p.chain # <<>>
    BY <2>1, <2>2 DEF Answer
  <2>4. p.m.type = "request"
    BY <1>3, <1>6, <1>10 DEF SameSender
  <2>5. Answer(s, p, {}) = Request(s, p)
    BY <2>3, <2>4 DEF Answer
  <2> QED BY <2>1, <2>3, <2>5
<1>13. ~Ignored(p) /\ Objection(s, p, a) = "static lease available"
  <2> DEFINE refused == IF Moved(s, p) \/ (p.lease = 0 /\ ~Authoritative)
                        THEN "lease not found" ELSE Objection(s, p, a)
  <2>1. p.m.reqip = NoAddr /\ Wanted(p) = a /\ ~InitReboot(p)
    BY <1>6, <1>10 DEF Wanted, InitReboot
  <2>2. Request(s, p) = IF Ignored(p) \/ NoAnswer(p) THEN Silent(s)
                        ELSE IF refused # "" THEN Outcome(s, "nak", NoAddr, 0, refused)
                        ELSE Acknowledge(s, p, a)
    BY <2>1 DEF Request
  <2> HIDE DEF refused
  <2>3. /\ Silent(s).why = "" /\ Outcome(s, "nak", NoAddr, 0, refused).why = refused
        /\ Acknowledge(s, p, a).why = ""
    BY DEF Silent, Outcome, Acknowledge
  <2>4. ~Ignored(p) /\ refused = "static lease available"
    BY <1>12, <2>2, <2>3
  <2> QED BY <2>4 DEF refused
<1>14. /\ p.conf.addr # NoAddr /\ Router[Head(p.chain).net] # p.conf.addr
       /\ p.conf.declined < 0 /\ FindByAddr(s.t, p.conf.addr) \in {0, p.lease}
  BY <1>13 DEF Objection
<1>15. ConfiguredFree(s, q) /\ ~Ignored(q) /\ q.chain # <<>>
  <2>1. q.conf.declined <= 0
    <3> DEFINE d == q.conf.declined
    <3>1. d \in Int /\ d < 0
      BY <1>9, <1>10, <1>14 DEF Config, Resembles
    <3> HIDE DEF d
    <3>2. d <= 0
      BY ONLY <3>1
    <3> QED BY <3>2 DEF d
  <2>2. ~Ignored(q)
    BY <1>9, <1>13, SameIgnored
  <2> QED BY <1>9, <1>12, <1>14, <2>1, <2>2 DEF ConfiguredFree, Resembles
<1>16. NarrowContext(q.chain, q.conf.addr, q.tags) # <<>>
  <2>1. q.conf.addr # NoAddr
    BY <1>15 DEF ConfiguredFree
  <2>2. Nets(q.chain) # {}
    <3> DEFINE chain == q.chain
    <3>1. chain \in Seq(Ranges) /\ chain # <<>>
      BY <1>10, <1>15
    <3> HIDE DEF chain
    <3>2. 1 \in DOMAIN chain
      BY ONLY <3>1
    <3> QED BY <3>2 DEF Nets, chain
  <2>3. NetOf[q.conf.addr] \in Nets(q.chain)
    BY <1>11, <2>1, <2>2 DEF IsAddrInContext
  <2> QED BY <1>10, <2>1, <2>3, NarrowNear
<1>17. Configures(Discover(s, q, {}), q)
  BY <1>15, <1>16, DiscoverConfigured
<1>18. Offered(s, c, net, a) = Discover(s, q, {})
  <2>1. Offered(s, c, net, a) = Answer(s, q, {})
    BY <1>7 DEF DhcpReply, q
  <2>2. q.m.type = "discover"
    BY <1>2, <1>5, <1>10 DEF SameSender
  <2> QED BY <1>15, <2>1, <2>2 DEF Answer
<1> QED
  BY <1>9, <1>17, <1>18 DEF Configures, Resembles, b, base

LEMMA OInv == Spec => [](IInv /\ CInv)
<1> QED
  BY InitOK, CInit, NextOK, CNext, PTL DEF Spec

(* DISCOVER and REQUEST agree, whatever the entries, ranges, tags and leases
   are: dhcp_reply never offers an address that it then refuses to the client
   that selects it, but for want of room, or offers other than the configured
   address to a client it told to leave its lease for it.  So no client goes
   round and round.                                                          *)
THEOREM DhcpOffersStand == Spec => []OffersStand
<1>1. IInv /\ CInv => OffersStand
  <2> SUFFICES ASSUME IInv, CInv PROVE OffersStandIn(Working)
    BY DEF OffersStand
  <2>1. Working \in State /\ Apart(Working.confs)
    BY WorkingOK DEF Working, CInv
  <2> DEFINE s == Working
  <2>2. s \in State /\ Apart(s.confs)
    BY <2>1
  <2> HIDE DEF s
  <2>3. \A c \in Clients : \A net \in DOMAIN Router, ip \in Addr \cup {NoAddr} :
          Stands(s, c, net, Offered(s, c, net, ip))
    BY <2>2, OfferStands
  <2>4. \A c \in Clients : \A a \in Addr : Renewed(s, c, a).why = "static lease available"
          => Configures(Offered(s, c, NetOf[a], a), Query(s, Message(c, "discover", NetOf[a])))
    BY <2>2, RenewedConfigures
  <2>5. OffersStandIn(s)
    BY <2>3, <2>4 DEF OffersStandIn
  <2> QED BY <2>5 DEF s
<1> QED
  BY <1>1, OInv, PTL

=============================================================================
