------------------------- MODULE ArtilleryBanProofs -------------------------
(***************************************************************************)
(* For any number of threads, addresses and restarts, and with remove_ban  *)
(* in between: artillery blocks and lists nobody but offenders, and who is *)
(* blocked stays so.                                                       *)
(***************************************************************************)
EXTENDS ArtilleryBan, FiniteSetTheorems, TLAPS

-----------------------------------------------------------------------------
(* Sequences.                                                              *)

LEMMA LongerSeq ==
  ASSUME NEW S, NEW T, S \subseteq T, NEW s \in Seq(S)
  PROVE  s \in Seq(T)
  OBVIOUS

LEMMA ElementsOfSeq ==
  ASSUME NEW S, NEW s \in Seq(S)
  PROVE  ToSet(s) \subseteq S
  BY DEF ToSet

LEMMA SeqOfSet ==
  ASSUME NEW S, IsFiniteSet(S)
  PROVE  SetToSeq(S) \in Seq(S)
<1>1. Cardinality(S) \in Nat /\ ExistsBijection(1 .. Cardinality(S), S)
  BY FS_CardinalityType
<1>2. \E f \in [1 .. Cardinality(S) -> S] : IsInjective(f)
  BY <1>1 DEF ExistsBijection, Bijection, Injection
<1>3. SetToSeq(S) \in [1 .. Cardinality(S) -> S]
  BY <1>2 DEF SetToSeq
<1> QED
  BY <1>1, <1>3

LEMMA ReplacedInSeq ==
  ASSUME NEW S, NEW s \in Seq(S), NEW a, NEW r \in Replaced(s, a)
  PROVE  r \in Seq(S)
<1> DEFINE left == {i \in DOMAIN s : s[i] # a}
           n == Cardinality(left)
<1>1. n \in Nat
  <2>1. IsFiniteSet(1 .. Len(s)) /\ left \subseteq 1 .. Len(s)
    BY FS_Interval
  <2> QED
    BY <2>1, FS_Subset, FS_CardinalityType
<1>2. PICK at \in [1 .. n -> left] : r = [k \in 1 .. n |-> s[at[k]]]
  BY DEF Replaced
<1>3. \A k \in 1 .. n : s[at[k]] \in S
  <2> TAKE k \in 1 .. n
  <2>1. at[k] \in left
    BY <1>2
  <2> QED
    BY <2>1
<1> HIDE DEF n, left
<1> QED
  BY <1>1, <1>2, <1>3

LEMMA ValueIn ==
  ASSUME NEW A, NEW B, NEW f \in [A -> B], NEW x \in DOMAIN f
  PROVE  f[x] \in B
  OBVIOUS

LEMMA PutFirst ==
  ASSUME NEW S, NEW s \in Seq(S), NEW x \in S
  PROVE  << x >> \o s \in Seq(S)
  OBVIOUS

LEMMA PutLast ==
  ASSUME NEW S, NEW s \in Seq(S), NEW x \in S
  PROVE  Append(s, x) \in Seq(S)
  OBVIOUS

LEMMA RemovedInSeq ==
  ASSUME NEW S, NEW s \in Seq(S), NEW i \in DOMAIN s
  PROVE  RemoveAt(s, i) \in Seq(S)
  BY DEF RemoveAt

\* To sort is to put each line in a place of its own: none is lost and none added.
LEMMA SortedLines ==
  ASSUME ArtilleryBanAssumption, NEW S, S \subseteq IPs, NEW ips \in Seq(S)
  PROVE  Sorted(ips) \in [DOMAIN ips -> S] /\ ToSet(Sorted(ips)) = ToSet(ips)
<1> DEFINE D == DOMAIN ips
           Before(i, j) == Order[ips[i]] < Order[ips[j]] \/ (Order[ips[i]] = Order[ips[j]] /\ i < j)
           Pre(i) == {j \in D : Before(j, i)}
           Place(i) == 1 + Cardinality(Pre(i))
<1>1. /\ D = 1 .. Len(ips) /\ Len(ips) \in Nat /\ IsFiniteSet(D) /\ Cardinality(D) = Len(ips)
      /\ D \subseteq Nat /\ \A i \in D : Order[ips[i]] \in Nat
  <2>1. D = 1 .. Len(ips) /\ Len(ips) \in Nat /\ \A i \in D : ips[i] \in IPs
    OBVIOUS
  <2>2. IsFiniteSet(1 .. Len(ips)) /\ Cardinality(1 .. Len(ips)) = Len(ips)
    BY <2>1, FS_Interval
  <2>3. Order \in [IPs -> Nat]
    BY DEF ArtilleryBanAssumption
  <2> QED
    BY <2>1, <2>2, <2>3
<1>2. \A i, j \in D : i # j => Before(i, j) \/ Before(j, i)
  BY <1>1
<1>3. \A i \in D : ~Before(i, i)
  BY <1>1
<1>4. \A i, j, k \in D : Before(i, j) /\ Before(j, k) => Before(i, k)
  BY <1>1
<1> HIDE DEF Before, D
<1>5. ASSUME NEW T, T \subseteq D, NEW U, U \subseteq T, NEW x \in T, x \notin U
      PROVE  Cardinality(U) \in Nat /\ Cardinality(U) < Cardinality(T)
  <2>1. IsFiniteSet(T)
    BY <1>1, <1>5, FS_Subset
  <2>2. IsFiniteSet(U) /\ Cardinality(U) <= Cardinality(T) /\ Cardinality(U) # Cardinality(T)
    BY <1>5, <2>1, FS_Subset
  <2> QED
    BY <2>1, <2>2, FS_CardinalityType
<1>6. \A i \in D : Place(i) \in D
  <2> TAKE i \in D
  <2>1. Pre(i) \subseteq D /\ i \in D /\ i \notin Pre(i)
    BY <1>3
  <2> HIDE DEF Pre
  <2>2. Cardinality(Pre(i)) \in Nat /\ Cardinality(Pre(i)) < Cardinality(D)
    BY <1>5, <2>1
  <2> QED
    BY <1>1, <2>2
<1>7. \A i, j \in D : Before(i, j) => Place(i) # Place(j)
  <2> TAKE i, j \in D
  <2> HAVE Before(i, j)
  <2>1. Pre(i) \subseteq Pre(j) /\ i \in Pre(j) /\ i \notin Pre(i) /\ Pre(j) \subseteq D
    BY <1>3, <1>4
  <2> HIDE DEF Pre
  <2>2. Cardinality(Pre(i)) \in Nat /\ Cardinality(Pre(i)) < Cardinality(Pre(j))
    BY <1>5, <2>1
  <2>3. Cardinality(Pre(j)) \in Nat
    BY <1>1, <2>1, FS_Subset, FS_CardinalityType
  <2> QED
    BY <2>2, <2>3
<1> HIDE DEF Place
<1>8. \A i, j \in D : Place(i) = Place(j) => i = j
  BY <1>2, <1>7
<1>9. \A k \in D : \E i \in D : Place(i) = k
  <2> DEFINE f == [i \in D |-> Place(i)]
  <2>1. f \in Injection(D, D)
    BY <1>6, <1>8 DEF Injection, IsInjective
  <2>2. f \in Surjection(D, D)
    BY <1>1, <2>1, FS_Injection
  <2> QED
    BY <2>2 DEF Surjection
<1> DEFINE At(k) == CHOOSE i \in D : Place(i) = k
<1>10. \A k \in D : At(k) \in D
  BY <1>9
<1>11. \A i \in D : At(Place(i)) = i
  BY <1>6, <1>8
<1>12. Sorted(ips) = [k \in D |-> ips[At(k)]]
  BY DEF Sorted, D, Place, Pre, Before
<1> HIDE DEF At
<1>13. \A i \in D : ips[i] \in S
  BY DEF D
<1>14. Sorted(ips) \in [D -> S]
  BY <1>10, <1>12, <1>13
<1>15. \A x : (\E k \in D : x = ips[At(k)]) <=> (\E i \in D : x = ips[i])
  BY <1>6, <1>10, <1>11
<1>16. ToSet(Sorted(ips)) = ToSet(ips)
  <2>1. ToSet(Sorted(ips)) = {ips[At(k)] : k \in D}
    BY <1>12 DEF ToSet
  <2>2. ToSet(ips) = {ips[i] : i \in D}
    BY DEF ToSet, D
  <2>3. \A x : x \in ToSet(Sorted(ips)) <=> \E k \in D : x = ips[At(k)]
    BY <2>1
  <2>4. \A x : x \in ToSet(ips) <=> \E i \in D : x = ips[i]
    BY <2>2
  <2>5. ToSet(Sorted(ips)) \subseteq ToSet(ips)
    BY <1>15, <2>3, <2>4, Zenon
  <2>6. ToSet(ips) \subseteq ToSet(Sorted(ips))
    BY <1>15, <2>3, <2>4, Zenon
  <2> QED
    BY <2>5, <2>6, Zenon
<1> QED
  BY <1>14, <1>16 DEF D

\* What sort_banlist has in memory: the same addresses, in full.
LEMMA SortedData ==
  ASSUME ArtilleryBanAssumption, NEW S, S \subseteq IPs, NEW ips \in Seq(S),
         NEW sorted, sorted = [k \in DOMAIN ips |-> Aton[Sorted(ips)[k]]]
  PROVE  sorted \in Seq(Meant(S)) /\ ToSet(sorted) = Meant(ToSet(ips))
<1>1. Sorted(ips) \in [DOMAIN ips -> S] /\ ToSet(Sorted(ips)) = ToSet(ips)
  BY SortedLines
<1>2. \A k \in DOMAIN ips : sorted[k] = Aton[Sorted(ips)[k]] /\ Sorted(ips)[k] \in S
  BY <1>1
<1>3. DOMAIN sorted = 1 .. Len(ips) /\ Len(ips) \in Nat
  OBVIOUS
<1>4. sorted \in [1 .. Len(ips) -> Meant(S)]
  BY <1>2, <1>3 DEF Meant
<1>5. ToSet(sorted) = Meant(ToSet(Sorted(ips)))
  BY <1>1 DEF ToSet, Meant
<1> QED
  BY <1>1, <1>3, <1>4, <1>5

\* What a write leaves of the lines it does not cover: those behind, and no more than
\* one that is the end of a line.
LEMMA LeftBeyond ==
  ASSUME ArtilleryBanAssumption, NEW S, S \subseteq IPs, NEW ips \in Seq(S), NEW n
  PROVE  /\ Piece(n, ips) \subseteq IPs
         /\ SetToSeq(Piece(n, ips)) \in Seq(Piece(n, ips))
         /\ Covered(n, ips) \in Nat
         /\ Beyond(n, ips) \in Seq(S \union Piece(n, ips))
<1> DEFINE k == Covered(n, ips)
           over == Bytes(SubSeq(ips, 1, k)) - n
<1>1. k \in Nat
  <2> DEFINE touched == {i \in DOMAIN ips : Bytes(SubSeq(ips, 1, i - 1)) < n}
  <2>a. DOMAIN ips = 1 .. Len(ips) /\ Len(ips) \in Nat
    OBVIOUS
  <2>1. touched \subseteq DOMAIN ips /\ IsFiniteSet(1 .. Len(ips))
    BY <2>a, FS_Interval
  <2>2. IsFiniteSet(touched)
    BY <2>a, <2>1, FS_Subset
  <2> QED
    BY <2>2, FS_CardinalityType DEF Covered
<1>i. \A i \in DOMAIN ips : ips[i] \in IPs
  OBVIOUS
<1>2. Piece(n, ips) \subseteq IPs /\ \E x : Piece(n, ips) \subseteq {x}
  <2>1. CASE k \in DOMAIN ips /\ over \in DOMAIN Ends[ips[k]]
    <3>3. Piece(n, ips) = {Ends[ips[k]][over]} \ {NoIP}
      BY <2>1 DEF Piece
    <3> HIDE DEF k, over
    <3>1. ips[k] \in IPs
      BY <1>i, <2>1
    <3>4. Ends[ips[k]] \in [1 .. Size[ips[k]] - 1 -> IPs \union {NoIP}]
      BY <3>1 DEF ArtilleryBanAssumption
    <3>2. Ends[ips[k]][over] \in IPs \union {NoIP}
      BY <2>1, <3>4, ValueIn
    <3> QED
      BY <3>2, <3>3
  <2>2. CASE ~(k \in DOMAIN ips /\ over \in DOMAIN Ends[ips[k]])
    BY <2>2 DEF Piece
  <2> QED
    BY <2>1, <2>2
<1>3. IsFiniteSet(Piece(n, ips))
  <2>1. PICK x : Piece(n, ips) \subseteq {x}
    BY <1>2
  <2> QED
    BY <2>1, FS_Singleton, FS_Subset
<1>4. SetToSeq(Piece(n, ips)) \in Seq(Piece(n, ips))
  BY <1>3, SeqOfSet
<1>5. SubSeq(ips, k + 1, Len(ips)) \in Seq(S)
  BY <1>1
<1> DEFINE both == S \union Piece(n, ips)
<1>6. SetToSeq(Piece(n, ips)) \in Seq(both) /\ SubSeq(ips, k + 1, Len(ips)) \in Seq(both)
  BY <1>4, <1>5, LongerSeq
<1> HIDE DEF both
<1>7. Beyond(n, ips) \in Seq(both)
  BY <1>6 DEF Beyond
<1> QED
  BY <1>1, <1>2, <1>4, <1>7 DEF both

-----------------------------------------------------------------------------
(* Only offenders: the inductive invariant.                                *)

Labels == {"idle", "boot", "read", "next", "up", "drop", "look", "add",
           "sort", "cut", "write", "fetch", "append", "dead"}

File(f) == f = [banner |-> f.banner, ips |-> f.ips]

\* What the variables are made of
Shape ==
  /\ pc \in [Threads -> Labels] /\ ip \in [Threads -> IPs \union {NoIP}]
  /\ File(banlist) /\ File(rm.data)
  /\ rm = [pc |-> rm.pc, ip |-> rm.ip, data |-> rm.data, todo |-> rm.todo]
  /\ seen \subseteq IPs /\ pieces \subseteq IPs

\* Who came over a port or in a feed, and what is left of cut lines
Known == seen \union pieces

Rules(S) == {Drop(a) : a \in S} \union {Accept}

\* Whatever any thread has read, or is about to write or to block
Offenders ==
  /\ banlist.ips \in Seq(Known) /\ rm.data.ips \in Seq(Known)
  /\ data \in [Threads -> Seq(Known)] /\ todo \in Seq(Known)
  /\ chain \in Seq(Rules(Known))
  /\ \A t \in Threads : pc[t] \in {"drop", "look", "add"} => ip[t] \in Known
  /\ \A a \in Known : Aton[a] \in Known

KInv == Shape /\ Offenders

\* What held of those known holds of any larger set.
LEMMA MoreKnown ==
  ASSUME KInv, NEW more, Known \subseteq more
  PROVE  /\ banlist.ips \in Seq(more) /\ rm.data.ips \in Seq(more)
         /\ data \in [Threads -> Seq(more)] /\ todo \in Seq(more)
         /\ chain \in Seq(Rules(more))
<1>1. Rules(Known) \subseteq Rules(more)
  BY DEF Rules
<1>2. \A t \in Threads : data[t] \in Seq(more)
  BY LongerSeq DEF KInv, Offenders
<1>3. data \in [Threads -> Seq(more)]
  BY <1>2 DEF KInv, Offenders
<1>4. banlist.ips \in Seq(more) /\ rm.data.ips \in Seq(more) /\ todo \in Seq(more)
  BY LongerSeq DEF KInv, Offenders
<1>5. chain \in Seq(Rules(more))
  BY <1>1, LongerSeq DEF KInv, Offenders
<1> QED
  BY <1>3, <1>4, <1>5

LEMMA OverlaidFile ==
  ASSUME ArtilleryBanAssumption, KInv, NEW new, new.ips \in Seq(Known), WriteOver(new), seen' = seen
  PROVE  /\ Known \subseteq Known' /\ pieces' \subseteq IPs /\ \A a \in Known' : Aton[a] \in Known'
         /\ File(banlist') /\ banlist'.ips \in Seq(Known')
<1> DEFINE n == Bytes(new.ips)
           left == Piece(n, banlist.ips)
           S == Known \union left
<1>1. Known \subseteq IPs /\ banlist.ips \in Seq(Known)
  BY DEF KInv, Shape, Offenders, Known
<1>2. left \subseteq IPs /\ Beyond(n, banlist.ips) \in Seq(S)
  BY <1>1, LeftBeyond
<1>3. Aton \in [IPs -> IPs] /\ \A a \in IPs : Aton[Aton[a]] = Aton[a]
  BY DEF ArtilleryBanAssumption, Canonical
<1>4. File(banlist')
  BY DEF WriteOver, Overlay, File
<1> HIDE DEF n, left
<1>5. CASE new.banner = banlist.banner
  <2>1. pieces' = pieces \union left \union Meant(left)
    BY <1>5 DEF WriteOver, n, left
  <2>2. Meant(left) \subseteq IPs
    BY <1>2, <1>3 DEF Meant
  <2>3. banlist'.ips = new.ips \o Beyond(n, banlist.ips)
    BY <1>5 DEF WriteOver, Overlay, n
  <2>4. Known \subseteq Known' /\ S \subseteq Known'
    BY <2>1 DEF Known
  <2>5. new.ips \in Seq(Known') /\ Beyond(n, banlist.ips) \in Seq(Known')
    BY <1>2, <2>4, LongerSeq
  <2>6. banlist'.ips \in Seq(Known')
    BY <2>3, <2>5
  <2>7. \A a \in Known' : Aton[a] \in Known'
    <3>1. Known' = Known \union left \union Meant(left)
      BY <2>1 DEF Known
    <3>2. \A a \in Known : Aton[a] \in Known
      BY DEF KInv, Offenders
    <3>3. \A a \in left : Aton[a] \in Meant(left)
      BY DEF Meant
    <3>4. \A a \in Meant(left) : Aton[a] = a
      BY <1>2, <1>3 DEF Meant
    <3> QED
      BY <3>1, <3>2, <3>3, <3>4
  <2> QED
    BY <1>4, <1>2, <2>1, <2>2, <2>4, <2>6, <2>7 DEF KInv, Shape
<1>6. CASE new.banner # banlist.banner
  <2>1. pieces' = pieces
    BY <1>6 DEF WriteOver
  <2>2. Known' = Known
    BY <2>1 DEF Known
  <2>3. banlist'.ips \in {new.ips \o banlist.ips, new.ips \o << >>}
    BY <1>6 DEF WriteOver, Overlay
  <2>4. new.ips \o banlist.ips \in Seq(Known) /\ new.ips \o << >> \in Seq(Known)
    BY <1>1
  <2>5. banlist'.ips \in Seq(Known)
    BY <2>3, <2>4
  <2> QED
    BY <1>4, <2>1, <2>2, <2>5 DEF KInv, Shape, Offenders
<1> QED
  BY <1>5, <1>6

\* What ban and sort_banlist write comes from what they were given or have read.
LEMMA BanKeeps ==
  ASSUME ArtilleryBanAssumption, KInv, NEW t \in Threads, Ban(t)
  PROVE  KInv'
<1> USE DEF KInv, Shape, Offenders, Known, Goto, File, Labels, file, fw, side, loc, cnt, past, After
<1>1. CASE BanDrop(t)
  <2>1. ip[t] \in Known /\ UNCHANGED << seen, pieces, banlist, rm, data, todo, ip >>
    BY <1>1 DEF BanDrop
  <2>2. chain' \in Seq(Rules(Known))
    <3>1. Drop(ip[t]) \in Rules(Known)
      BY <2>1 DEF Rules
    <3>2. chain' = chain \/ chain' = << Drop(ip[t]) >> \o chain
      BY <1>1 DEF BanDrop, InsertDrop
    <3>3. chain \in Seq(Rules(Known))
      OBVIOUS
    <3> HIDE DEF KInv, Offenders, Known
    <3>4. << Drop(ip[t]) >> \o chain \in Seq(Rules(Known))
      BY <3>1, <3>3, PutFirst
    <3> QED
      BY <3>2, <3>3, <3>4
  <2>3. pc' = [pc EXCEPT ![t] = "look"]
    BY <1>1 DEF BanDrop
  <2> QED
    BY <2>1, <2>2, <2>3
<1>2. CASE BanLook(t)
  <2>1. UNCHANGED << seen, pieces, banlist, rm, data, todo, ip, chain >>
    BY <1>2 DEF BanLook
  <2>2. pc[t] = "look" /\ \E l \in {"add", "next", "idle"} : pc' = [pc EXCEPT ![t] = l]
    BY <1>2 DEF BanLook
  <2> QED
    BY <2>1, <2>2
<1>3. CASE BanAdd(t)
  <2>1. ip[t] \in Known /\ UNCHANGED << seen, pieces, rm, data, todo, ip, chain >>
    BY <1>3 DEF BanAdd
  <2>2. File(banlist') /\ banlist'.ips = Append(banlist.ips, ip[t])
    BY <1>3 DEF BanAdd
  <2>3. pc' = [pc EXCEPT ![t] = "sort"]
    BY <1>3 DEF BanAdd
  <2> QED
    BY <2>1, <2>2, <2>3
<1>4. CASE SortRead(t)
  <2> DEFINE sorted == [k \in DOMAIN banlist.ips |-> Aton[Sorted(banlist.ips)[k]]]
  <2>1. UNCHANGED << seen, pieces, banlist, rm, todo, ip, chain >> /\ data' = [data EXCEPT ![t] = sorted]
    BY <1>4 DEF SortRead
  <2>2. pc' = [pc EXCEPT ![t] = "cut"]
    BY <1>4 DEF SortRead
  <2>3. sorted \in Seq(Known)
    <3>1. Known \subseteq IPs /\ banlist.ips \in Seq(Known) /\ Meant(Known) \subseteq Known
      BY DEF Meant
    <3> HIDE DEF KInv, Offenders, Shape, Known
    <3>2. sorted \in Seq(Meant(Known))
      BY <3>1, SortedData
    <3> QED
      BY <3>1, <3>2, LongerSeq
  <2> HIDE DEF sorted
  <2> QED
    BY <2>1, <2>2, <2>3
<1>5. CASE SortCut(t)
  <2>1. UNCHANGED << seen, pieces, rm, data, todo, ip, chain >> /\ banlist' = Blank
    BY <1>5 DEF SortCut
  <2>2. pc' = [pc EXCEPT ![t] = "write"]
    BY <1>5 DEF SortCut
  <2>3. File(banlist') /\ banlist'.ips = << >>
    BY <2>1 DEF Blank
  <2> QED
    BY <2>1, <2>2, <2>3
<1>6. CASE SortWrite(t)
  <2>1. /\ UNCHANGED << seen, rm, todo, ip, chain >>
        /\ data' = [data EXCEPT ![t] = << >>]
        /\ WriteOver(Bannered(data[t]))
    BY <1>6 DEF SortWrite
  <2>2. \E l \in {"next", "idle"} : pc' = [pc EXCEPT ![t] = l]
    BY <1>6 DEF SortWrite
  <2> HIDE DEF KInv, Shape, Offenders, Known
  <2>3. Bannered(data[t]).ips \in Seq(Known)
    BY DEF Bannered, KInv, Offenders
  <2>4. /\ Known \subseteq Known' /\ pieces' \subseteq IPs /\ \A a \in Known' : Aton[a] \in Known'
        /\ File(banlist') /\ banlist'.ips \in Seq(Known')
    BY <2>1, <2>3, OverlaidFile
  <2>5. /\ rm.data.ips \in Seq(Known') /\ data \in [Threads -> Seq(Known')] /\ todo \in Seq(Known')
        /\ chain \in Seq(Rules(Known'))
    BY <2>4, MoreKnown
  <2>6. Shape'
    BY <2>1, <2>2, <2>4 DEF KInv, Shape
  <2>7. data' \in [Threads -> Seq(Known')]
    BY <2>1, <2>5
  <2>8. \A u \in Threads : pc'[u] \in {"drop", "look", "add"} => ip'[u] \in Known'
    BY <2>1, <2>2, <2>4 DEF KInv, Shape, Offenders
  <2> QED
    BY <2>1, <2>4, <2>5, <2>6, <2>7, <2>8 DEF KInv, Offenders, Rules
<1> QED
  BY <1>1, <1>2, <1>3, <1>4, <1>5, <1>6 DEF Ban, SortBanlist

\* The steps of boot, of the firewall's commands and of a kill.
LEMMA BootKeeps ==
  ASSUME KInv, Boot \/ BootRead \/ BootNext \/ RunCommand \/ Killed
  PROVE  KInv'
<1> USE DEF KInv, Shape, Offenders, Known, Goto, File, Labels, file, fw, side, loc, cnt, past
<1>m. Main \in Threads
  BY DEF Threads
<1>1. CASE Boot
  <2>1. UNCHANGED << seen, pieces, banlist, rm, data, todo, ip, chain >>
    BY <1>1 DEF Boot
  <2>2. pc' = [pc EXCEPT ![Main] = "read"]
    BY <1>1 DEF Boot
  <2> QED
    BY <1>m, <2>1, <2>2
<1>2. CASE BootRead
  <2>1. UNCHANGED << seen, pieces, banlist, rm, data, ip, chain >> /\ todo' \in Seq(Known)
    BY <1>2 DEF BootRead
  <2>2. pc' = [pc EXCEPT ![Main] = "next"]
    BY <1>2 DEF BootRead
  <2> QED
    BY <1>m, <2>1, <2>2
<1>3. CASE BootNext
  <2>1. UNCHANGED << seen, pieces, banlist, rm, data, chain >>
    BY <1>3 DEF BootNext
  <2>2. CASE todo = << >>
    <3>1. pc' = [pc EXCEPT ![Main] = "up"] /\ UNCHANGED << ip, todo >>
      BY <1>3, <2>2 DEF BootNext
    <3> QED
      BY <1>m, <2>1, <3>1
  <2>3. CASE todo # << >>
    <3>1. Head(todo) \in Known /\ Tail(todo) \in Seq(Known)
      BY <2>3
    <3>2. ip' = [ip EXCEPT ![Main] = Head(todo)] /\ todo' = Tail(todo)
      BY <1>3, <2>3 DEF BootNext
    <3>3. \E l \in {"next", "drop"} : pc' = [pc EXCEPT ![Main] = l]
      BY <1>3, <2>3 DEF BootNext
    <3> QED
      BY <1>m, <2>1, <3>1, <3>2, <3>3
  <2> QED
    BY <2>2, <2>3
<1>4. CASE RunCommand
  <2>1. UNCHANGED << seen, pieces, banlist, rm, data, todo, ip, pc >>
    BY <1>4 DEF RunCommand
  <2>2. chain' = chain \/ chain' = << >>
    BY <1>4 DEF RunCommand
  <2>3. chain \in Seq(Rules(Known)) /\ << >> \in Seq(Rules(Known))
    OBVIOUS
  <2>4. chain' \in Seq(Rules(Known))
    BY <2>2, <2>3
  <2> QED
    BY <2>1, <2>4
<1>5. CASE Killed
  <2>1. UNCHANGED << seen, pieces, banlist, rm, chain >> /\ todo' = << >>
    BY <1>5 DEF Killed
  <2>2. pc' = FirstPc /\ ip' = NoIPs /\ data' = NoData
    BY <1>5 DEF Killed
  <2>3. pc' \in [Threads -> {"boot", "idle"}] /\ ip' \in [Threads -> {NoIP}]
    BY <2>2 DEF FirstPc, NoIPs
  <2>4. data' \in [Threads -> Seq(Known)]
    BY <2>2 DEF NoData
  <2>5. pc' \in [Threads -> Labels] /\ ip' \in [Threads -> IPs \union {NoIP}]
    BY <2>3
  <2>6. \A t \in Threads : pc'[t] \notin {"drop", "look", "add"}
    <3> HIDE DEF KInv
    <3> QED
      BY <2>3
  <2>7. todo' \in Seq(Known)
    BY <2>1
  <2> HIDE DEF Labels
  <2> QED
    BY <2>1, <2>4, <2>5, <2>6, <2>7
<1> QED
  BY <1>1, <1>2, <1>3, <1>4, <1>5

\* The steps of the honeypot's port and of the feeds: who touches, and what comes
\* in a feed, is noted in seen.
LEMMA ListenKeeps ==
  ASSUME KInv, ListenTcp
  PROVE  KInv'
<1> USE DEF KInv, Shape, Offenders, Known, File, file, fw, side, loc, cnt, past
<1>1. UNCHANGED << seen, pieces, banlist, rm, data, todo, ip, pc >>
  BY DEF ListenTcp
<1>2. chain' = chain \/ chain' = Append(chain, Accept)
  BY DEF ListenTcp
<1>3. Accept \in Rules(Known)
  BY DEF Rules
<1>4. chain \in Seq(Rules(Known))
  OBVIOUS
<1>5. chain' \in Seq(Rules(Known))
  <2> HIDE DEF KInv
  <2> QED
    BY <1>2, <1>3, <1>4, PutLast
<1> QED
  BY <1>1, <1>5

LEMMA TouchKeeps ==
  ASSUME KInv, NEW h \in Handlers, NEW a \in Canonical, Touch(h, a)
  PROVE  KInv'
<1>1. /\ seen' = seen \/ seen' = seen \union {a}
      /\ UNCHANGED << banlist, rm, data, todo, chain, pieces >>
      /\ a \in IPs /\ Aton[a] = a
  BY DEF Touch, file, fw, side, Canonical
<1>2. Known \subseteq Known' /\ Known' \subseteq Known \union {a} /\ seen' \subseteq IPs
  BY <1>1 DEF Known, KInv, Shape
<1>3. /\ banlist'.ips \in Seq(Known') /\ rm'.data.ips \in Seq(Known')
      /\ data' \in [Threads -> Seq(Known')] /\ todo' \in Seq(Known')
      /\ chain' \in Seq(Rules(Known'))
  BY <1>1, <1>2, MoreKnown
<1>4. h \in Threads
  BY DEF Threads
<1>5. /\ pc' \in [Threads -> Labels] /\ ip' \in [Threads -> IPs \union {NoIP}]
      /\ \A t \in Threads : pc'[t] \in {"drop", "look", "add"} => ip'[t] \in Known'
  <2>1. CASE UNCHANGED << pc, ip >>
    BY <1>2, <2>1 DEF KInv, Shape, Offenders
  <2>2. CASE a \in seen' /\ pc' = [pc EXCEPT ![h] = "drop"] /\ ip' = [ip EXCEPT ![h] = a]
    <3>1. a \in Known'
      BY <2>2 DEF Known
    <3> QED
      BY <1>1, <1>2, <1>4, <2>2, <3>1 DEF KInv, Shape, Offenders, Labels
  <2> QED
    BY <2>1, <2>2 DEF Touch, IsWhitelisted, Goto
<1>6. \A b \in Known' : Aton[b] \in Known'
  BY <1>1, <1>2 DEF KInv, Offenders
<1>7. Shape'
  BY <1>1, <1>2, <1>5 DEF KInv, Shape, File
<1> QED
  BY <1>3, <1>5, <1>6, <1>7 DEF KInv, Offenders, Rules

LEMMA FeedKeeps ==
  ASSUME ArtilleryBanAssumption, KInv, PullSourceFeeds \/ FormatIps \/ FeedAppend \/ RefreshLog
  PROVE  KInv'
<1>f. Feed \in Threads
  BY DEF Threads
<1>1. CASE PullSourceFeeds
  <2>1. UNCHANGED << seen, pieces, banlist, rm, data, todo, ip, chain >>
    BY <1>1 DEF PullSourceFeeds, file, fw, side
  <2>2. \E l \in {"fetch", "dead"} : pc' = [pc EXCEPT ![Feed] = l]
    BY <1>1 DEF PullSourceFeeds, Goto
  <2> QED
    BY <1>f, <2>1, <2>2 DEF KInv, Shape, Offenders, Known, Labels, File
<1>2. CASE FormatIps
  <2>1. UNCHANGED << banlist, pieces, rm, todo, ip, chain >>
    BY <1>2 DEF FormatIps, file, fw, side, past
  <2>2. CASE pc' = [pc EXCEPT ![Feed] = "sort"] /\ UNCHANGED << data, seen >>
    BY <1>f, <2>1, <2>2 DEF KInv, Shape, Offenders, Known, Labels, File
  <2>3. CASE \E new \in SUBSET FeedIPs :
               /\ data' = [data EXCEPT ![Feed] = SetToSeq({a \in new : ~Found(a)})]
               /\ seen' = seen \union new \union Meant(new)
               /\ pc' = [pc EXCEPT ![Feed] = "append"]
    <3>1. PICK new \in SUBSET FeedIPs :
               /\ data' = [data EXCEPT ![Feed] = SetToSeq({a \in new : ~Found(a)})]
               /\ seen' = seen \union new \union Meant(new)
               /\ pc' = [pc EXCEPT ![Feed] = "append"]
      BY <2>3
    <3>2. /\ IsFiniteSet(FeedIPs) /\ FeedIPs \subseteq IPs
          /\ Aton \in [IPs -> IPs] /\ \A a \in IPs : Aton[Aton[a]] = Aton[a]
      BY DEF ArtilleryBanAssumption, Canonical
    <3>3. Meant(new) \subseteq IPs
      BY <3>2 DEF Meant
    <3>4. Known' = Known \union new \union Meant(new) /\ seen' \subseteq IPs
      BY <2>1, <3>1, <3>2, <3>3 DEF Known, KInv, Shape
    <3> DEFINE fresh == {a \in new : ~Found(a)}
    <3>5. SetToSeq(fresh) \in Seq(Known')
      <4>1. fresh \subseteq FeedIPs /\ fresh \subseteq Known'
        BY <3>1, <3>4
      <4>2. IsFiniteSet(fresh)
        BY <3>2, <4>1, FS_Subset
      <4>3. SetToSeq(fresh) \in Seq(fresh)
        BY <4>2, SeqOfSet
      <4> HIDE DEF fresh
      <4> QED
        BY <4>1, <4>3, LongerSeq
    <3> HIDE DEF fresh
    <3>6. /\ banlist.ips \in Seq(Known') /\ rm.data.ips \in Seq(Known')
          /\ data \in [Threads -> Seq(Known')] /\ todo \in Seq(Known')
          /\ chain \in Seq(Rules(Known'))
      BY <3>4, MoreKnown
    <3>7. data' \in [Threads -> Seq(Known')]
      BY <3>1, <3>5, <3>6 DEF fresh
    <3>8. \A a \in Known' : Aton[a] \in Known'
      <4>1. \A a \in Known : Aton[a] \in Known
        BY DEF KInv, Offenders
      <4>2. \A a \in new : Aton[a] \in Meant(new)
        BY DEF Meant
      <4>3. \A a \in Meant(new) : Aton[a] = a
        BY <3>1, <3>2 DEF Meant
      <4> QED
        BY <3>4, <4>1, <4>2, <4>3
    <3>9. \A t \in Threads : pc'[t] \in {"drop", "look", "add"} => ip'[t] \in Known'
      BY <2>1, <3>1, <3>4 DEF KInv, Shape, Offenders, Known
    <3>10. Shape'
      BY <2>1, <3>1, <3>4 DEF KInv, Shape, Labels, File
    <3> QED
      BY <2>1, <3>6, <3>7, <3>8, <3>9, <3>10 DEF KInv, Offenders, Rules
  <2> QED
    BY <1>2, <2>2, <2>3 DEF FormatIps, Goto, past
<1>3. CASE FeedAppend
  <2>1. /\ UNCHANGED << seen, pieces, rm, todo, ip, chain >>
        /\ data' = [data EXCEPT ![Feed] = << >>]
        /\ banlist' = [banlist EXCEPT !.ips = @ \o data[Feed]]
    BY <1>3 DEF FeedAppend, fw, side, past
  <2>2. pc' = [pc EXCEPT ![Feed] = "sort"]
    BY <1>3 DEF FeedAppend, Goto
  <2>3. banlist.ips \in Seq(Known) /\ data[Feed] \in Seq(Known)
    BY <1>f DEF KInv, Offenders
  <2>4. banlist = [banner |-> banlist.banner, ips |-> banlist.ips]
    BY DEF KInv, Shape, File
  <2>5. banlist' = [banner |-> banlist.banner, ips |-> banlist.ips \o data[Feed]]
    BY <2>1, <2>4
  <2>6. File(banlist') /\ banlist'.ips \in Seq(Known)
    BY <2>3, <2>5 DEF File
  <2> QED
    BY <1>f, <2>1, <2>2, <2>6 DEF KInv, Shape, Offenders, Known, Labels, File
<1>4. CASE RefreshLog
  <2>1. UNCHANGED << seen, pieces, rm, data, todo, ip, chain, pc >>
    BY <1>4 DEF RefreshLog, fw, file
  <2>2. banlist' = banlist \/ banlist' = Blank
    BY <1>4 DEF RefreshLog, file
  <2>3. File(Blank) /\ Blank.ips = << >>
    BY DEF Blank, File
  <2>4. File(banlist) /\ banlist.ips \in Seq(Known) /\ << >> \in Seq(Known)
    BY DEF KInv, Shape, Offenders, Known
  <2>5. File(banlist') /\ banlist'.ips \in Seq(Known)
    BY <2>2, <2>3, <2>4 DEF File
  <2> QED
    BY <2>1, <2>5 DEF KInv, Shape, Offenders, Known
<1> QED
  BY <1>1, <1>2, <1>3, <1>4

\* remove_ban.py takes lines and rules away, and writes back what it has read.
LEMMA RemoveKeeps ==
  ASSUME ArtilleryBanAssumption, KInv, RemoveBan
  PROVE  KInv'
<1>r. rm = [pc |-> rm.pc, ip |-> rm.ip, data |-> rm.data, todo |-> rm.todo]
  BY DEF KInv, Shape
<1>1. ASSUME NEW a \in Pardons, RmRead(a)
      PROVE  KInv'
  <2>1. UNCHANGED << seen, pieces, banlist, data, todo, ip, chain, pc >>
    BY <1>1 DEF RmRead, file, fw, loc
  <2>2. PICK ips \in Replaced(banlist.ips, a) :
          rm' = [rm EXCEPT !.pc = "cut", !.ip = a, !.data = [banlist EXCEPT !.ips = ips]]
    BY <1>1 DEF RmRead
  <2>3. banlist.ips \in Seq(Known)
    BY DEF KInv, Offenders
  <2>4. ips \in Seq(Known)
    BY <2>2, <2>3, ReplacedInSeq
  <2>5. banlist = [banner |-> banlist.banner, ips |-> banlist.ips]
    BY DEF KInv, Shape, File
  <2>6. rm' = [pc |-> "cut", ip |-> a, todo |-> rm.todo,
               data |-> [banner |-> banlist.banner, ips |-> ips]]
    BY <1>r, <2>2, <2>5
  <2> QED
    BY <2>1, <2>4, <2>6 DEF KInv, Shape, Offenders, Known, File
<1>2. CASE RmCut
  <2>1. UNCHANGED << seen, pieces, data, todo, ip, chain, pc >> /\ banlist' = Blank
    BY <1>2 DEF RmCut, fw, loc, past
  <2>2. rm' = [pc |-> "write", ip |-> rm.ip, data |-> rm.data, todo |-> rm.todo]
    BY <1>r, <1>2 DEF RmCut
  <2>3. File(Blank) /\ Blank.ips = << >>
    BY DEF Blank, File
  <2>4. File(banlist') /\ banlist'.ips \in Seq(Known)
    BY <2>1, <2>3
  <2> QED
    BY <2>1, <2>2, <2>4 DEF KInv, Shape, Offenders, Known
<1>3. CASE RmWrite
  <2>1. UNCHANGED << seen, data, todo, ip, chain, pc >> /\ WriteOver(rm.data)
    BY <1>3 DEF RmWrite, fw, loc, past
  <2>2. rm' = [pc |-> "list", ip |-> rm.ip, data |-> Blank, todo |-> rm.todo]
    BY <1>r, <1>3 DEF RmWrite
  <2>3. rm.data.ips \in Seq(Known)
    BY DEF KInv, Offenders
  <2>4. /\ Known \subseteq Known' /\ pieces' \subseteq IPs /\ \A a \in Known' : Aton[a] \in Known'
        /\ File(banlist') /\ banlist'.ips \in Seq(Known')
    BY <2>1, <2>3, OverlaidFile
  <2>5. /\ data \in [Threads -> Seq(Known')] /\ todo \in Seq(Known')
        /\ chain \in Seq(Rules(Known'))
    BY <2>4, MoreKnown
  <2>6. File(Blank) /\ Blank.ips \in Seq(Known')
    BY DEF Blank, File
  <2>7. Shape'
    BY <2>1, <2>2, <2>4, <2>6 DEF KInv, Shape
  <2>8. \A u \in Threads : pc'[u] \in {"drop", "look", "add"} => ip'[u] \in Known'
    BY <2>1, <2>4 DEF KInv, Offenders
  <2> QED
    BY <2>1, <2>2, <2>4, <2>5, <2>6, <2>7, <2>8 DEF KInv, Offenders, Rules
<1>4. CASE RmList
  <2>1. UNCHANGED << seen, pieces, banlist, data, todo, ip, chain, pc >>
    BY <1>4 DEF RmList, file, fw, loc, past
  <2>2. rm' = [pc |-> "delete", ip |-> rm.ip, data |-> rm.data,
               todo |-> {i \in DOMAIN chain : chain[i] = Drop(rm.ip)}]
    BY <1>r, <1>4 DEF RmList
  <2> QED
    BY <2>1, <2>2 DEF KInv, Shape, Offenders, Known
<1>5. CASE RmDelete
  <2>1. UNCHANGED << seen, pieces, banlist, data, todo, ip, pc >>
    BY <1>5 DEF RmDelete, file, loc, past
  <2>2. PICK n \in rm.todo : /\ rm' = [rm EXCEPT !.todo = @ \ {n}]
                             /\ chain' = IF n \in DOMAIN chain THEN RemoveAt(chain, n) ELSE chain
    BY <1>5 DEF RmDelete
  <2>3. rm' = [pc |-> rm.pc, ip |-> rm.ip, data |-> rm.data, todo |-> rm.todo \ {n}]
    BY <1>r, <2>2
  <2>4. chain \in Seq(Rules(Known))
    BY DEF KInv, Offenders
  <2>5. chain' \in Seq(Rules(Known))
    BY <2>2, <2>4, RemovedInSeq
  <2> QED
    BY <2>1, <2>3, <2>5 DEF KInv, Shape, Offenders, Known
<1> QED
  BY <1>1, <1>2, <1>3, <1>4, <1>5 DEF RemoveBan

\* The inductive invariant: all that the file, the chain and what anybody has read
\* of them are made of came in over a port or a feed.
THEOREM Inductive ==
  Spec => []KInv
<1>1. Init => KInv
  <2> SUFFICES ASSUME Init
               PROVE  KInv
    OBVIOUS
  <2>1. pc \in [Threads -> {"boot", "idle"}] /\ ip \in [Threads -> {NoIP}]
    BY DEF Init, FirstPc, NoIPs
  <2>2. pc \in [Threads -> Labels] /\ \A t \in Threads : pc[t] \notin {"drop", "look", "add"}
    BY <2>1 DEF Labels
  <2>3. data \in [Threads -> Seq(Known)]
    BY DEF Init, NoData
  <2>4. banlist = [banner |-> TRUE, ips |-> << >>]
    BY DEF Init, Blank
  <2>5. rm = [pc |-> "idle", ip |-> NoIP, data |-> [banner |-> FALSE, ips |-> << >>], todo |-> {}]
    BY DEF Init, Blank
  <2>6. seen = {} /\ pieces = {} /\ todo = << >> /\ chain = << >>
    BY DEF Init
  <2>7. Shape
    BY <2>1, <2>2, <2>4, <2>5, <2>6 DEF Shape, File
  <2>8. Offenders
    <3>1. << >> \in Seq(Known) /\ << >> \in Seq(Rules(Known))
      OBVIOUS
    <3>2. banlist.ips = << >> /\ rm.data.ips = << >>
      BY <2>4, <2>5
    <3>3. todo \in Seq(Known) /\ chain \in Seq(Rules(Known))
      BY <2>6, <3>1
    <3>4. banlist.ips \in Seq(Known) /\ rm.data.ips \in Seq(Known)
      BY <3>1, <3>2
    <3> QED
      BY <2>2, <2>3, <2>6, <3>3, <3>4 DEF Offenders, Known
  <2> QED
    BY <2>7, <2>8 DEF KInv
<1>2. KInv /\ [Next]_vars => KInv'
  <2> SUFFICES ASSUME KInv, [Next]_vars
               PROVE  KInv'
    OBVIOUS
  <2> USE ArtilleryBanAssumption
  <2>1. CASE UNCHANGED vars
    BY <2>1 DEF KInv, Shape, Offenders, Known, vars, file, fw, loc, past
  <2>2. ASSUME NEW t \in Threads, Ban(t)
        PROVE  KInv'
    BY <2>2, BanKeeps
  <2>3. CASE MainThread
    BY <2>2, <2>3, BootKeeps DEF MainThread, Threads
  <2>4. CASE RunCommand \/ Killed
    BY <2>4, BootKeeps
  <2>5. CASE ListenTcp
    BY <2>5, ListenKeeps
  <2>6. CASE \E h \in Handlers : Handle(h) \/ \E a \in Canonical : Touch(h, a)
    BY <2>2, <2>6, TouchKeeps DEF Handle, Threads
  <2>7. CASE PullSourceFeeds \/ RefreshLog
    BY <2>7, FeedKeeps
  <2>8. CASE FeedThread
    BY <2>2, <2>8, FeedKeeps DEF FeedThread, Ban, Threads
  <2>9. CASE RemoveBan
    BY <2>9, RemoveKeeps
  <2> QED
    BY <2>1, <2>3, <2>4, <2>5, <2>6, <2>7, <2>8, <2>9 DEF Next
<1> QED
  BY <1>1, <1>2, PTL DEF Spec

-----------------------------------------------------------------------------
(* Who is blocked stays so: the inductive invariant.                       *)

\* No rule of the chain can come behind an ACCEPT but another one.
AcceptsLast ==
  \A i, j \in DOMAIN chain : i < j /\ chain[i] = Accept => chain[j] = Accept

\* Where boot's commands are, if they have come in order.
Commands ==
  /\ cmds \subseteq {"-N", "-F", "-I"}
  /\ orderly /\ On("HONEYPOT_BAN") /\ pc[Main] # "boot" =>
       /\ "-N" \notin cmds => hasChain
       /\ "-I" \notin cmds => jump
  /\ orderly /\ pc[Main] \notin {"boot", "read"} => cmds = {}
  /\ orderly /\ cmds # {} => banned = {}

\* The main thread is by itself until it is up.
Alone ==
  /\ pc[Main] # "up" =>
       /\ listener = "none" /\ recycler = "none"
       /\ \A t \in Threads \ {Main} : pc[t] = "idle"
  /\ rm.pc = "idle" => rm.todo = {}

HasRule(a) == \E i \in DOMAIN chain : chain[i] = Drop(a)

\* What ban has done is in force.
Barred ==
  /\ orderly /\ rm.pc = "idle" => \A a \in banned : jump /\ HasRule(a)
  /\ On("HONEYPOT_BAN") =>
       \A t \in Threads \ {Feed} :
         pc[t] \in {"look", "add", "sort", "cut", "write"} => ip[t] \in banned

BInv == AcceptsLast /\ Commands /\ Alone /\ Barred

LEMMA NeverFound ==
  ASSUME KInv, NEW a
  PROVE  ~IsAlreadyBanned(a)
<1>1. ASSUME NEW r \in Rules(Known)
      PROVE  r # << a >>
  BY DEF Rules, Drop, Accept
<1>2. ToSet(chain) \subseteq Rules(Known)
  BY ElementsOfSeq DEF KInv, Offenders
<1> QED
  BY <1>1, <1>2 DEF IsAlreadyBanned

\* A rule is in force, though it need not be the first of the chain.
LEMMA InForce ==
  ASSUME KInv, AcceptsLast, jump, NEW a, HasRule(a)
  PROVE  Dropped(a)
<1>1. PICK i \in DOMAIN chain : chain[i] = Drop(a)
  BY DEF HasRule
<1>2. Drop(a) # Accept
  BY DEF Drop, Accept
<1>3. chain \in Seq(Rules(Known))
  BY DEF KInv, Offenders
<1>4. \A j \in 1 .. i - 1 : j \in DOMAIN chain /\ j < i
  BY <1>3
<1>5. \A j \in 1 .. i - 1 : chain[j] # Accept
  BY <1>1, <1>2, <1>4 DEF AcceptsLast
<1> QED
  BY <1>1, <1>5 DEF Dropped

\* The ways the chain changes.
LEMMA ChainMoves ==
  ASSUME [Next]_vars
  PROVE  \/ chain' = chain
         \/ RunCommand
         \/ \E t \in Threads : BanDrop(t)
         \/ ListenTcp
         \/ RmDelete
<1>1. ASSUME NEW t \in Threads, Ban(t), ~BanDrop(t)
      PROVE  chain' = chain
  BY <1>1 DEF Ban, BanLook, BanAdd, SortBanlist, SortRead, SortCut, SortWrite, fw
<1>2. CASE MainThread
  BY <1>1, <1>2 DEF MainThread, Boot, BootRead, BootNext, fw, Threads
<1>3. CASE \E h \in Handlers : Handle(h) \/ \E a \in Canonical : Touch(h, a)
  BY <1>1, <1>3 DEF Handle, Touch, fw, Threads
<1>4. CASE FeedThread
  BY <1>1, <1>4 DEF FeedThread, FormatIps, FeedAppend, Ban, fw, Threads
<1>5. CASE RemoveBan
  BY <1>5 DEF RemoveBan, RmRead, RmCut, RmWrite, RmList, fw
<1>6. CASE Killed \/ PullSourceFeeds \/ RefreshLog \/ UNCHANGED vars
  BY <1>6 DEF Killed, PullSourceFeeds, RefreshLog, vars, fw
<1> QED
  BY <1>2, <1>3, <1>4, <1>5, <1>6 DEF Next

LEMMA AcceptsLastKept ==
  ASSUME KInv, AcceptsLast, [Next]_vars
  PROVE  AcceptsLast'
<1>1. chain \in Seq(Rules(Known))
  BY DEF KInv, Offenders
<1> DEFINE AcceptsBehind(s) == \A i, j \in DOMAIN s : i < j /\ s[i] = Accept => s[j] = Accept
<1>2. AcceptsBehind(chain)
  BY DEF AcceptsLast
<1>3. SUFFICES AcceptsBehind(chain')
  BY DEF AcceptsLast
<1>4. CASE chain' = chain
  BY <1>2, <1>4
<1>5. CASE chain' = << >>
  BY <1>5
<1>6. CASE \E a : chain' = << Drop(a) >> \o chain
  <2>1. PICK a : chain' = << Drop(a) >> \o chain
    BY <1>6
  <2>2. Drop(a) # Accept
    BY DEF Drop, Accept
  <2>3. ASSUME NEW i \in DOMAIN chain', NEW j \in DOMAIN chain', i < j, chain'[i] = Accept
        PROVE  chain'[j] = Accept
    <3>1. i # 1
      BY <2>1, <2>2, <2>3, <1>1
    <3>2. /\ i - 1 \in DOMAIN chain /\ j - 1 \in DOMAIN chain /\ i - 1 < j - 1
          /\ chain'[i] = chain[i - 1] /\ chain'[j] = chain[j - 1]
      BY <3>1, <2>1, <2>3, <1>1
    <3> QED
      BY <3>2, <2>3, <1>2
  <2> QED
    BY <2>3
<1>7. CASE chain' = Append(chain, Accept)
  <2>1. ASSUME NEW i \in DOMAIN chain', NEW j \in DOMAIN chain', i < j, chain'[i] = Accept
        PROVE  chain'[j] = Accept
    <3>1. CASE j = Len(chain) + 1
      BY <3>1, <1>1, <1>7
    <3>2. CASE j # Len(chain) + 1
      <4>1. /\ i \in DOMAIN chain /\ j \in DOMAIN chain
            /\ chain'[i] = chain[i] /\ chain'[j] = chain[j]
        BY <3>2, <2>1, <1>1, <1>7
      <4> QED
        BY <4>1, <2>1, <1>2
    <3> QED
      BY <3>1, <3>2
  <2> QED
    BY <2>1
<1>8. CASE \E n \in DOMAIN chain : chain' = RemoveAt(chain, n)
  <2>1. PICK n \in DOMAIN chain : chain' = RemoveAt(chain, n)
    BY <1>8
  <2> DEFINE old(i) == IF i < n THEN i ELSE i + 1
  <2>2. \A i \in DOMAIN chain' : i \in Nat /\ old(i) \in DOMAIN chain /\ chain'[i] = chain[old(i)]
    <3> DEFINE before == SubSeq(chain, 1, n - 1)
               behind == SubSeq(chain, n + 1, Len(chain))
    <3>1. n \in 1 .. Len(chain) /\ Len(chain) \in Nat
      BY <1>1
    <3>2. /\ before \in Seq(Rules(Known)) /\ Len(before) = n - 1
          /\ \A i \in 1 .. n - 1 : before[i] = chain[i]
      BY <1>1, <3>1
    <3>3. /\ behind \in Seq(Rules(Known)) /\ Len(behind) = Len(chain) - n
          /\ \A i \in 1 .. Len(chain) - n : behind[i] = chain[n + i]
      BY <1>1, <3>1
    <3>4. chain' = before \o behind
      BY <2>1 DEF RemoveAt
    <3> HIDE DEF before, behind
    <3>5. DOMAIN chain' = 1 .. Len(chain) - 1
      BY <3>1, <3>2, <3>3, <3>4
    <3> TAKE i \in DOMAIN chain'
    <3>6. i \in 1 .. Len(chain) - 1
      BY <3>5
    <3>7. CASE i < n
      BY <1>1, <3>1, <3>2, <3>3, <3>4, <3>6, <3>7
    <3>8. CASE ~(i < n)
      <4>1. chain'[i] = behind[i - (n - 1)]
        BY <3>1, <3>2, <3>3, <3>4, <3>6, <3>8
      <4>2. i - (n - 1) \in 1 .. Len(chain) - n /\ n + (i - (n - 1)) = i + 1
        BY <3>1, <3>6, <3>8
      <4>3. behind[i - (n - 1)] = chain[i + 1]
        BY <3>3, <4>2
      <4> QED
        BY <1>1, <3>1, <3>6, <3>8, <4>1, <4>3
    <3> QED
      BY <3>7, <3>8
  <2>3. ASSUME NEW i \in DOMAIN chain', NEW j \in DOMAIN chain', i < j, chain'[i] = Accept
        PROVE  chain'[j] = Accept
    <3>1. n \in Nat /\ i \in Nat /\ j \in Nat
      BY <2>2, <1>1
    <3>2. old(i) < old(j)
      BY <3>1, <2>3
    <3> HIDE DEF old
    <3> QED
      BY <3>2, <2>2, <2>3, <1>2
  <2> QED
    BY <2>3
<1> HIDE DEF AcceptsBehind
<1>9. CASE RunCommand
  BY <1>4, <1>5, <1>9 DEF RunCommand
<1>10. CASE \E t \in Threads : BanDrop(t)
  BY <1>4, <1>6, <1>10 DEF BanDrop, InsertDrop
<1>11. CASE ListenTcp
  BY <1>4, <1>7, <1>11 DEF ListenTcp
<1>12. CASE RmDelete
  BY <1>4, <1>8, <1>12 DEF RmDelete
<1> QED
  BY <1>4, <1>9, <1>10, <1>11, <1>12, ChainMoves

Banning == {"drop", "look", "add", "sort", "cut", "write"}

LEMMA BanMoves ==
  ASSUME NEW t, Ban(t)
  PROVE  /\ pc[t] \in Banning
         /\ \E l \in Banning \union {After(t)} : pc' = [pc EXCEPT ![t] = l]
         /\ UNCHANGED << ip, cmds, hasChain, jump, todo, side, cnt, rm, orderly >>
<1> USE DEF Goto, Banning, fw, past, side, cnt
<1>1. CASE BanDrop(t)
  BY <1>1 DEF BanDrop
<1>2. CASE BanLook(t)
  BY <1>2 DEF BanLook
<1>3. CASE BanAdd(t)
  BY <1>3 DEF BanAdd
<1>4. CASE SortBanlist(t)
  BY <1>4 DEF SortBanlist, SortRead, SortCut, SortWrite
<1> QED
  BY <1>1, <1>2, <1>3, <1>4 DEF Ban

\* The steps of honeypot, feeds, refresh_log and remove_ban.py but for what they have
\* of ban: another thread's pc, or none, and nothing of the firewall but the chain.
Elsewhere ==
  \/ ListenTcp \/ (\E h \in Handlers, a \in Canonical : Touch(h, a))
  \/ PullSourceFeeds \/ FormatIps \/ FeedAppend \/ RefreshLog
  \/ RemoveBan \/ UNCHANGED vars

LEMMA NextSplits ==
  ASSUME [Next]_vars
  PROVE  \/ Boot \/ BootRead \/ BootNext \/ RunCommand \/ Killed \/ Elsewhere
         \/ \E t \in Threads : Ban(t)
<1>1. CASE MainThread
  BY <1>1 DEF MainThread, Threads
<1>2. CASE \E h \in Handlers : Handle(h) \/ \E a \in Canonical : Touch(h, a)
  BY <1>2 DEF Handle, Elsewhere, Threads
<1>3. CASE FeedThread
  BY <1>3 DEF FeedThread, Elsewhere, Ban, Threads
<1> QED
  BY <1>1, <1>2, <1>3 DEF Next, Elsewhere

LEMMA ElsewhereMoves ==
  ASSUME ArtilleryBanAssumption, KInv, Alone, Elsewhere
  PROVE  /\ UNCHANGED << cmds, hasChain, jump, banned, orderly, boots >>
         /\ pc'[Main] = pc[Main]
         /\ pc' # pc => pc[Main] = "up"
         /\ \A t \in Threads \ {Feed} : pc'[t] \in {"look", "add", "sort", "cut", "write"} =>
              pc'[t] = pc[t] /\ ip'[t] = ip[t]
<1> USE DEF fw, file, loc, side, cnt, past, Goto
<1>d. Main \in Threads /\ Feed \in Threads /\ Main # Feed /\ pc \in [Threads -> Labels]
  BY DEF Threads, Main, Feed, KInv, Shape
<1>1. CASE ListenTcp
  BY <1>1 DEF ListenTcp
<1>2. ASSUME NEW h \in Handlers, NEW a \in Canonical, Touch(h, a)
      PROVE  /\ UNCHANGED << cmds, hasChain, jump, banned, orderly, boots >>
             /\ pc'[Main] = pc[Main]
             /\ pc' # pc => pc[Main] = "up"
             /\ \A t \in Threads \ {Feed} : pc'[t] \in {"look", "add", "sort", "cut", "write"} =>
                  pc'[t] = pc[t] /\ ip'[t] = ip[t]
  <2>1. h # Main /\ h \in Threads /\ ip \in [Threads -> IPs \union {NoIP}]
    BY DEF ArtilleryBanAssumption, Threads, KInv, Shape
  <2>2. UNCHANGED << cmds, hasChain, jump, banned, orderly, boots >>
    BY <1>2 DEF Touch
  <2>3. pc[Main] = "up"
    BY <1>2 DEF Touch, Alone
  <2>4. \/ UNCHANGED << pc, ip >>
        \/ pc' = [pc EXCEPT ![h] = "drop"] /\ ip' = [ip EXCEPT ![h] = a]
    BY <1>2 DEF Touch
  <2> QED
    BY <1>d, <2>1, <2>2, <2>3, <2>4
<1>3. CASE PullSourceFeeds \/ FormatIps \/ FeedAppend
  <2>1. UNCHANGED << cmds, hasChain, jump, banned, orderly, boots, ip >>
    BY <1>3 DEF PullSourceFeeds, FormatIps, FeedAppend
  <2>2. \E l \in Labels : pc' = [pc EXCEPT ![Feed] = l]
    BY <1>3 DEF PullSourceFeeds, FormatIps, FeedAppend, Labels
  <2>3. pc[Feed] # "idle" \/ pc[Main] = "up"
    BY <1>3 DEF PullSourceFeeds, FormatIps, FeedAppend
  <2>4. pc[Main] = "up"
    BY <1>d, <2>3 DEF Alone
  <2> QED
    BY <1>d, <2>1, <2>2, <2>4
<1>4. CASE RefreshLog
  BY <1>4 DEF RefreshLog
<1>5. CASE RemoveBan
  BY <1>5 DEF RemoveBan, RmRead, RmCut, RmWrite, RmList, RmDelete
<1>6. CASE UNCHANGED vars
  BY <1>6 DEF vars
<1> QED
  BY <1>1, <1>2, <1>3, <1>4, <1>5, <1>6 DEF Elsewhere

LEMMA AloneKept ==
  ASSUME ArtilleryBanAssumption, KInv, Alone, [Next]_vars
  PROVE  Alone'
<1>d. Main \in Threads /\ pc \in [Threads -> Labels]
  BY DEF Threads, KInv, Shape
<1>1. ASSUME UNCHANGED << listener, recycler, rm >>, NEW l, pc' = [pc EXCEPT ![Main] = l],
             pc[Main] # "up"
      PROVE  Alone'
  BY <1>d, <1>1 DEF Alone
<1>2. ASSUME UNCHANGED << listener, recycler, rm >>, pc[Main] = "up", pc'[Main] = "up"
      PROVE  Alone'
  BY <1>2 DEF Alone
<1>3. CASE Boot
  BY <1>1, <1>3 DEF Boot, Goto, side
<1>4. CASE BootRead
  BY <1>1, <1>4 DEF BootRead, Goto, side
<1>5. CASE BootNext
  <2>1. CASE todo = << >>
    <3>1. pc' = [pc EXCEPT ![Main] = "up"] /\ rm' = rm
      BY <1>5, <2>1 DEF BootNext, Goto
    <3> QED
      BY <1>d, <3>1 DEF Alone
  <2>2. CASE todo # << >>
    BY <1>1, <1>5, <2>2 DEF BootNext, Goto, side
  <2> QED
    BY <2>1, <2>2
<1>6. CASE RunCommand
  BY <1>6 DEF RunCommand, loc, side, Alone
<1>7. CASE Killed
  <2>1. rm' = rm /\ listener' = "none" /\ recycler' = "none" /\ pc' = FirstPc
    BY <1>7 DEF Killed
  <2>2. \A t \in Threads \ {Main} : FirstPc[t] = "idle"
    BY DEF FirstPc
  <2> QED
    BY <2>1, <2>2 DEF Alone
<1>8. ASSUME NEW t \in Threads, Ban(t)
      PROVE  Alone'
  <2>1. PICK l : pc' = [pc EXCEPT ![t] = l]
    BY <1>8, BanMoves
  <2>2. UNCHANGED << listener, recycler, rm >> /\ pc[t] \in Banning
    BY <1>8, BanMoves DEF side
  <2>3. CASE t = Main
    BY <1>1, <2>1, <2>2, <2>3 DEF Banning
  <2>4. CASE t # Main
    <3>1. pc[Main] = "up"
      BY <2>2, <2>4 DEF Alone, Banning
    <3> QED
      BY <1>2, <1>d, <2>1, <2>2, <2>4, <3>1
  <2> QED
    BY <2>3, <2>4
<1>9. CASE Elsewhere
  <2>1. pc'[Main] = pc[Main] /\ (pc' # pc => pc[Main] = "up")
    BY <1>9, ElsewhereMoves
  <2>2. CASE UNCHANGED << listener, recycler, rm >>
    BY <2>1, <2>2 DEF Alone
  <2>3. CASE ListenTcp
    <3>1. rm' = rm /\ listener = "start"
      BY <2>3 DEF ListenTcp
    <3> QED
      BY <2>1, <3>1 DEF Alone
  <2>4. CASE RefreshLog
    <3>1. rm' = rm /\ recycler = "run"
      BY <2>4 DEF RefreshLog
    <3> QED
      BY <2>1, <3>1 DEF Alone
  <2>5. CASE RemoveBan
    <3>1. UNCHANGED << listener, recycler, pc >>
      BY <2>5 DEF RemoveBan, RmRead, RmCut, RmWrite, RmList, RmDelete, loc, side
    <3>2. rm = [pc |-> rm.pc, ip |-> rm.ip, data |-> rm.data, todo |-> rm.todo]
      BY DEF KInv, Shape
    <3>3. rm'.pc = "idle" => rm'.todo = {}
      <4>1. CASE RmDelete
        BY <3>2, <4>1 DEF RmDelete, Alone
      <4>2. CASE ~RmDelete
        BY <2>5, <3>2, <4>2 DEF RemoveBan, RmRead, RmCut, RmWrite, RmList
      <4> QED
        BY <4>1, <4>2
    <3> QED
      BY <3>1, <3>3 DEF Alone
  <2>6. CASE ~ListenTcp /\ ~RefreshLog /\ ~RemoveBan
    <3>1. UNCHANGED << listener, recycler, rm >>
      BY <1>9, <2>6 DEF Elsewhere, Touch, PullSourceFeeds, FormatIps, FeedAppend, vars, loc, side
    <3> QED
      BY <2>2, <3>1
  <2> QED
    BY <2>3, <2>4, <2>5, <2>6
<1> QED
  BY <1>3, <1>4, <1>5, <1>6, <1>7, <1>8, <1>9, NextSplits

LEMMA CommandsKept ==
  ASSUME ArtilleryBanAssumption, KInv, BInv, [Next]_vars
  PROVE  Commands'
<1> USE DEF On, ReadConfig
<1>d. Main \in Threads /\ pc \in [Threads -> Labels]
  BY DEF Threads, KInv, Shape
<1>1. CASE Boot
  <2>1. /\ pc' = [pc EXCEPT ![Main] = "read"] /\ orderly' = (cmds = {}) /\ banned' = {}
        /\ cmds' = IF On("HONEYPOT_BAN") THEN {"-N", "-F", "-I"} ELSE cmds
        /\ UNCHANGED << hasChain, jump >>
    BY <1>1 DEF Boot, Goto
  <2>2. pc'[Main] = "read" /\ cmds \subseteq {"-N", "-F", "-I"}
    BY <1>d, <2>1 DEF BInv, Commands
  <2> QED
    BY <2>1, <2>2 DEF Commands
<1>2. CASE BootRead
  <2>1. /\ pc'[Main] = "next" /\ orderly' = (orderly /\ cmds = {}) /\ pc[Main] = "read"
        /\ UNCHANGED << cmds, hasChain, jump, banned >>
    BY <1>d, <1>2 DEF BootRead, Goto, fw
  <2> QED
    BY <2>1 DEF BInv, Commands
<1>3. CASE BootNext
  <2>1. pc'[Main] \in {"up", "next", "drop"} /\ pc[Main] = "next"
    BY <1>d, <1>3 DEF BootNext, Goto
  <2>2. UNCHANGED << cmds, hasChain, jump, banned, orderly >>
    BY <1>3 DEF BootNext, fw, past
  <2> QED
    BY <2>1, <2>2 DEF BInv, Commands
<1>4. CASE RunCommand
  <2>1. PICK c \in cmds :
          /\ cmds' = cmds \ {c}
          /\ orderly' = (orderly /\ \A d \in cmds : c = d \/ << c, d >> \in {
               << "-N", "-F" >>, << "-N", "-I" >>, << "-F", "-I" >>})
          /\ hasChain' = (hasChain \/ c = "-N")
          /\ jump' = (jump \/ (c = "-I" /\ hasChain))
    BY <1>4 DEF RunCommand
  <2>2. UNCHANGED << pc, banned >> /\ cmds \subseteq {"-N", "-F", "-I"}
    BY <1>4 DEF RunCommand, loc, BInv, Commands
  <2>3. orderly' => orderly
    BY <2>1
  <2>4. orderly' /\ c = "-I" => "-N" \notin cmds
    BY <2>1
  <2>5. orderly' /\ On("HONEYPOT_BAN") /\ pc'[Main] # "boot" =>
          /\ "-N" \notin cmds' => hasChain'
          /\ "-I" \notin cmds' => jump'
    BY <2>1, <2>2, <2>3, <2>4 DEF BInv, Commands
  <2>6. orderly' /\ pc'[Main] \notin {"boot", "read"} => cmds' = {}
    BY <2>1, <2>2, <2>3 DEF BInv, Commands
  <2>7. orderly' /\ cmds' # {} => banned' = {}
    BY <2>1, <2>2, <2>3 DEF BInv, Commands
  <2> QED
    BY <2>1, <2>2, <2>5, <2>6, <2>7 DEF Commands
<1>5. CASE Killed
  <2>1. pc'[Main] = "boot"
    BY <1>5, <1>d DEF Killed, FirstPc
  <2>2. UNCHANGED << cmds, hasChain, jump, banned, orderly >>
    BY <1>5 DEF Killed, fw
  <2> QED
    BY <2>1, <2>2 DEF BInv, Commands
<1>6. ASSUME NEW t \in Threads, Ban(t)
      PROVE  Commands'
  <2>1. UNCHANGED << cmds, hasChain, jump, orderly >> /\ pc[t] \in Banning
    BY <1>6, BanMoves
  <2>2. PICK l \in Banning \union {After(t)} : pc' = [pc EXCEPT ![t] = l]
    BY <1>6, BanMoves
  <2>3. pc[Main] \notin {"boot", "read"} /\ pc'[Main] \notin {"boot", "read"}
    <3>1. CASE t = Main
      BY <3>1, <1>d, <2>1, <2>2 DEF Banning, After
    <3>2. CASE t # Main
      BY <3>2, <1>d, <2>1, <2>2 DEF Banning, BInv, Alone
    <3> QED
      BY <3>1, <3>2
  <2> QED
    BY <2>1, <2>3 DEF BInv, Commands
<1>7. CASE Elsewhere
  <2>1. UNCHANGED << cmds, hasChain, jump, banned, orderly >> /\ pc'[Main] = pc[Main]
    BY <1>7, ElsewhereMoves DEF BInv
  <2> QED
    BY <2>1 DEF BInv, Commands
<1> QED
  BY <1>1, <1>2, <1>3, <1>4, <1>5, <1>6, <1>7, NextSplits

\* A rule put first is there, and so are those that were.
LEMMA RulePut ==
  ASSUME KInv, NEW a, chain' = << Drop(a) >> \o chain
  PROVE  HasRule(a)' /\ \A b : HasRule(b) => HasRule(b)'
<1>1. chain \in Seq(Rules(Known))
  BY DEF KInv, Offenders
<1>2. 1 \in DOMAIN chain' /\ chain'[1] = Drop(a)
  BY <1>1
<1>3. \A i \in DOMAIN chain : i + 1 \in DOMAIN chain' /\ chain'[i + 1] = chain[i]
  BY <1>1
<1> QED
  BY <1>2, <1>3 DEF HasRule

LEMMA BarredKept ==
  ASSUME ArtilleryBanAssumption, KInv, BInv, [Next]_vars
  PROVE  Barred'
<1> USE DEF On, ReadConfig
<1> DEFINE ToCome == {"look", "add", "sort", "cut", "write"}
<1>d. /\ Main \in Threads /\ pc \in [Threads -> Labels] /\ ip \in [Threads -> IPs \union {NoIP}]
      /\ chain \in Seq(Rules(Known))
  BY DEF Threads, KInv, Shape, Offenders
<1>b. Barred /\ Commands /\ Alone
  BY DEF BInv
<1>1. ASSUME UNCHANGED << chain, jump, banned, orderly >>, rm'.pc = "idle" => rm.pc = "idle",
             \A t \in Threads \ {Feed} : pc'[t] \in ToCome => pc'[t] = pc[t] /\ ip'[t] = ip[t]
      PROVE  Barred'
  BY <1>1, <1>b DEF Barred, HasRule
<1>2. CASE Boot
  <2>1. banned' = {} /\ pc' = [pc EXCEPT ![Main] = "read"] /\ pc[Main] = "boot"
    BY <1>2 DEF Boot, Goto
  <2>2. \A t \in Threads : pc'[t] \notin ToCome
    BY <1>b, <1>d, <2>1 DEF Alone
  <2> QED
    BY <2>1, <2>2 DEF Barred
<1>3. CASE BootRead
  <2>1. /\ UNCHANGED << chain, jump, banned, rm, ip >> /\ pc' = [pc EXCEPT ![Main] = "next"]
        /\ orderly' => orderly
    BY <1>3 DEF BootRead, Goto, fw
  <2> QED
    BY <1>b, <1>d, <2>1 DEF Barred, HasRule
<1>4. CASE BootNext
  <2>1. UNCHANGED << chain, jump, banned, rm, orderly >>
    BY <1>4 DEF BootNext, fw, past
  <2>2. /\ \E l \in {"up", "next", "drop"} : pc' = [pc EXCEPT ![Main] = l]
        /\ \A t \in Threads \ {Main} : ip'[t] = ip[t]
    BY <1>4, <1>d DEF BootNext, Goto
  <2> QED
    BY <1>1, <1>d, <2>1, <2>2
<1>5. CASE RunCommand
  <2>1. UNCHANGED << pc, ip, rm, banned >>
    BY <1>5 DEF RunCommand, loc
  <2>2. (orderly' => orderly) /\ (jump => jump') /\ cmds # {}
    BY <1>5 DEF RunCommand
  <2>3. orderly' => banned' = {}
    BY <1>b, <2>1, <2>2 DEF Commands
  <2> QED
    BY <1>b, <2>1, <2>3 DEF Barred
<1>6. CASE Killed
  <2>1. UNCHANGED << chain, jump, banned, rm, orderly >> /\ pc' = FirstPc
    BY <1>6 DEF Killed, fw
  <2>2. \A t \in Threads : FirstPc[t] \notin ToCome
    BY DEF FirstPc
  <2> QED
    BY <1>1, <2>1, <2>2
<1>7. ASSUME NEW t \in Threads, Ban(t)
      PROVE  Barred'
  <2>1. UNCHANGED << ip, cmds, hasChain, jump, rm, orderly >> /\ pc[t] \in Banning
    BY <1>7, BanMoves
  <2>2. PICK l \in Banning \union {After(t)} : pc' = [pc EXCEPT ![t] = l]
    BY <1>7, BanMoves
  <2>3. CASE ~BanDrop(t)
    <3>1. UNCHANGED << chain, banned >> /\ pc[t] # "drop"
      BY <1>7, <2>3 DEF Ban, BanLook, BanAdd, SortBanlist, SortRead, SortCut, SortWrite, fw
    <3>2. pc[t] \in ToCome
      BY <2>1, <3>1 DEF Banning
    <3> QED
      BY <1>b, <1>d, <2>1, <2>2, <3>1, <3>2 DEF Barred, HasRule
  <2>4. CASE BanDrop(t)
    <3>1. /\ \/ On("HONEYPOT_BAN") /\ InsertDrop(ip[t])
             \/ ~On("HONEYPOT_BAN") /\ UNCHANGED << chain, banned >>
          /\ pc' = [pc EXCEPT ![t] = "look"]
      BY <2>4, NeverFound DEF BanDrop, Goto
    <3>2. CASE ~On("HONEYPOT_BAN")
      BY <1>b, <2>1, <3>1, <3>2 DEF Barred, HasRule
    <3>3. CASE On("HONEYPOT_BAN")
      <4>1. InsertDrop(ip[t])
        BY <3>1, <3>3
      <4>2. banned' = banned \union {ip[t]}
        BY <4>1 DEF InsertDrop
      <4>3. pc[Main] \notin {"boot", "read"}
        BY <1>b, <2>1 DEF Alone, Banning
      <4>4. orderly => hasChain /\ jump
        BY <1>b, <3>3, <4>3 DEF Commands
      <4>5. ASSUME orderly', rm'.pc = "idle", NEW a \in banned'
            PROVE  jump' /\ HasRule(a)'
        <5>1. orderly /\ rm.pc = "idle" /\ jump'
          BY <2>1, <4>4, <4>5
        <5>2. chain' = << Drop(ip[t]) >> \o chain
          BY <4>1, <4>4, <5>1 DEF InsertDrop
        <5>3. HasRule(ip[t])' /\ \A b : HasRule(b) => HasRule(b)'
          <6>1. PICK x : x = ip[t]
            OBVIOUS
          <6>2. HasRule(x)' /\ \A b : HasRule(b) => HasRule(b)'
            BY <5>2, <6>1, RulePut
          <6> QED
            BY <2>1, <6>1, <6>2 DEF HasRule
        <5>4. CASE a = ip[t]
          BY <5>1, <5>3, <5>4, <2>1 DEF HasRule
        <5>5. CASE a \in banned
          BY <1>b, <5>1, <5>3, <5>5 DEF Barred
        <5> QED
          BY <4>2, <5>4, <5>5
      <4>6. \A r \in Threads \ {Feed} : pc'[r] \in ToCome => ip'[r] \in banned'
        BY <1>b, <1>d, <2>1, <3>1, <3>3, <4>2 DEF Barred
      <4> QED
        BY <4>5, <4>6 DEF Barred
    <3> QED
      BY <3>2, <3>3
  <2> QED
    BY <2>3, <2>4
<1>8. CASE Elsewhere
  <2>1. /\ UNCHANGED << jump, banned, orderly >>
        /\ \A t \in Threads \ {Feed} : pc'[t] \in ToCome => pc'[t] = pc[t] /\ ip'[t] = ip[t]
    BY <1>8, <1>b, ElsewhereMoves
  <2>2. rm = [pc |-> rm.pc, ip |-> rm.ip, data |-> rm.data, todo |-> rm.todo]
    BY DEF KInv, Shape
  <2>3. CASE ListenTcp
    <3>1. rm' = rm /\ (chain' = chain \/ chain' = Append(chain, Accept))
      BY <2>3 DEF ListenTcp
    <3>2. \A i \in DOMAIN chain : i \in DOMAIN chain' /\ chain'[i] = chain[i]
      <4>1. CASE chain' = chain
        BY <4>1
      <4>2. CASE chain' = Append(chain, Accept)
        BY <1>d, <4>2
      <4> QED
        BY <3>1, <4>1, <4>2
    <3>3. \A a : HasRule(a) => HasRule(a)'
      BY <3>2 DEF HasRule
    <3> QED
      BY <1>b, <2>1, <3>1, <3>3 DEF Barred
  <2>4. CASE RemoveBan
    <3>1. rm'.pc = "idle" => rm' = rm /\ chain' = chain /\ rm.pc = "idle"
      BY <1>b, <2>2, <2>4 DEF RemoveBan, RmRead, RmCut, RmWrite, RmList, RmDelete, Alone
    <3> QED
      BY <1>b, <2>1, <3>1 DEF Barred, HasRule
  <2>5. CASE ~ListenTcp /\ ~RemoveBan
    <3>1. UNCHANGED << chain, rm >>
      BY <1>8, <2>5 DEF Elsewhere, Touch, PullSourceFeeds, FormatIps, FeedAppend, RefreshLog, vars, fw
    <3> QED
      BY <1>1, <2>1, <3>1
  <2> QED
    BY <2>3, <2>4, <2>5
<1> QED
  BY <1>2, <1>3, <1>4, <1>5, <1>6, <1>7, <1>8, NextSplits

\* What ban and boot have done to the firewall fits what they noted of it, at every
\* point of a boot, a kill and the three commands that nobody waits for.
THEOREM FirewallInductive ==
  Spec => []BInv
<1>1. Init => BInv
  <2> SUFFICES ASSUME Init
               PROVE  BInv
    OBVIOUS
  <2>1. pc = FirstPc /\ Main \in Threads
    BY DEF Init, Threads
  <2>2. \A t \in Threads : pc[t] = IF t = Main THEN "boot" ELSE "idle"
    BY <2>1 DEF FirstPc
  <2>3. AcceptsLast /\ Commands
    BY <2>1, <2>2 DEF Init, AcceptsLast, Commands
  <2>4. Alone
    BY <2>2 DEF Init, Alone
  <2>5. Barred
    BY <2>2 DEF Init, Barred
  <2> QED
    BY <2>3, <2>4, <2>5 DEF BInv
<1>2. KInv /\ BInv /\ [Next]_vars => BInv'
  <2> SUFFICES ASSUME KInv, BInv, [Next]_vars
               PROVE  BInv'
    OBVIOUS
  <2>1. AcceptsLast'
    BY AcceptsLastKept DEF BInv
  <2>2. Commands'
    BY ArtilleryBanAssumption, CommandsKept
  <2>3. Alone'
    BY ArtilleryBanAssumption, AloneKept DEF BInv
  <2>4. Barred'
    BY ArtilleryBanAssumption, BarredKept
  <2> QED
    BY <2>1, <2>2, <2>3, <2>4 DEF BInv
<1> QED
  BY <1>1, <1>2, Inductive, PTL DEF Spec

\* "It blacklists them forever" (README.md:5), until the next restart, if boot's
\* commands came in order and remove_ban.py has not deleted rules by number: whoever
\* ban() has put in the firewall is shut out, ACCEPT rules or not.
THEOREM StaysDropped ==
  Spec => []BannedStaysDropped
<1>1. KInv /\ BInv => BannedStaysDropped
  BY InForce DEF BInv, Barred, BannedStaysDropped
<1> QED
  BY <1>1, Inductive, FirewallInductive, PTL

\* Who touches a honeypot port is shut out before anything is done about the file.
THEOREM DroppedFirst ==
  Spec => []OffenderDropped
<1>1. KInv /\ BInv => OffenderDropped
  BY InForce DEF BInv, Barred, OffenderDropped
<1> QED
  BY <1>1, Inductive, FirewallInductive, PTL

-----------------------------------------------------------------------------
(* A restart blocks the whole file.                                        *)

\* What boot has blocked, is about to block, or has yet to get to.
Ahead ==
  banned \union ToSet(todo) \union (IF pc[Main] = "drop" THEN {ip[Main]} ELSE {})

FileAhead ==
  On("HONEYPOT_BAN") /\ rm.pc = "idle" /\ pc[Main] \notin {"boot", "read", "up"} =>
    /\ Meant(ToSet(banlist.ips)) \subseteq Meant(Ahead)
    /\ pc[Main] \in {"cut", "write"} => Meant(ToSet(data[Main])) \subseteq Meant(Ahead)
    /\ pc[Main] = "write" => banlist.ips = << >>

LEMMA MeantMore ==
  ASSUME NEW S, NEW T, S \subseteq T
  PROVE  Meant(S) \subseteq Meant(T)
  BY DEF Meant

LEMMA MeantTwice ==
  ASSUME ArtilleryBanAssumption, NEW S, S \subseteq IPs
  PROVE  Meant(Meant(S)) = Meant(S)
<1>1. \A a \in S : Aton[Aton[a]] = Aton[a]
  BY DEF ArtilleryBanAssumption, Canonical
<1> QED
  BY <1>1 DEF Meant

\* A write over nothing is what it is meant to be.
LEMMA OverNothing ==
  ASSUME ArtilleryBanAssumption, NEW new, new.ips \in Seq(IPs), banlist.ips = << >>
  PROVE  Overlay(new).ips = new.ips /\ (WriteOver(new) => pieces' = pieces)
<1> DEFINE n == Bytes(new.ips)
<1>1. banlist.ips \in Seq({}) /\ DOMAIN banlist.ips = {}
  OBVIOUS
<1>2. Piece(n, banlist.ips) = {}
  BY <1>1 DEF Piece
<1>3. Covered(n, banlist.ips) = 0
  <2>1. {i \in DOMAIN banlist.ips : Bytes(SubSeq(banlist.ips, 1, i - 1)) < n} = {}
    BY <1>1
  <2> QED
    BY <2>1, FS_EmptySet DEF Covered
<1>4. SetToSeq(Piece(n, banlist.ips)) = << >>
  <2>1. SetToSeq({}) \in Seq({})
    BY SeqOfSet, FS_EmptySet
  <2>2. \A q \in Seq({}) : q = << >>
    OBVIOUS
  <2> QED
    BY <1>2, <2>1, <2>2
<1>5. Beyond(n, banlist.ips) = << >>
  BY <1>3, <1>4 DEF Beyond
<1>6. Overlay(new).ips = new.ips \o << >>
  BY <1>5 DEF Overlay, n
<1>7. WriteOver(new) => pieces' = pieces
  BY <1>2 DEF WriteOver, Meant, n
<1> QED
  BY <1>6, <1>7

LEMMA BanKeepsAhead ==
  ASSUME ArtilleryBanAssumption, KInv, BInv, FileAhead, Ban(Main), On("HONEYPOT_BAN"), rm.pc = "idle"
  PROVE  /\ pc'[Main] # "up" /\ Meant(ToSet(banlist'.ips)) \subseteq Meant(Ahead')
         /\ pc'[Main] \in {"cut", "write"} => Meant(ToSet(data'[Main])) \subseteq Meant(Ahead')
         /\ pc'[Main] = "write" => banlist'.ips = << >>
<1>d. /\ Main \in Threads /\ pc \in [Threads -> Labels] /\ data \in [Threads -> Seq(Known)]
      /\ Known \subseteq IPs /\ banlist.ips \in Seq(IPs) /\ data[Main] \in Seq(IPs)
      /\ banlist = [banner |-> banlist.banner, ips |-> banlist.ips]
  <2>1. /\ Main \in Threads /\ pc \in [Threads -> Labels] /\ data \in [Threads -> Seq(Known)]
        /\ Known \subseteq IPs /\ banlist.ips \in Seq(Known)
        /\ banlist = [banner |-> banlist.banner, ips |-> banlist.ips]
    BY DEF Threads, KInv, Shape, Offenders, File, Known
  <2> QED
    BY <2>1, LongerSeq
<1>f. /\ Meant(ToSet(banlist.ips)) \subseteq Meant(Ahead)
      /\ pc[Main] \in {"cut", "write"} => Meant(ToSet(data[Main])) \subseteq Meant(Ahead)
      /\ pc[Main] = "write" => banlist.ips = << >>
  BY BanMoves DEF FileAhead, Banning
<1>1. CASE BanDrop(Main)
  <2>1. /\ pc[Main] = "drop" /\ pc'[Main] = "look" /\ UNCHANGED << banlist, todo >>
        /\ banned' = banned \union {ip[Main]}
    BY <1>1, <1>d, NeverFound DEF BanDrop, InsertDrop, Goto, file
  <2>2. Ahead' = Ahead
    BY <2>1 DEF Ahead
  <2> QED
    BY <1>f, <2>1, <2>2
<1>2. CASE ~BanDrop(Main)
  <2>1. UNCHANGED << banned, todo >> /\ pc[Main] # "drop" /\ pc'[Main] \notin {"drop", "up"}
    BY <1>2, <1>d DEF Ban, BanLook, BanAdd, SortBanlist, SortRead, SortCut, SortWrite, Goto, After, fw
  <2>2. Ahead' = Ahead
    BY <2>1 DEF Ahead
  <2>3. CASE BanLook(Main)
    BY <1>d, <1>f, <2>2, <2>3 DEF BanLook, Goto, After
  <2>4. CASE BanAdd(Main)
    <3>1. ip[Main] \in banned
      <4>1. pc[Main] = "add" /\ Main \in Threads \ {Feed}
        BY <2>4, <1>d DEF BanAdd, Main, Feed
      <4> QED
        BY <4>1 DEF BInv, Barred
    <3>2. banlist'.ips = Append(banlist.ips, ip[Main]) /\ pc'[Main] = "sort"
      BY <1>d, <2>4 DEF BanAdd, Goto
    <3>3. ToSet(banlist'.ips) \subseteq ToSet(banlist.ips) \union {ip[Main]}
      BY <1>d, <3>2 DEF ToSet
    <3>4. Meant(ToSet(banlist'.ips)) \subseteq Meant(ToSet(banlist.ips)) \union Meant(banned)
      BY <3>1, <3>3 DEF Meant
    <3>5. Meant(banned) \subseteq Meant(Ahead)
      BY MeantMore DEF Ahead
    <3> QED
      BY <1>f, <2>2, <3>2, <3>4, <3>5
  <2>5. CASE SortRead(Main)
    <3> DEFINE sorted == [k \in DOMAIN banlist.ips |-> Aton[Sorted(banlist.ips)[k]]]
    <3>1. data'[Main] = sorted /\ banlist' = banlist /\ pc'[Main] = "cut"
      BY <1>d, <2>5 DEF SortRead, file, Goto
    <3>5. sorted = [k \in DOMAIN banlist.ips |-> Aton[Sorted(banlist.ips)[k]]]
      OBVIOUS
    <3>6. banlist.ips \in Seq(IPs) /\ IPs \subseteq IPs
      BY <1>d
    <3> HIDE DEF sorted
    <3>2. ToSet(sorted) = Meant(ToSet(banlist.ips))
      BY <3>5, <3>6, SortedData
    <3>3. ToSet(banlist.ips) \subseteq IPs
      BY <1>d, ElementsOfSeq
    <3>4. Meant(ToSet(sorted)) = Meant(ToSet(banlist.ips))
      BY <3>2, <3>3, MeantTwice
    <3> QED
      BY <1>f, <2>1, <2>2, <3>1, <3>4
  <2>6. CASE SortCut(Main)
    <3>1. data' = data /\ banlist'.ips = << >> /\ pc[Main] = "cut"
      BY <2>6 DEF SortCut, Blank
    <3>2. Meant(ToSet(banlist'.ips)) = {}
      BY <3>1 DEF ToSet, Meant
    <3> QED
      BY <1>f, <2>1, <2>2, <3>1, <3>2
  <2>7. CASE SortWrite(Main)
    <3>1. /\ WriteOver(Bannered(data[Main])) /\ pc[Main] = "write"
          /\ pc'[Main] = "next"
      BY <1>d, <2>7 DEF SortWrite, Goto, After
    <3>2. Bannered(data[Main]).ips = data[Main]
      BY DEF Bannered
    <3>3. banlist'.ips = data[Main]
      BY <1>d, <1>f, <3>1, <3>2, OverNothing DEF WriteOver
    <3> QED
      BY <1>f, <2>2, <3>1, <3>3
  <2> QED
    BY <1>2, <2>3, <2>4, <2>5, <2>6, <2>7 DEF Ban, SortBanlist
<1> QED
  BY <1>1, <1>2

LEMMA FileAheadKept ==
  ASSUME ArtilleryBanAssumption, KInv, BInv, FileAhead, [Next]_vars
  PROVE  FileAhead'
<1>d. /\ Main \in Threads /\ pc \in [Threads -> Labels] /\ ip \in [Threads -> IPs \union {NoIP}]
      /\ data \in [Threads -> Seq(Known)] /\ todo \in Seq(Known)
      /\ rm = [pc |-> rm.pc, ip |-> rm.ip, data |-> rm.data, todo |-> rm.todo]
  BY DEF Threads, KInv, Shape, Offenders
<1>1. CASE Boot \/ Killed
  <2>1. pc'[Main] \in {"boot", "read"}
    BY <1>1, <1>d DEF Boot, Killed, FirstPc, Goto
  <2> QED
    BY <2>1 DEF FileAhead
<1>2. CASE BootRead
  <2>1. /\ On("HONEYPOT_BAN") => todo' = banlist.ips
        /\ pc'[Main] = "next" /\ banlist' = banlist
    BY <1>2, <1>d DEF BootRead, Goto, file
  <2>2. On("HONEYPOT_BAN") => ToSet(banlist'.ips) \subseteq Ahead'
    BY <2>1 DEF Ahead, On, ReadConfig
  <2>3. On("HONEYPOT_BAN") => Meant(ToSet(banlist'.ips)) \subseteq Meant(Ahead')
    BY <2>2, MeantMore
  <2> QED
    BY <2>1, <2>3 DEF FileAhead, On, ReadConfig, Meant
<1>3. CASE BootNext
  <2>1. UNCHANGED << banlist, banned, data, rm >> /\ pc[Main] = "next"
    BY <1>3 DEF BootNext, file, fw
  <2>2. CASE todo = << >>
    <3>1. pc'[Main] = "up"
      BY <1>3, <1>d, <2>2 DEF BootNext, Goto
    <3> QED
      BY <3>1 DEF FileAhead
  <2>3. CASE todo # << >>
    <3>1. pc'[Main] = "drop" /\ ip'[Main] = Head(todo) /\ todo' = Tail(todo)
      BY <1>3, <1>d, <2>3, NeverFound DEF BootNext, Goto
    <3>2. ToSet(todo) \subseteq {Head(todo)} \union ToSet(Tail(todo))
      <4>1. \A i \in DOMAIN todo : i = 1 \/ (i - 1 \in DOMAIN Tail(todo) /\ Tail(todo)[i - 1] = todo[i])
        BY <1>d, <2>3
      <4>3. todo[1] = Head(todo)
        BY <1>d, <2>3
      <4>2. \A i \in DOMAIN todo : todo[i] = Head(todo) \/ \E j \in DOMAIN Tail(todo) : todo[i] = Tail(todo)[j]
        BY <4>1, <4>3
      <4> QED
        BY <4>2 DEF ToSet
    <3>3. Ahead \subseteq Ahead'
      BY <2>1, <3>1, <3>2 DEF Ahead
    <3>4. Meant(Ahead) \subseteq Meant(Ahead')
      BY <3>3, MeantMore
    <3> QED
      BY <2>1, <3>1, <3>4 DEF FileAhead, On, ReadConfig, Meant
  <2> QED
    BY <2>2, <2>3
<1>4. CASE RunCommand
  BY <1>4 DEF RunCommand, loc, file, FileAhead, Ahead, On, ReadConfig, Meant
<1>5. ASSUME NEW t \in Threads, Ban(t)
      PROVE  FileAhead'
  <2>1. CASE t # Main
    <3>2. pc[t] \in Banning /\ \E l : pc' = [pc EXCEPT ![t] = l]
      BY <1>5, BanMoves
    <3>3. pc[Main] = "up"
      BY <2>1, <3>2 DEF BInv, Alone, Banning
    <3>1. pc'[Main] = "up"
      BY <1>d, <2>1, <3>2, <3>3
    <3> QED
      BY <3>1 DEF FileAhead
  <2>2. CASE t = Main
    BY <1>5, <2>2, BanKeepsAhead, BanMoves DEF FileAhead, On, ReadConfig, Meant
  <2> QED
    BY <2>1, <2>2
<1>6. CASE Elsewhere
  <2>1. pc'[Main] = pc[Main] /\ banned' = banned
    BY <1>6, ElsewhereMoves DEF BInv
  <2>2. CASE pc[Main] = "up"
    BY <2>1, <2>2 DEF FileAhead
  <2>3. CASE RemoveBan
    <3>1. rm'.pc = "idle" => rm.pc = "idle" /\ rm.todo # {}
      BY <1>d, <2>3 DEF RemoveBan, RmRead, RmCut, RmWrite, RmList, RmDelete
    <3> QED
      BY <3>1 DEF BInv, Alone, FileAhead
  <2>4. CASE pc[Main] # "up" /\ ~RemoveBan
    <3>1. listener = "none" /\ recycler = "none" /\ pc[Feed] = "idle"
      BY <2>4 DEF BInv, Alone, Threads, Main, Feed
    <3>2. UNCHANGED vars
      BY <1>6, <2>4, <3>1 DEF Elsewhere, ListenTcp, Touch, PullSourceFeeds, FormatIps, FeedAppend, RefreshLog
    <3> QED
      BY <3>2 DEF FileAhead, Ahead, On, ReadConfig, Meant, vars, file, fw, loc
  <2> QED
    BY <2>2, <2>3, <2>4
<1> QED
  BY <1>1, <1>2, <1>3, <1>4, <1>5, <1>6, NextSplits

\* After a restart every address of the file is shut out before the honeypot starts,
\* on the conditions of StaysDropped.
THEOREM BootBlocksFile ==
  Spec => []BootBlocks
<1>1. Init => FileAhead
  <2>1. Init => pc[Main] = "boot"
    BY DEF Init, FirstPc, Threads
  <2> QED
    BY <2>1 DEF FileAhead
<1>2. KInv /\ BInv /\ FileAhead /\ [Next]_vars => FileAhead'
  BY ArtilleryBanAssumption, FileAheadKept
<1>3. KInv /\ BInv /\ FileAhead => BootBlocks
  <2> SUFFICES ASSUME KInv, BInv, FileAhead, On("HONEYPOT_BAN"), orderly, rm.pc = "idle",
                      pc[Main] = "next", todo = << >>, NEW a \in ToSet(banlist.ips)
               PROVE  Dropped(a)
    BY DEF BootBlocks
  <2>1. ToSet(todo) = {}
    BY DEF ToSet
  <2>2. Ahead = banned
    BY <2>1 DEF Ahead
  <2>3. Aton[a] \in Meant(banned)
    BY <2>2 DEF FileAhead, Meant
  <2>4. PICK b \in banned : Aton[b] = Aton[a]
    BY <2>3 DEF Meant
  <2>5. jump /\ HasRule(b) /\ AcceptsLast
    BY <2>4 DEF BInv, Barred
  <2>6. HasRule(a)
    BY <2>4, <2>5 DEF HasRule, Drop
  <2> QED
    BY <2>5, <2>6, InForce
<1> QED
  BY <1>1, <1>2, <1>3, Inductive, FirewallInductive, PTL DEF Spec

-----------------------------------------------------------------------------
(* Type correctness.                                                       *)

\* What Shape, Offenders and Commands leave out of TypeOK
Rest ==
  /\ banlist.banner \in BOOLEAN /\ rm.data.banner \in BOOLEAN
  /\ hasChain \in BOOLEAN /\ jump \in BOOLEAN
  /\ boots \in 0 .. MaxBoots /\ touches \in 0 .. MaxTouches /\ pulls \in 0 .. MaxPulls
  /\ recycler \in {"none", "run", "ended"} /\ listener \in {"none", "start", "serving"}
  /\ banned \subseteq IPs /\ listed \subseteq IPs
  /\ alone \in BOOLEAN /\ orderly \in BOOLEAN

LEMMA RestKept ==
  ASSUME ArtilleryBanAssumption, KInv, Rest, [Next]_vars
  PROVE  Rest'
<1> USE DEF Rest, file, fw, side, loc, cnt, past
<1>d. /\ data \in [Threads -> Seq(Known)] /\ Known \subseteq IPs /\ Feed \in Threads
      /\ banlist = [banner |-> banlist.banner, ips |-> banlist.ips]
      /\ rm = [pc |-> rm.pc, ip |-> rm.ip, data |-> rm.data, todo |-> rm.todo]
      /\ MaxBoots \in Nat /\ MaxTouches \in Nat /\ MaxPulls \in Nat
  BY DEF KInv, Shape, Offenders, Known, File, Threads, ArtilleryBanAssumption
<1>b. Blank.banner = FALSE
  BY DEF Blank
<1>1. CASE Boot \/ BootRead \/ BootNext \/ Killed \/ RunCommand
  <2>1. CASE Boot
    <3>1. boots' \in 0 .. MaxBoots /\ banned' \subseteq IPs /\ orderly' \in BOOLEAN
      BY <1>d, <2>1 DEF Boot
    <3>2. UNCHANGED << banlist, listed, rm, hasChain, jump, touches, pulls, recycler, listener, alone >>
      BY <2>1 DEF Boot
    <3> QED
      BY <3>1, <3>2
  <2>2. CASE BootRead \/ BootNext
    BY <2>2 DEF BootRead, BootNext
  <2>3. CASE Killed
    BY <2>3 DEF Killed
  <2>4. CASE RunCommand
    BY <2>4 DEF RunCommand
  <2> QED
    BY <1>1, <2>1, <2>2, <2>3, <2>4
<1>2. ASSUME NEW t \in Threads, Ban(t)
      PROVE  Rest'
  <2>1. pc[t] \in {"drop", "look", "add"} => ip[t] \in IPs
    BY <1>d DEF KInv, Offenders
  <2>2. CASE BanDrop(t) \/ BanLook(t)
    <3>1. CASE BanDrop(t)
      BY <2>1, <3>1 DEF BanDrop, InsertDrop
    <3>2. CASE BanLook(t)
      <4>1. pc[t] = "look" /\ listed' \subseteq listed \union {ip[t]}
        BY <3>2 DEF BanLook
      <4>2. UNCHANGED << banlist, rm, hasChain, jump, boots, touches, pulls, recycler, listener,
                         banned, alone, orderly >>
        BY <3>2 DEF BanLook
      <4> QED
        BY <2>1, <4>1, <4>2
    <3> QED
      BY <2>2, <3>1, <3>2
  <2>3. CASE BanAdd(t)
    BY <1>d, <2>1, <2>3 DEF BanAdd
  <2>4. CASE SortBanlist(t)
    <3>1. banlist'.banner \in BOOLEAN
      <4>1. Overlay(Bannered(data[t])).banner = TRUE
        BY DEF Bannered, Overlay
      <4>2. banlist' \in {banlist, Blank, Overlay(Bannered(data[t]))}
        BY <2>4 DEF SortBanlist, SortRead, SortCut, SortWrite, WriteOver
      <4> QED
        BY <1>b, <4>1, <4>2
    <3>2. UNCHANGED << listed, fw, cnt, rm, past, side >>
      BY <2>4 DEF SortBanlist, SortRead, SortCut, SortWrite
    <3> QED
      BY <3>1, <3>2
  <2> QED
    BY <1>2, <2>2, <2>3, <2>4 DEF Ban
<1>3. CASE Elsewhere
  <2>1. CASE ListenTcp \/ PullSourceFeeds \/ FormatIps \/ UNCHANGED vars
    <3>1. CASE ListenTcp
      BY <3>1 DEF ListenTcp
    <3>2. CASE PullSourceFeeds
      <4>1. pulls' \in 0 .. MaxPulls /\ alone' \in BOOLEAN
        BY <1>d, <3>2 DEF PullSourceFeeds
      <4>2. UNCHANGED << file, fw, side, boots, touches, rm, orderly >>
        BY <3>2 DEF PullSourceFeeds
      <4> QED
        BY <4>1, <4>2
    <3>3. CASE FormatIps
      BY <3>3 DEF FormatIps
    <3>4. CASE UNCHANGED vars
      BY <3>4 DEF vars
    <3> QED
      BY <2>1, <3>1, <3>2, <3>3, <3>4
  <2>2. CASE \E h \in Handlers, a \in Canonical : Touch(h, a)
    BY <1>d, <2>2 DEF Touch
  <2>3. CASE FeedAppend
    <3>1. ToSet(data[Feed]) \subseteq IPs
      BY <1>d, ElementsOfSeq
    <3> QED
      BY <1>d, <2>3, <3>1 DEF FeedAppend
  <2>4. CASE RefreshLog
    BY <1>b, <2>4 DEF RefreshLog
  <2>5. ASSUME NEW a \in Pardons, RmRead(a)
        PROVE  Rest'
    <3>1. PICK ips : rm' = [rm EXCEPT !.pc = "cut", !.ip = a, !.data = [banlist EXCEPT !.ips = ips]]
      BY <2>5 DEF RmRead
    <3>2. rm'.data.banner = banlist.banner
      BY <1>d, <3>1
    <3> QED
      BY <2>5, <3>2 DEF RmRead
  <2>6. CASE RmCut \/ RmWrite \/ RmList \/ RmDelete
    <3>1. banlist'.banner \in BOOLEAN /\ rm'.data.banner \in BOOLEAN
      <4>1. CASE RmCut
        BY <1>b, <1>d, <4>1 DEF RmCut
      <4>2. CASE RmWrite
        <5>1. Overlay(rm.data).banner \in BOOLEAN
          BY DEF Overlay
        <5>2. banlist' = Overlay(rm.data) /\ rm'.data = Blank
          BY <1>d, <4>2 DEF RmWrite, WriteOver
        <5> QED
          BY <1>b, <5>1, <5>2
      <4>3. CASE RmList
        BY <1>d, <4>3 DEF RmList
      <4>4. CASE RmDelete
        BY <1>d, <4>4 DEF RmDelete
      <4> QED
        BY <2>6, <4>1, <4>2, <4>3, <4>4
    <3>2. UNCHANGED << listed, hasChain, jump, banned, cnt, past, side >>
      BY <2>6 DEF RmCut, RmWrite, RmList, RmDelete
    <3> QED
      BY <3>1, <3>2
  <2> QED
    BY <1>3, <2>1, <2>2, <2>3, <2>4, <2>5, <2>6 DEF Elsewhere, RemoveBan
<1> QED
  BY <1>1, <1>2, <1>3, NextSplits

\* Every variable has its type.
THEOREM TypeCorrect ==
  Spec => []TypeOK
<1>1. Init => Rest
  <2> SUFFICES ASSUME Init
               PROVE  Rest
    OBVIOUS
  <2>1. banlist.banner = TRUE /\ rm.data.banner = FALSE
    BY DEF Init, Blank
  <2>2. MaxBoots \in Nat /\ MaxTouches \in Nat /\ MaxPulls \in Nat
    BY ArtilleryBanAssumption DEF ArtilleryBanAssumption
  <2>3. boots = 0 /\ touches = 0 /\ pulls = 0
    BY DEF Init
  <2>4. boots \in 0 .. MaxBoots /\ touches \in 0 .. MaxTouches /\ pulls \in 0 .. MaxPulls
    BY <2>2, <2>3
  <2> QED
    BY <2>1, <2>4 DEF Init, Rest
<1>2. KInv /\ Rest /\ [Next]_vars => Rest'
  BY ArtilleryBanAssumption, RestKept
<1>3. KInv /\ BInv /\ Rest => TypeOK
  <2> SUFFICES ASSUME KInv, BInv, Rest
               PROVE  TypeOK
    OBVIOUS
  <2>1. /\ Known \subseteq IPs /\ pieces \subseteq IPs
        /\ ToSet(banlist.ips) \subseteq Known /\ ToSet(todo) \subseteq Known
        /\ \A t \in Threads : ToSet(data[t]) \subseteq Known
        /\ ToSet(chain) \subseteq Rules(Known)
    <3>1. Known \subseteq IPs /\ pieces \subseteq IPs
      BY DEF KInv, Shape, Known
    <3> QED
      BY <3>1, ElementsOfSeq DEF KInv, Offenders
  <2>2. Rules(Known) \subseteq {Drop(a) : a \in IPs} \union {Accept}
    BY <2>1 DEF Rules
  <2>3. \A t \in Threads : pc[t] \in {"drop", "look", "add"} => ip[t] \in IPs
    BY <2>1 DEF KInv, Offenders
  <2> QED
    BY <2>1, <2>2, <2>3 DEF TypeOK, Rest, BInv, Commands, KInv, Shape, Labels
<1> QED
  BY <1>1, <1>2, <1>3, Inductive, FirewallInductive, PTL DEF Spec

-----------------------------------------------------------------------------
(* What was listed stays in the file while one at a time is at work on it. *)

Working == {"look", "add", "sort", "cut", "write", "fetch", "append"}

OneAtWork ==
  alone =>
    /\ rm.pc = "idle"
    /\ \A t, u \in Threads : pc[t] \in Working /\ pc[u] \in Working => t = u

\* Nothing is added to the file between reading it and cutting it, nor between
\* cutting it and writing it.
FileInHand ==
  alone => \A t \in Threads :
    /\ pc[t] = "cut" => Meant(ToSet(banlist.ips)) \subseteq Meant(ToSet(data[t]))
    /\ pc[t] = "write" => banlist.ips = << >>

\* No line has been cut.
Uncut == alone => pieces = {}

LInv == OneAtWork /\ FileInHand /\ ListedKept /\ Uncut

LEMMA ToSetAppend ==
  ASSUME NEW S, NEW s \in Seq(S), NEW x \in S
  PROVE  ToSet(Append(s, x)) = ToSet(s) \union {x}
<1>1. /\ \A i \in DOMAIN s : i \in DOMAIN Append(s, x) /\ Append(s, x)[i] = s[i]
      /\ Len(s) + 1 \in DOMAIN Append(s, x) /\ Append(s, x)[Len(s) + 1] = x
      /\ \A i \in DOMAIN Append(s, x) : i \in DOMAIN s \/ i = Len(s) + 1
  OBVIOUS
<1> QED
  BY <1>1 DEF ToSet

LEMMA ToSetConcat ==
  ASSUME NEW S, NEW s \in Seq(S), NEW r \in Seq(S)
  PROVE  ToSet(s \o r) = ToSet(s) \union ToSet(r)
<1> DEFINE both == s \o r
<1>1. \A i \in DOMAIN s : i \in DOMAIN both /\ both[i] = s[i]
  OBVIOUS
<1>2. \A i \in DOMAIN r : i + Len(s) \in DOMAIN both /\ both[i + Len(s)] = r[i]
  OBVIOUS
<1>3. \A i \in DOMAIN both :
        \/ i \in DOMAIN s /\ both[i] = s[i]
        \/ i - Len(s) \in DOMAIN r /\ both[i] = r[i - Len(s)]
  OBVIOUS
<1> HIDE DEF both
<1>4. ToSet(both) = ToSet(s) \union ToSet(r)
  BY <1>1, <1>2, <1>3 DEF ToSet
<1> QED
  BY <1>4 DEF both

\* A step that lets a thread go on, or start, at its work.
LEMMA OneGoesOn ==
  ASSUME KInv, OneAtWork, NEW t \in Threads, NEW l, pc' = [pc EXCEPT ![t] = l],
         alone' => alone, rm'.pc = rm.pc,
         pc[t] \in Working \/ l \notin Working \/ (alone' => ~AtFile)
  PROVE  OneAtWork'
<1>1. pc \in [Threads -> Labels]
  BY DEF KInv, Shape
<1>2. ~AtFile => \A u \in Threads : pc[u] \notin Working
  BY DEF AtFile, Working
<1> QED
  BY <1>1, <1>2 DEF OneAtWork

LEMMA MeantBoth ==
  ASSUME NEW S, NEW T
  PROVE  Meant(S \union T) = Meant(S) \union Meant(T)
  BY DEF Meant

\* With nobody rewriting the file, all that was listed is in it.
LEMMA ListedInFile ==
  ASSUME Rewriting = {}
  PROVE  ListedKept <=> (alone => Meant(listed) \subseteq Meant(ToSet(banlist.ips)))
<1>1. ToSet(banlist.ips) \union UNION {ToSet(data[t]) : t \in Rewriting} = ToSet(banlist.ips)
  OBVIOUS
<1> QED
  BY <1>1 DEF ListedKept

\* A step of a thread that is at its work and neither cuts the file nor writes it.
LEMMA ListedOn ==
  ASSUME KInv, LInv, OneAtWork', NEW t \in Threads, pc[t] \in {"look", "add", "fetch", "append"},
         NEW l, l \notin {"cut", "write"}, pc' = [pc EXCEPT ![t] = l],
         alone' => alone,
         ToSet(banlist.ips) \subseteq ToSet(banlist'.ips),
         listed' \subseteq listed \union ToSet(banlist'.ips)
  PROVE  FileInHand' /\ ListedKept'
<1>1. pc \in [Threads -> Labels]
  BY DEF KInv, Shape
<1>2. alone' => \A u \in Threads \ {t} : pc[u] \notin Working
  BY DEF LInv, OneAtWork, Working
<1>3. alone' => Rewriting = {} /\ \A u \in Threads : pc'[u] \notin {"cut", "write"}
  BY <1>1, <1>2 DEF Rewriting, Working
<1>4. FileInHand'
  BY <1>3 DEF FileInHand
<1>5. alone' => Meant(listed) \subseteq Meant(ToSet(banlist.ips))
  BY <1>3, ListedInFile DEF LInv
<1>6. Meant(ToSet(banlist.ips)) \subseteq Meant(ToSet(banlist'.ips))
  BY MeantMore
<1>7. Meant(listed') \subseteq Meant(listed) \union Meant(ToSet(banlist'.ips))
  BY DEF Meant
<1>8. Meant(ToSet(banlist'.ips)) \subseteq
        Meant(ToSet(banlist'.ips) \union UNION {ToSet(data'[u]) : u \in Rewriting'})
  BY MeantMore
<1>9. alone' => Meant(listed') \subseteq
        Meant(ToSet(banlist'.ips) \union UNION {ToSet(data'[u]) : u \in Rewriting'})
  BY <1>5, <1>6, <1>7, <1>8
<1>10. ListedKept'
  BY <1>9 DEF ListedKept, Meant
<1> QED
  BY <1>4, <1>10

\* A step that leaves the file, and whoever is about to write it, alone.
LEMMA ListedSame ==
  ASSUME LInv, UNCHANGED << banlist, listed >>, alone' => alone,
         alone' => \A t \in Threads :
           /\ pc[t] = "write" => pc'[t] = "write"
           /\ pc'[t] \in {"cut", "write"} => pc'[t] = pc[t]
           /\ pc[t] \in {"cut", "write"} => data'[t] = data[t]
  PROVE  FileInHand' /\ ListedKept'
<1>1. FileInHand'
  BY DEF LInv, FileInHand, Meant
<1>2. alone' => \A t \in Rewriting : t \in Rewriting' /\ data'[t] = data[t]
  BY DEF Rewriting
<1>3. alone' => UNION {ToSet(data[t]) : t \in Rewriting} \subseteq UNION {ToSet(data'[t]) : t \in Rewriting'}
  BY <1>2
<1>4. alone' => Meant(ToSet(banlist.ips) \union UNION {ToSet(data[t]) : t \in Rewriting})
                \subseteq Meant(ToSet(banlist.ips) \union UNION {ToSet(data'[t]) : t \in Rewriting'})
  BY <1>3, MeantMore
<1>5. alone' => Meant(listed) \subseteq
        Meant(ToSet(banlist.ips) \union UNION {ToSet(data'[t]) : t \in Rewriting'})
  BY <1>4 DEF LInv, ListedKept
<1>6. ListedKept'
  BY <1>5 DEF ListedKept, Meant
<1> QED
  BY <1>1, <1>6

LEMMA BanKeepsListed ==
  ASSUME ArtilleryBanAssumption, KInv, LInv, NEW t \in Threads, Ban(t)
  PROVE  LInv'
<1> USE DEF Goto, fw, past, file, side, cnt
<1>d. /\ pc \in [Threads -> Labels] /\ data \in [Threads -> Seq(Known)]
      /\ banlist.ips \in Seq(Known) /\ Known \subseteq IPs
      /\ banlist = [banner |-> banlist.banner, ips |-> banlist.ips]
      /\ OneAtWork /\ \A l : After(t) # "cut" /\ After(t) # "write" /\ After(t) \notin Working
  BY DEF KInv, Shape, Offenders, Known, File, LInv, After, Working
<1>1. CASE BanDrop(t)
  <2>1. /\ pc[t] = "drop" /\ pc' = [pc EXCEPT ![t] = "look"] /\ alone' = (alone /\ ~AtFile)
        /\ UNCHANGED << banlist, listed, pieces, data, rm >>
    BY <1>1 DEF BanDrop
  <2>2. OneAtWork'
    BY <1>d, <2>1, OneGoesOn
  <2>3. FileInHand' /\ ListedKept'
    BY <1>d, <2>1, ListedSame
  <2> QED
    BY <2>1, <2>2, <2>3 DEF LInv, Uncut
<1>2. CASE BanLook(t)
  <2>1. /\ pc[t] = "look" /\ UNCHANGED << banlist, pieces, data, alone, rm >>
        /\ \E l \in {After(t), "add"} : pc' = [pc EXCEPT ![t] = l]
        /\ listed' \subseteq listed \union ToSet(banlist.ips)
    BY <1>2 DEF BanLook
  <2>2. PICK l : l \in {After(t), "add"} /\ pc' = [pc EXCEPT ![t] = l]
    BY <2>1
  <2>3. OneAtWork'
    BY <1>d, <2>1, <2>2, OneGoesOn DEF Working
  <2>4. FileInHand' /\ ListedKept'
    BY <1>d, <2>1, <2>2, <2>3, ListedOn
  <2> QED
    BY <2>1, <2>3, <2>4 DEF LInv, Uncut
<1>3. CASE BanAdd(t)
  <2>1. /\ pc[t] = "add" /\ UNCHANGED << pieces, data, alone, rm >> /\ pc' = [pc EXCEPT ![t] = "sort"]
        /\ listed' = listed \union {ip[t]} /\ banlist'.ips = Append(banlist.ips, ip[t])
    BY <1>3, <1>d DEF BanAdd
  <2>2. OneAtWork'
    BY <1>d, <2>1, OneGoesOn DEF Working
  <2>3. ip[t] \in Known
    BY <2>1 DEF KInv, Offenders
  <2>4. ToSet(banlist'.ips) = ToSet(banlist.ips) \union {ip[t]}
    BY <1>d, <2>1, <2>3, ToSetAppend
  <2>5. FileInHand' /\ ListedKept'
    BY <1>d, <2>1, <2>2, <2>4, ListedOn
  <2> QED
    BY <2>1, <2>2, <2>5 DEF LInv, Uncut
<1>4. CASE SortRead(t)
  <2> DEFINE sorted == [k \in DOMAIN banlist.ips |-> Aton[Sorted(banlist.ips)[k]]]
  <2>1. /\ pc[t] = "sort" /\ pc' = [pc EXCEPT ![t] = "cut"]
        /\ UNCHANGED << banlist, listed, pieces, alone, rm >>
        /\ data' = [data EXCEPT ![t] = sorted]
    BY <1>4 DEF SortRead
  <2>s. sorted = [k \in DOMAIN banlist.ips |-> Aton[Sorted(banlist.ips)[k]]]
    OBVIOUS
  <2> HIDE DEF sorted
  <2>2. OneAtWork'
    BY <1>d, <2>1, OneGoesOn DEF Working
  <2>3. ToSet(banlist.ips) \subseteq IPs /\ ToSet(sorted) = Meant(ToSet(banlist.ips))
    BY <1>d, <2>s, SortedData, ElementsOfSeq
  <2>4. Meant(ToSet(sorted)) = Meant(ToSet(banlist.ips))
    BY <2>3, MeantTwice
  <2>5. FileInHand'
    <3>1. alone => \A u \in Threads \ {t} : pc[u] \notin Working
      BY <2>1 DEF LInv, OneAtWork, Working
    <3>2. alone => \A u \in Threads \ {t} : pc'[u] \notin {"cut", "write"}
      BY <1>d, <2>1, <3>1 DEF Working
    <3>3. pc'[t] = "cut" /\ data'[t] = sorted /\ banlist' = banlist
      BY <1>d, <2>1
    <3> QED
      BY <2>1, <2>4, <3>2, <3>3 DEF FileInHand, Meant
  <2>6. Rewriting = Rewriting' /\ \A u \in Rewriting : data'[u] = data[u]
    BY <1>d, <2>1 DEF Rewriting
  <2>7. ListedKept'
    <3>1. {ToSet(data[u]) : u \in Rewriting} = {ToSet(data'[u]) : u \in Rewriting'}
      BY <2>6
    <3> QED
      BY <2>1, <3>1 DEF LInv, ListedKept, Meant
  <2> QED
    BY <2>1, <2>2, <2>5, <2>7 DEF LInv, Uncut
<1>5. CASE SortCut(t)
  <2>1. /\ pc[t] = "cut" /\ pc' = [pc EXCEPT ![t] = "write"]
        /\ UNCHANGED << listed, pieces, alone, rm, data >> /\ banlist'.ips = << >>
    BY <1>5 DEF SortCut, Blank
  <2>2. OneAtWork'
    BY <1>d, <2>1, OneGoesOn DEF Working
  <2>3. alone => \A u \in Threads \ {t} : pc[u] \notin Working
    BY <2>1 DEF LInv, OneAtWork, Working
  <2>4. alone => Rewriting = {} /\ t \in Rewriting' /\ \A u \in Threads : pc'[u] # "cut"
    BY <1>d, <2>1, <2>3 DEF Rewriting, Working
  <2>5. alone => Meant(listed) \subseteq Meant(ToSet(data[t]))
    BY <2>1, <2>4, ListedInFile DEF LInv, FileInHand
  <2>6. alone => ToSet(data[t]) \subseteq ToSet(banlist'.ips) \union UNION {ToSet(data'[u]) : u \in Rewriting'}
    BY <2>1, <2>4
  <2>7. FileInHand'
    BY <2>1, <2>4 DEF FileInHand
  <2>8. alone => Meant(ToSet(data[t])) \subseteq
          Meant(ToSet(banlist'.ips) \union UNION {ToSet(data'[u]) : u \in Rewriting'})
    BY <2>6, MeantMore
  <2>9. ListedKept'
    BY <2>1, <2>5, <2>8 DEF ListedKept, Meant
  <2> QED
    BY <2>1, <2>2, <2>7, <2>9 DEF LInv, Uncut
<1>6. CASE SortWrite(t)
  <2>1. /\ pc[t] = "write" /\ pc' = [pc EXCEPT ![t] = After(t)]
        /\ UNCHANGED << listed, alone, rm >>
        /\ WriteOver(Bannered(data[t]))
    BY <1>6 DEF SortWrite
  <2>2. OneAtWork'
    BY <1>d, <2>1, OneGoesOn DEF Working
  <2>3. alone => \A u \in Threads \ {t} : pc[u] \notin Working
    BY <2>1 DEF LInv, OneAtWork, Working
  <2>4. alone => Rewriting = {t} /\ \A u \in Threads : pc'[u] \notin {"cut", "write"}
    BY <1>d, <2>1, <2>3 DEF Rewriting, Working
  <2>5. Bannered(data[t]).ips = data[t] /\ data[t] \in Seq(IPs)
    BY <1>d, LongerSeq DEF Bannered
  <2>6. alone => banlist.ips = << >>
    BY <2>1 DEF LInv, FileInHand
  <2>7. alone => banlist'.ips = data[t] /\ pieces' = pieces
    BY <2>1, <2>5, <2>6, OverNothing DEF WriteOver
  <2>8. alone => Meant(listed) \subseteq Meant(ToSet(data[t]))
    <3>1. ASSUME alone
          PROVE  ToSet(banlist.ips) \union UNION {ToSet(data[u]) : u \in Rewriting} = ToSet(data[t])
      <4>1. ToSet(banlist.ips) = {}
        BY <2>6, <3>1 DEF ToSet
      <4> QED
        BY <2>4, <3>1, <4>1
    <3> QED
      BY <3>1 DEF LInv, ListedKept
  <2>9. alone => Meant(ToSet(banlist'.ips)) \subseteq
          Meant(ToSet(banlist'.ips) \union UNION {ToSet(data'[u]) : u \in Rewriting'})
    BY MeantMore
  <2>10. FileInHand' /\ ListedKept'
    BY <2>1, <2>4, <2>7, <2>8, <2>9 DEF FileInHand, ListedKept, Meant
  <2>11. Uncut'
    BY <2>1, <2>7 DEF LInv, Uncut
  <2> QED
    BY <2>2, <2>10, <2>11 DEF LInv
<1> QED
  BY <1>1, <1>2, <1>3, <1>4, <1>5, <1>6 DEF Ban, SortBanlist

LEMMA ListedKeptByAll ==
  ASSUME ArtilleryBanAssumption, KInv, Alone, LInv, [Next]_vars
  PROVE  LInv'
<1> USE DEF Goto, fw, past, file, side, cnt, loc
<1>d. /\ pc \in [Threads -> Labels] /\ data \in [Threads -> Seq(Known)]
      /\ banlist.ips \in Seq(Known)
      /\ banlist = [banner |-> banlist.banner, ips |-> banlist.ips]
      /\ rm = [pc |-> rm.pc, ip |-> rm.ip, data |-> rm.data, todo |-> rm.todo]
      /\ OneAtWork /\ Main \in Threads /\ Feed \in Threads
  BY DEF KInv, Shape, Offenders, File, LInv, Threads
<1>1. ASSUME UNCHANGED << banlist, listed, pieces, alone, rm, data >>, NEW t \in Threads,
             NEW l, l \notin Working, pc' = [pc EXCEPT ![t] = l], pc[t] \notin Working
      PROVE  LInv'
  <2>1. OneAtWork'
    BY <1>1, <1>d, OneGoesOn
  <2>2. FileInHand' /\ ListedKept'
    BY <1>1, <1>d, ListedSame DEF Working
  <2> QED
    BY <1>1, <2>1, <2>2 DEF LInv, Uncut
<1>2. ASSUME UNCHANGED << banlist, listed, pieces, alone, rm, data, pc >>
      PROVE  LInv'
  <2>1. OneAtWork'
    BY <1>2, <1>d DEF OneAtWork, Working
  <2>2. FileInHand' /\ ListedKept'
    BY <1>2, ListedSame
  <2> QED
    BY <1>2, <2>1, <2>2 DEF LInv, Uncut
<1>3. CASE Boot \/ BootRead
  <2>1. /\ UNCHANGED << banlist, listed, pieces, alone, rm, data >> /\ pc[Main] \in {"boot", "read"}
        /\ \E l \in {"read", "next"} : pc' = [pc EXCEPT ![Main] = l]
    BY <1>3 DEF Boot, BootRead
  <2> QED
    BY <1>1, <1>d, <2>1 DEF Working
<1>4. CASE BootNext
  <2>1. /\ UNCHANGED << banlist, listed, pieces, alone, rm, data >> /\ pc[Main] = "next"
        /\ \E l \in {"up", "next", "drop"} : pc' = [pc EXCEPT ![Main] = l]
    BY <1>4 DEF BootNext
  <2> QED
    BY <1>1, <1>d, <2>1 DEF Working
<1>5. CASE RunCommand
  BY <1>2, <1>5 DEF RunCommand
<1>6. CASE Killed
  <2>1. /\ UNCHANGED << banlist, listed, pieces, rm >> /\ alone' = (alone /\ ~AtFile)
        /\ pc' = FirstPc
    BY <1>6 DEF Killed
  <2>2. \A t \in Threads : pc'[t] \in {"boot", "idle"}
    BY <2>1 DEF FirstPc
  <2>3. alone' => Rewriting = {}
    BY <2>1 DEF AtFile, Rewriting
  <2>4. OneAtWork' /\ FileInHand'
    BY <1>d, <2>1, <2>2 DEF OneAtWork, FileInHand, Working
  <2>5. alone' => Meant(listed) \subseteq Meant(ToSet(banlist.ips))
    BY <2>1, <2>3, ListedInFile DEF LInv
  <2>6. Rewriting' = {}
    BY <2>2 DEF Rewriting
  <2>7. ToSet(banlist'.ips) \union UNION {ToSet(data'[t]) : t \in Rewriting'} = ToSet(banlist.ips)
    BY <2>1, <2>6
  <2>8. ListedKept'
    BY <2>1, <2>5, <2>7 DEF ListedKept, Meant
  <2> QED
    BY <2>1, <2>4, <2>8 DEF LInv, Uncut
<1>7. CASE ListenTcp
  BY <1>2, <1>7 DEF ListenTcp
<1>8. ASSUME NEW h \in Handlers, NEW a \in Canonical, Touch(h, a)
      PROVE  LInv'
  <2>1. /\ UNCHANGED << banlist, listed, pieces, alone, rm, data >> /\ pc[h] = "idle" /\ h \in Threads
        /\ pc' = pc \/ pc' = [pc EXCEPT ![h] = "drop"]
    BY <1>8 DEF Touch, Threads
  <2> QED
    BY <1>1, <1>2, <2>1 DEF Working
<1>9. CASE PullSourceFeeds
  <2>1. /\ UNCHANGED << banlist, listed, pieces, rm, data >> /\ alone' = (alone /\ ~AtFile)
        /\ pc[Feed] = "idle"
        /\ \E l \in {"fetch", "dead"} : pc' = [pc EXCEPT ![Feed] = l]
    BY <1>9 DEF PullSourceFeeds
  <2>2. OneAtWork'
    BY <1>d, <2>1, OneGoesOn
  <2>3. FileInHand' /\ ListedKept'
    BY <1>d, <2>1, ListedSame
  <2> QED
    BY <2>1, <2>2, <2>3 DEF LInv, Uncut
<1>10. CASE FormatIps
  <2>1. /\ UNCHANGED << banlist, listed, pieces, alone, rm >> /\ pc[Feed] = "fetch"
        /\ \E l \in {"sort", "append"} : pc' = [pc EXCEPT ![Feed] = l]
    BY <1>10 DEF FormatIps
  <2>2. PICK l : l \in {"sort", "append"} /\ pc' = [pc EXCEPT ![Feed] = l]
    BY <2>1
  <2>3. OneAtWork'
    BY <1>d, <2>1, <2>2, OneGoesOn DEF Working
  <2>4. FileInHand' /\ ListedKept'
    BY <1>d, <2>1, <2>2, <2>3, ListedOn
  <2> QED
    BY <2>1, <2>3, <2>4 DEF LInv, Uncut
<1>11. CASE FeedAppend
  <2>1. /\ UNCHANGED << pieces, alone, rm >> /\ pc[Feed] = "append" /\ pc' = [pc EXCEPT ![Feed] = "sort"]
        /\ banlist'.ips = banlist.ips \o data[Feed]
        /\ listed' = listed \union ToSet(data[Feed])
    BY <1>11, <1>d DEF FeedAppend
  <2>2. data[Feed] \in Seq(Known)
    BY <1>d
  <2>3. ToSet(banlist'.ips) = ToSet(banlist.ips) \union ToSet(data[Feed])
    BY <1>d, <2>1, <2>2, ToSetConcat
  <2>4. OneAtWork'
    BY <1>d, <2>1, OneGoesOn DEF Working
  <2>5. FileInHand' /\ ListedKept'
    BY <1>d, <2>1, <2>3, <2>4, ListedOn
  <2> QED
    BY <2>1, <2>4, <2>5 DEF LInv, Uncut
<1>12. CASE RefreshLog
  <2>1. alone' = FALSE \/ UNCHANGED << banlist, listed, pieces, alone, rm, data, pc >>
    BY <1>12 DEF RefreshLog
  <2> QED
    BY <1>2, <2>1 DEF LInv, Uncut, OneAtWork, FileInHand, ListedKept
<1>13. CASE RemoveBan
  <2>1. alone' = FALSE \/ (alone' = alone /\ rm.pc # "idle")
    <3>1. CASE \E a \in Pardons : RmRead(a)
      BY <3>1 DEF RmRead
    <3>2. CASE RmCut \/ RmWrite \/ RmList
      BY <3>2 DEF RmCut, RmWrite, RmList
    <3>3. CASE RmDelete
      BY <3>3 DEF RmDelete, Alone
    <3> QED
      BY <1>13, <3>1, <3>2, <3>3 DEF RemoveBan
  <2>2. ~alone'
    BY <1>d, <2>1 DEF OneAtWork
  <2> QED
    BY <2>2 DEF LInv, Uncut, OneAtWork, FileInHand, ListedKept
<1>14. CASE UNCHANGED vars
  BY <1>2, <1>14 DEF vars
<1>15. ASSUME NEW t \in Threads, Ban(t)
       PROVE  LInv'
  BY <1>15, BanKeepsListed
<1> QED
  BY <1>3, <1>4, <1>5, <1>6, <1>7, <1>8, <1>9, <1>10, <1>11, <1>12, <1>13, <1>14, <1>15,
     NextSplits DEF Elsewhere

\* Who is at work on the file has it in hand: nothing is added between reading it and
\* cutting it, it is empty until it is written, and so no line of it is cut.
THEOREM FileInductive ==
  Spec => []LInv
<1>1. Init => LInv
  <2> SUFFICES ASSUME Init
               PROVE  LInv
    OBVIOUS
  <2>1. \A t \in Threads : pc[t] \in {"boot", "idle"}
    BY DEF Init, FirstPc
  <2> QED
    BY <2>1 DEF Init, LInv, Uncut, Meant, OneAtWork, FileInHand, ListedKept, Working
<1>2. KInv /\ BInv /\ LInv /\ [Next]_vars => LInv'
  BY ArtilleryBanAssumption, ListedKeptByAll DEF BInv
<1> QED
  BY <1>1, <1>2, Inductive, FirewallInductive, PTL DEF Spec

\* With one at a time at work on the file and no kill meanwhile, an address once listed
\* is in the file, or in the hands of the thread that is rewriting it.
THEOREM ListedStays ==
  Spec => []ListedKept
<1>1. LInv => ListedKept
  BY DEF LInv
<1> QED
  BY <1>1, FileInductive, PTL

\* With any number of threads, restarts and runs of remove_ban.py writing over each
\* other, the file and the firewall have nobody but offenders and the ends of cut
\* lines; and there are none of those while one at a time is at work on the file.
THEOREM NobodyElse ==
  Spec => []OnlyOffenders
<1>1. KInv /\ LInv => OnlyOffenders
  <2> SUFFICES ASSUME KInv, LInv
               PROVE  OnlyOffenders
    OBVIOUS
  <2>1. ToSet(banlist.ips) \subseteq Known
    BY ElementsOfSeq DEF KInv, Offenders
  <2>2. ASSUME NEW a \in IPs, Dropped(a)
        PROVE  Aton[a] \in Known
    <3>1. PICK i \in DOMAIN chain : chain[i] = Drop(a)
      BY <2>2 DEF Dropped
    <3>2. chain \in Seq(Rules(Known))
      BY DEF KInv, Offenders
    <3>3. Drop(a) \in Rules(Known)
      BY <3>1, <3>2
    <3>4. Drop(a) # Accept
      BY DEF Drop, Accept
    <3>5. PICK r \in Known : Drop(a) = Drop(r)
      BY <3>3, <3>4 DEF Rules
    <3>6. Aton[a] = Aton[r]
      BY <3>5 DEF Drop
    <3> QED
      BY <3>6 DEF KInv, Offenders
  <2> QED
    BY <2>1, <2>2 DEF OnlyOffenders, Known, LInv, Uncut
<1> QED
  BY <1>1, Inductive, FileInductive, PTL
=============================================================================
