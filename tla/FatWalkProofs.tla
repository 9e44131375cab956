---------------------------- MODULE FatWalkProofs ----------------------------
(***************************************************************************)
(* Proofs about the walk of a FAT32 directory tree, for any volume.  First *)
(* what reading a directory gives: Chain is a recursive function, so what  *)
(* its clusters are is by induction over its turns.  Then two invariants   *)
(* of the walk: WalkInv of the calls in progress, and FoundInv of what is  *)
(* behind them.                                                            *)
(***************************************************************************)
EXTENDS FatWalk, Induction

-----------------------------------------------------------------------------
(* Reading a directory                                                     *)

\* The cells of sequences of one length, end to end.
LEMMA FlattenTyped ==
    ASSUME NEW V, NEW K \in Nat, NEW seqs \in Seq([1 .. K -> V]), Len(seqs) # 0
    PROVE  FlattenSeq(seqs) \in Seq(V) /\ Len(FlattenSeq(seqs)) = Len(seqs) * K
<1>. DEFINE N == Len(seqs)
            body(f, i) == IF i = 1 THEN seqs[i] ELSE f[i - 1] \o seqs[i]
            step == [p \in Nat \X Seq(V) |->
                        IF p[1] \in 1 .. N THEN p[2] \o seqs[p[1]] ELSE p[2]]
            flat == CHOOSE f : f = [i \in 1 .. N |-> body(f, i)]
<1>1. N \in Nat \ {0} /\ N - 1 \in Nat /\ 1 <= N /\ 1 \in Nat
  OBVIOUS
<1>2. \A i \in 1 .. N : seqs[i] \in Seq(V) /\ Len(seqs[i]) = K
  <2>1. ASSUME NEW s \in [1 .. K -> V] PROVE s \in Seq(V) /\ Len(s) = K
    OBVIOUS
  <2>2. \A i \in 1 .. N : seqs[i] \in [1 .. K -> V]
    OBVIOUS
  <2>. QED  BY <2>1, <2>2
<1>3. FlattenSeq(seqs) = flat[N]
  BY DEF FlattenSeq
<1>4. flat = [i \in 1 .. N |-> body(flat, i)]
  <2>1. seqs[1] \in Seq(V)
    BY <1>1, <1>2
  <2>2. step \in [Nat \X Seq(V) -> Seq(V)]
    BY <1>2
  <2>3. ASSUME NEW i \in 1 .. N, NEW s \in Seq(V) PROVE step[<<i, s>>] = s \o seqs[i]
    <3>1. <<i, s>> \in Nat \X Seq(V) /\ <<i, s>>[1] = i /\ <<i, s>>[2] = s
      BY <1>1
    <3>. QED  BY <3>1
  <2>. HIDE DEF step, N
  <2>4. PICK g : Recurs(g, 1, N, Seq(V), seqs[1], step)
    <3>1. 1 \in Nat /\ step \in Turns(Seq(V))
      BY <2>2 DEF Turns
    <3>. QED  BY <1>1, <2>1, <3>1, FunctionByRecursion
  <2>5. ASSUME NEW i \in 1 .. N PROVE g[i] = body(g, i)
    <3>1. CASE i = 1
      BY <2>4, <3>1 DEF Recurs
    <3>2. CASE i # 1
      <4>1. i - 1 \in 1 .. N
        BY <1>1, <3>2
      <4>2. g[i - 1] \in Seq(V)
        BY <2>4, <4>1 DEF Recurs
      <4>. QED  BY <2>3, <2>4, <3>2, <4>2 DEF Recurs
    <3>. QED  BY <3>1, <3>2
  <2>6. g = [i \in 1 .. N |-> body(g, i)]
    BY <2>4, <2>5 DEF Recurs
  <2>. HIDE DEF body
  <2>. QED  BY <2>6 DEF N
<1>. HIDE DEF flat, N, step
<1>. DEFINE T == {n \in Nat : flat[n + 1] \in Seq(V) /\ Len(flat[n + 1]) = (n + 1) * K}
<1>5. 0 \in T
  <2>1. flat[1] = seqs[1] /\ 1 \in 1 .. N
    BY <1>1, <1>4
  <2>. QED  BY <1>2, <2>1
<1>6. ASSUME NEW n \in 0 .. (N - 1) - 1, n \in T PROVE n + 1 \in T
  <2>. DEFINE i == (n + 1) + 1
  <2>1. i \in 1 .. N /\ i # 1 /\ i - 1 = n + 1 /\ n + 1 \in Nat
    BY <1>1, <1>6
  <2>2. flat[n + 1] \in Seq(V) /\ Len(flat[n + 1]) = (n + 1) * K
    BY <1>6
  <2>3. (n + 1) * K + K = ((n + 1) + 1) * K
    OBVIOUS
  <2>. HIDE DEF i
  <2>4. flat[i] = flat[i - 1] \o seqs[i]
    BY <1>4, <2>1
  <2>5. ASSUME NEW s \in Seq(V), NEW t \in Seq(V)
        PROVE  s \o t \in Seq(V) /\ Len(s \o t) = Len(s) + Len(t)
    OBVIOUS
  <2>6. flat[i - 1] \in Seq(V) /\ Len(flat[i - 1]) = (n + 1) * K
    BY <2>1, <2>2, Zenon
  <2>7. seqs[i] \in Seq(V) /\ Len(seqs[i]) = K
    BY <1>2, <2>1, Zenon
  <2>8. flat[i] \in Seq(V) /\ Len(flat[i]) = Len(flat[i - 1]) + Len(seqs[i])
    BY <2>4, <2>5, <2>6, <2>7, Zenon
  <2>9. flat[(n + 1) + 1] \in Seq(V) /\ Len(flat[(n + 1) + 1]) = (n + 1) * K + K
    BY <2>6, <2>7, <2>8, Zenon DEF i
  <2>. QED  BY <2>1, <2>3, <2>9
<1>. HIDE DEF T
<1>7. N - 1 \in T
  <2>1. \A n \in 0 .. N - 1 : n \in T
    BY <1>1, <1>5, <1>6, EveryUpTo
  <2>. QED  BY <1>1, <2>1
<1>8. (N - 1) + 1 = N
  BY <1>1
<1>. QED  BY <1>3, <1>7, <1>8 DEF T, N

VolumeTyped ==
    /\ fat \in [Clusters -> Addressed \union {ChainEnds}]
    /\ content \in [Clusters -> [1 .. SlotsPerCluster -> Slots]]

\* The clusters s follow one another from c, no one twice.
Follows(c, s) ==
    /\ s \in Seq(Addressed) /\ s # <<>> /\ s[1] = c
    /\ \A i, j \in 1 .. Len(s) : s[i] = s[j] => i = j
    /\ \A i \in 1 .. Len(s) - 1 : s[i] \in Clusters /\ s[i + 1] = fat[s[i]]

\* The clusters follow_chain has been to after another turn of its loop.
Further(s) == IF GoesOn(s) THEN Append(s, fat[Last(s)]) ELSE s

LEMMA AddressedCount ==
    /\ IsFiniteSet(Addressed) /\ Cardinality(Addressed) = LastCluster
    /\ LastCluster \in Nat \ {0, 1} /\ Clusters \subseteq Nat /\ Addressed \subseteq Nat
    /\ Outside \in Nat /\ Outside \notin Clusters /\ ChainEnds \notin Addressed /\ Root \in Clusters
<1>1. LastCluster \in Nat \ {0, 1}
  BY FatAssumption
<1>2. Addressed = 2 .. LastCluster + 1
  BY <1>1 DEF Addressed, Clusters, Outside
<1>. DEFINE last == LastCluster + 1
<1>3. last \in Int /\ 2 \in Int /\ ~ (2 > last) /\ last - 2 + 1 = LastCluster
  BY <1>1
<1>. HIDE DEF last
<1>4. IsFiniteSet(2 .. last) /\ Cardinality(2 .. last) = last - 2 + 1
  BY <1>3, FS_Interval
<1>5. Addressed = 2 .. last
  BY <1>2 DEF last
<1>6. IsFiniteSet(Addressed) /\ Cardinality(Addressed) = LastCluster
  BY <1>3, <1>4, <1>5, Zenon
<1>. QED  BY <1>1, <1>6 DEF Clusters, Addressed, Outside, ChainEnds, Root

\* A chain has no more clusters than there are.
LEMMA FollowsCount ==
    ASSUME NEW c, NEW s, Follows(c, s)
    PROVE  /\ Len(s) \in Nat \ {0} /\ Len(s) <= LastCluster
           /\ IsFiniteSet(Range(s)) /\ Cardinality(Range(s)) = Len(s) /\ Range(s) \subseteq Addressed
<1>1. s \in Seq(Addressed) /\ Len(s) \in Nat \ {0} /\ DOMAIN s = 1 .. Len(s)
  BY DEF Follows
<1>2. s \in [1 .. Len(s) -> Addressed]
  BY <1>1
<1>3. IsFiniteSet(1 .. Len(s)) /\ Cardinality(1 .. Len(s)) = Len(s)
  BY <1>1, FS_Interval
<1>4. Range(s) \subseteq Addressed
  BY <1>2 DEF Range
<1>5. s \in Surjection(1 .. Len(s), Range(s)) /\ s \in Injection(1 .. Len(s), Range(s))
  BY <1>2 DEF Surjection, Injection, IsInjective, Range, Follows
<1>6. IsFiniteSet(Range(s)) /\ Cardinality(Range(s)) = Cardinality(1 .. Len(s))
  BY <1>3, <1>5, FS_Surjection
<1>7. Cardinality(Range(s)) <= LastCluster
  BY <1>4, AddressedCount, FS_Subset
<1>. QED  BY <1>1, <1>3, <1>4, <1>6, <1>7

LEMMA FollowsFurther ==
    ASSUME VolumeTyped, NEW c, NEW s, Follows(c, s)
    PROVE  Follows(c, Further(s)) /\ (GoesOn(s) => Len(Further(s)) = Len(s) + 1)
<1>1. CASE ~GoesOn(s)
  BY <1>1 DEF Further
<1>2. CASE GoesOn(s)
  <2>. DEFINE next == fat[Last(s)]
              t == Append(s, next)
  <2>1. s \in Seq(Addressed) /\ Len(s) \in Nat \ {0}
    BY DEF Follows
  <2>2. next \in Addressed /\ Last(s) = s[Len(s)] /\ s[Len(s)] \in Clusters
        /\ \A i \in 1 .. Len(s) : s[i] # next
    BY <1>2 DEF GoesOn, Contains, Last
  <2>. HIDE DEF next
  <2>3. /\ t \in Seq(Addressed) /\ Len(t) = Len(s) + 1 /\ t[Len(s) + 1] = next
        /\ \A i \in 1 .. Len(s) : t[i] = s[i]
    BY <2>1, <2>2
  <2>4. \A i \in 1 .. Len(t) : i \in 1 .. Len(s) \/ i = Len(s) + 1
    BY <2>1, <2>3
  <2>. HIDE DEF t
  <2>5. \A i, j \in 1 .. Len(t) : t[i] = t[j] => i = j
    BY <2>1, <2>2, <2>3, <2>4 DEF Follows
  <2>6. ASSUME NEW i \in 1 .. Len(t) - 1 PROVE t[i] \in Clusters /\ t[i + 1] = fat[t[i]]
    <3>1. CASE i = Len(s)
      <4>1. t[i] = s[Len(s)] /\ t[i + 1] = next
        BY <2>1, <2>3, <3>1
      <4>. QED  BY <2>2, <4>1 DEF next
    <3>2. CASE i # Len(s)
      <4>1. i \in 1 .. Len(s) - 1 /\ i \in 1 .. Len(s) /\ i + 1 \in 1 .. Len(s)
        BY <2>1, <2>3, <3>2
      <4>. QED  BY <2>3, <4>1 DEF Follows
    <3>. QED  BY <3>1, <3>2
  <2>7. t # <<>> /\ t[1] = c
    BY <2>1, <2>3 DEF Follows
  <2>. QED  BY <1>2, <2>3, <2>5, <2>6, <2>7 DEF Follows, Further, next, t
<1>. QED  BY <1>1, <1>2

\* What Chain computes: the turns of follow_chain's loop, more than it takes.
LEMMA ChainTurns ==
    ASSUME VolumeTyped, NEW c \in Addressed
    PROVE  \E up : /\ up[0] = <<c>> /\ Chain(c) = up[LastCluster]
                   /\ \A n \in 1 .. LastCluster : up[n] = Further(up[n - 1])
<1>. DEFINE body(f, n) == IF n = 0 THEN <<c>> ELSE Further(f[n - 1])
            chain == {s \in Seq(Addressed) : Follows(c, s)}
            turn == [p \in Nat \X chain |-> Further(p[2])]
            upTo == CHOOSE f : f = [n \in 0 .. LastCluster |-> body(f, n)]
<1>1. Chain(c) = upTo[LastCluster]
  BY DEF Chain, Further
<1>2. <<c>> \in chain
  BY DEF Follows
<1>3. turn \in Turns(chain)
  <2>1. \A s \in chain : Further(s) \in chain
    BY FollowsFurther DEF Follows
  <2>. HIDE DEF chain
  <2>. QED  BY <2>1 DEF Turns
<1>4. \A n \in Nat, s \in chain : turn[<<n, s>>] = Further(s)
  OBVIOUS
<1>5. LastCluster \in Nat /\ 0 \in Nat /\ 0 <= LastCluster
  BY FatAssumption
<1>. HIDE DEF turn, chain
<1>6. PICK g : Recurs(g, 0, LastCluster, chain, <<c>>, turn)
  BY <1>2, <1>3, <1>5, FunctionByRecursion
<1>7. ASSUME NEW n \in 0 .. LastCluster PROVE g[n] = body(g, n)
  <2>1. CASE n = 0
    BY <1>6, <2>1 DEF Recurs
  <2>2. CASE n # 0
    <3>1. n - 1 \in 0 .. LastCluster /\ n \in Nat
      BY <1>5, <2>2
    <3>2. g[n - 1] \in chain
      BY <1>6, <3>1 DEF Recurs
    <3>. QED  BY <1>4, <1>6, <2>2, <3>1, <3>2 DEF Recurs
  <2>. QED  BY <2>1, <2>2
<1>8. g = [n \in 0 .. LastCluster |-> body(g, n)]
  BY <1>6, <1>7 DEF Recurs
<1>9. upTo = [n \in 0 .. LastCluster |-> body(upTo, n)]
  <2>. HIDE DEF body
  <2>. QED  BY <1>8
<1>. HIDE DEF upTo
<1>10. upTo[0] = <<c>> /\ \A n \in 1 .. LastCluster : upTo[n] = Further(upTo[n - 1])
  BY <1>5, <1>9
<1>. QED  BY <1>1, <1>10

\* follow_chain visits clusters that follow one another from c, and all of
\* them that it may.
LEMMA ChainFollows ==
    ASSUME VolumeTyped, NEW c \in Addressed
    PROVE  Follows(c, Chain(c)) /\ ~GoesOn(Chain(c))
<1>1. PICK up : /\ up[0] = <<c>> /\ Chain(c) = up[LastCluster]
                /\ \A n \in 1 .. LastCluster : up[n] = Further(up[n - 1])
  BY ChainTurns
<1>. DEFINE T == {n \in Nat : Follows(c, up[n]) /\ (GoesOn(up[n]) => Len(up[n]) = n + 1)}
<1>2. LastCluster \in Nat /\ LastCluster \in 0 .. LastCluster
  BY FatAssumption
<1>3. 0 \in T
  <2>1. Follows(c, <<c>>) /\ Len(<<c>>) = 0 + 1
    BY DEF Follows
  <2>. QED  BY <1>1, <2>1
<1>4. ASSUME NEW n \in 0 .. LastCluster - 1, n \in T PROVE n + 1 \in T
  <2>1. n \in Nat /\ n + 1 \in 1 .. LastCluster /\ (n + 1) - 1 = n
    BY <1>2
  <2>2. up[n + 1] = Further(up[n])
    BY <1>1, <2>1
  <2>3. Follows(c, up[n]) /\ (GoesOn(up[n]) => Len(up[n]) = n + 1)
    BY <1>4
  <2>4. Follows(c, up[n + 1]) /\ (GoesOn(up[n]) => Len(up[n + 1]) = (n + 1) + 1)
    BY <2>2, <2>3, FollowsFurther
  <2>5. ~GoesOn(up[n]) => up[n + 1] = up[n]
    BY <2>2 DEF Further
  <2>. QED  BY <2>1, <2>4, <2>5
<1>. HIDE DEF T
<1>5. LastCluster \in T
  BY <1>2, <1>3, <1>4, EveryUpTo
<1>6. Follows(c, up[LastCluster]) /\ (GoesOn(up[LastCluster]) => Len(up[LastCluster]) = LastCluster + 1)
  BY <1>5 DEF T
<1>7. Len(up[LastCluster]) \in Nat /\ Len(up[LastCluster]) <= LastCluster
  BY <1>6, FollowsCount
<1>. QED  BY <1>1, <1>2, <1>6, <1>7

-----------------------------------------------------------------------------
\* Each directory is as reading it gives it, by the chain of its clusters.
ReadBy(c, s) ==
    /\ Follows(c, s) /\ ~GoesOn(s)
    /\ dirs[c].ok <=> Outside \notin Range(s)
    /\ dirs[c].slots \in Seq(Slots)
    /\ dirs[c].ok => Len(dirs[c].slots) = SlotsPerCluster * Len(s)

VolumeRead == VolumeTyped /\ \A c \in Addressed : \E s : ReadBy(c, s)

LEMMA InitRead == Init => VolumeRead
<1>. SUFFICES ASSUME Init PROVE VolumeRead
  OBVIOUS
<1>1. VolumeTyped
  BY DEF Init, VolumeTyped
<1>2. ASSUME NEW c \in Addressed PROVE \E s : ReadBy(c, s)
  <2>. DEFINE s == Chain(c)
              cells == [i \in DOMAIN s |-> content[s[i]]]
  <2>1. Follows(c, s) /\ ~GoesOn(s)
    BY <1>1, ChainFollows
  <2>2. dirs[c] = ReadDirectory(c)
    BY DEF Init
  <2>3. /\ dirs[c].ok <=> ~Contains(s, Outside)
        /\ dirs[c].slots = IF dirs[c].ok THEN FlattenSeq(cells) ELSE <<>>
    <3>1. dirs[c] = [ok |-> ~Contains(s, Outside),
                     slots |-> IF ~Contains(s, Outside) THEN FlattenSeq(cells) ELSE <<>>]
      BY <2>2 DEF ReadDirectory
    <3>. DEFINE flat == FlattenSeq(cells)
    <3>. HIDE DEF flat, s
    <3>2. dirs[c] = [ok |-> ~Contains(s, Outside),
                     slots |-> IF ~Contains(s, Outside) THEN flat ELSE <<>>]
      BY <3>1 DEF flat
    <3>3. /\ dirs[c].ok = (~Contains(s, Outside))
          /\ dirs[c].slots = IF ~Contains(s, Outside) THEN flat ELSE <<>>
      BY <3>2
    <3>. QED  BY <3>3 DEF flat
  <2>. HIDE DEF s
  <2>4. s \in Seq(Addressed) /\ Len(s) \in Nat \ {0} /\ DOMAIN s = 1 .. Len(s)
    BY <2>1 DEF Follows
  <2>5. Contains(s, Outside) <=> Outside \in Range(s)
    BY <2>4 DEF Contains, Range
  <2>6. CASE dirs[c].ok
    <3>1. \A i \in 1 .. Len(s) : s[i] \in Clusters
      <4>1. \A i \in 1 .. Len(s) : s[i] \in Addressed /\ s[i] # Outside
        BY <2>3, <2>4, <2>6 DEF Contains
      <4>. QED  BY <4>1 DEF Addressed
    <3>2. cells \in Seq([1 .. SlotsPerCluster -> Slots]) /\ Len(cells) = Len(s)
      <4>1. \A i \in 1 .. Len(s) : content[s[i]] \in [1 .. SlotsPerCluster -> Slots]
        BY <1>1, <3>1 DEF VolumeTyped
      <4>. QED  BY <2>4, <4>1
    <3>. HIDE DEF cells
    <3>3. SlotsPerCluster \in Nat
      BY FatAssumption
    <3>4. FlattenSeq(cells) \in Seq(Slots) /\ Len(FlattenSeq(cells)) = Len(cells) * SlotsPerCluster
      BY <2>4, <3>2, <3>3, FlattenTyped
    <3>5. Len(s) * SlotsPerCluster = SlotsPerCluster * Len(s)
      BY <2>4, <3>3
    <3>. QED  BY <2>1, <2>3, <2>5, <2>6, <3>2, <3>4, <3>5 DEF ReadBy
  <2>7. CASE ~dirs[c].ok
    <3>1. dirs[c].slots \in Seq(Slots)
      BY <2>3, <2>7
    <3>. QED  BY <2>1, <2>3, <2>5, <2>7, <3>1 DEF ReadBy
  <2>. QED  BY <2>6, <2>7
<1>. QED  BY <1>1, <1>2 DEF VolumeRead

LEMMA ReadStays == VolumeRead /\ UNCHANGED volume => VolumeRead'
<1>. SUFFICES ASSUME VolumeRead, UNCHANGED volume PROVE VolumeRead'
  OBVIOUS
<1>1. fat' = fat /\ content' = content /\ dirs' = dirs
  BY DEF volume
<1>2. VolumeTyped'
  BY <1>1 DEF VolumeRead, VolumeTyped
<1>3. \A s : GoesOn(s)' <=> GoesOn(s)
  BY <1>1 DEF GoesOn
<1>4. \A c, s : ReadBy(c, s)' <=> ReadBy(c, s)
  BY <1>1, <1>3 DEF ReadBy, Follows
<1>. QED  BY <1>2, <1>4 DEF VolumeRead

\* What the walk needs to know of it.
LEMMA DirectoriesAreRead == VolumeRead => DirectoriesRead
<1>. SUFFICES ASSUME VolumeRead, NEW c \in Addressed
              PROVE  dirs[c].slots \in Seq(Slots) /\ (dirs[c].ok => c \in Clusters)
  BY DEF DirectoriesRead
<1>1. PICK s : ReadBy(c, s)
  BY DEF VolumeRead
<1>2. s \in Seq(Addressed) /\ Len(s) \in Nat \ {0} /\ s[1] = c
  BY <1>1 DEF ReadBy, Follows
<1>3. c = Outside => Outside \in Range(s)
  BY <1>2 DEF Range
<1>. QED  BY <1>1, <1>3 DEF ReadBy, Addressed

-----------------------------------------------------------------------------
(* What leads to what                                                      *)

LEMMA LedToFirst ==
    ASSUME NEW from \in Addressed, NEW leads
    PROVE  from \in LedTo(from, leads)
  BY DEF LedTo

LEMMA LedToNext ==
    ASSUME NEW from, NEW leads, NEW d \in LedTo(from, leads), NEW e \in Addressed, e \in leads[d]
    PROVE  e \in LedTo(from, leads)
  BY DEF LedTo

LEMMA LedToLeast ==
    ASSUME NEW from, NEW leads, NEW S \in SUBSET Addressed, from \in S,
           \A d \in S : leads[d] \subseteq S
    PROVE  LedTo(from, leads) \subseteq S
  BY DEF LedTo

\* A chain the walk reads is made of clusters that the first one leads to.
LEMMA FollowsLinked ==
    ASSUME NEW c \in Addressed, NEW s, Follows(c, s)
    PROVE  Range(s) \subseteq Linked(c)
<1>. DEFINE leads == [d \in Addressed |-> IF d \in Clusters THEN {fat[d]} \ {ChainEnds} ELSE {}]
            T == {n \in Nat : s[n + 1] \in LedTo(c, leads)}
<1>1. Linked(c) = LedTo(c, leads)
  BY DEF Linked
<1>2. /\ Len(s) \in Nat \ {0} /\ s \in Seq(Addressed) /\ s[1] = c
      /\ \A i \in 1 .. Len(s) : s[i] \in Addressed
  BY FollowsCount DEF Follows
<1>3. \A d \in Clusters : d \in Addressed /\ leads[d] = {fat[d]} \ {ChainEnds}
  BY DEF Addressed
<1>. HIDE DEF leads
<1>4. 0 \in T
  BY <1>2, LedToFirst
<1>5. ASSUME NEW n \in 0 .. (Len(s) - 1) - 1, n \in T PROVE n + 1 \in T
  <2>. DEFINE i == n + 1
  <2>1. i \in 1 .. Len(s) - 1 /\ i + 1 \in 1 .. Len(s) /\ i \in 1 .. Len(s) /\ i \in Nat
    BY <1>2
  <2>2. s[i] \in LedTo(c, leads)
    BY <1>5
  <2>. HIDE DEF i
  <2>3. s[i] \in Clusters /\ s[i + 1] = fat[s[i]] /\ s[i + 1] \in Addressed
    BY <1>2, <2>1 DEF Follows
  <2>4. s[i + 1] \in leads[s[i]]
    BY <1>3, <2>3, AddressedCount
  <2>5. s[i + 1] \in LedTo(c, leads)
    BY <2>2, <2>3, <2>4, LedToNext
  <2>. QED  BY <2>1, <2>5 DEF i
<1>. HIDE DEF T
<1>6. \A n \in 0 .. Len(s) - 1 : n \in T
  <2>1. Len(s) - 1 \in Nat
    BY <1>2
  <2>. QED  BY <1>4, <1>5, <2>1, EveryUpTo
<1>7. ASSUME NEW i \in 1 .. Len(s) PROVE s[i] \in LedTo(c, leads)
  <2>1. i - 1 \in 0 .. Len(s) - 1 /\ (i - 1) + 1 = i
    BY <1>2
  <2>. QED  BY <1>6, <2>1 DEF T
<1>. QED  BY <1>1, <1>2, <1>7 DEF Range

\* And it is all of them, unless the cap on a chain's length cut it.
LEMMA FollowsAll ==
    ASSUME VolumeTyped, NEW c \in Addressed, NEW s, Follows(c, s), ~GoesOn(s),
           Cardinality(Linked(c)) <= MaxChainClusters
    PROVE  Linked(c) = Range(s)
<1>. DEFINE leads == [d \in Addressed |-> IF d \in Clusters THEN {fat[d]} \ {ChainEnds} ELSE {}]
<1>1. Range(s) \subseteq Linked(c)
  BY FollowsLinked
<1>2. /\ Len(s) \in Nat \ {0} /\ s \in Seq(Addressed) /\ s[1] = c
      /\ \A i \in 1 .. Len(s) : s[i] \in Addressed /\ s[i] \in Range(s)
      /\ Range(s) \subseteq Addressed /\ Cardinality(Range(s)) = Len(s)
      /\ \A d \in Range(s) : \E i \in 1 .. Len(s) : s[i] = d
  <2>1. s \in Seq(Addressed) /\ Len(s) \in Nat \ {0} /\ s[1] = c /\ DOMAIN s = 1 .. Len(s)
    BY DEF Follows
  <2>2. Range(s) = {s[i] : i \in 1 .. Len(s)}
    BY <2>1 DEF Range
  <2>. QED  BY <2>1, <2>2, FollowsCount
<1>3. Linked(c) \subseteq Addressed /\ Linked(c) = LedTo(c, leads)
  BY DEF Linked, LedTo
<1>4. CASE Len(s) >= MaxChainClusters
  <2>1. IsFiniteSet(Linked(c)) /\ Cardinality(Linked(c)) \in Nat
    BY <1>3, AddressedCount, FS_Subset, FS_CardinalityType
  <2>2. Cardinality(Range(s)) <= Cardinality(Linked(c))
    BY <1>1, <2>1, FS_Subset
  <2>3. Cardinality(Range(s)) = Cardinality(Linked(c))
    BY <1>2, <1>4, <2>1, <2>2, FatAssumption
  <2>. QED  BY <1>1, <2>1, <2>3, FS_Subset
<1>5. CASE Len(s) < MaxChainClusters
  <2>. DEFINE e == s[Len(s)]
  <2>1. e \in Range(s) /\ e \in Addressed
    BY <1>2
  <2>2. \/ e \notin Clusters
        \/ e \in Clusters /\ fat[e] \notin Addressed
        \/ e \in Clusters /\ fat[e] \in Range(s)
    BY <1>2, <1>5 DEF GoesOn, Contains, Last
  <2>3. \A d \in Addressed : leads[d] = IF d \in Clusters THEN {fat[d]} \ {ChainEnds} ELSE {}
    OBVIOUS
  <2>. HIDE DEF leads, e
  <2>4. leads[e] \subseteq Range(s)
    BY <2>1, <2>2, <2>3 DEF VolumeTyped
  <2>5. ASSUME NEW i \in 1 .. Len(s), i # Len(s) PROVE leads[s[i]] \subseteq Range(s)
    <3>1. i \in 1 .. Len(s) - 1 /\ i + 1 \in 1 .. Len(s)
      BY <1>2, <2>5
    <3>2. s[i] \in Clusters /\ fat[s[i]] \in Range(s) /\ s[i] \in Addressed
      BY <1>2, <3>1 DEF Follows
    <3>3. leads[s[i]] = {fat[s[i]]} \ {ChainEnds}
      BY <2>3, <3>2
    <3>. QED  BY <3>2, <3>3
  <2>6. \A d \in Range(s) : leads[d] \subseteq Range(s)
    BY <1>2, <2>4, <2>5 DEF e
  <2>7. c \in Range(s)
    BY <1>2
  <2>8. LedTo(c, leads) \subseteq Range(s)
    BY <1>2, <2>6, <2>7, LedToLeast
  <2>. QED  BY <1>1, <1>3, <2>8 DEF leads
<1>. QED  BY <1>2, <1>4, <1>5, FatAssumption

Frames == [dir : Clusters, at : Nat \ {0}]

\* The calls in progress are in directories entered from one another, none
\* twice, all of them visited, and none is past an end marker.
Walked(s, entered) ==
    /\ s \in Seq(Frames)
    /\ \A i \in 1 .. Len(s) : s[i].dir \in entered
    /\ \A i, j \in 1 .. Len(s) : s[i].dir = s[j].dir => i = j
    /\ s # <<>> => s[1].dir = Root
    /\ \A i \in 1 .. Len(s) - 1 : s[i + 1].dir \in Subdirectories(s[i].dir)
    /\ \A i \in 1 .. Len(s) :
          \A j \in 1 .. Len(SlotsOf(s[i].dir)) :
              j < s[i].at => SlotsOf(s[i].dir)[j].kind # "end"

Finds == found \in Seq([path : Seq(Clusters), at : Nat])

WalkInv ==
    /\ Walked(stack, visited)
    /\ pc = "start" => stack = <<>> /\ visited = {}
    /\ Finds
    /\ PathsLeadThere

-----------------------------------------------------------------------------
(* The stack                                                               *)

\* What holds of the slots of a directory in Clusters.
LEMMA SlotsTyped ==
    ASSUME DirectoriesRead, NEW c \in Clusters
    PROVE  DOMAIN SlotsOf(c) = 1 .. Len(SlotsOf(c)) /\ Len(SlotsOf(c)) \in Nat
<1>1. SlotsOf(c) \in Seq(Slots)
  BY DEF DirectoriesRead, SlotsOf, Addressed
<1>. QED  BY <1>1

LEMMA TopTyped ==
    ASSUME Walked(stack, visited), stack # <<>>
    PROVE  /\ Len(stack) \in Nat \ {0} /\ Top \in Frames /\ stack \in Seq(Frames)
           /\ Top.dir \in Clusters /\ Top.at \in Nat \ {0} /\ Top = stack[Len(stack)]
<1>1. stack \in Seq(Frames)
  BY DEF Walked
<1>2. Len(stack) \in Nat \ {0}
  BY <1>1
<1>3. stack[Len(stack)] \in Frames
  BY <1>1, <1>2
<1>. QED  BY <1>1, <1>2, <1>3 DEF Top, Frames

\* The call on top, past its slot.
LEMMA TopPassed ==
    ASSUME Walked(stack, visited), stack # <<>>
    PROVE  NextSlot = [stack EXCEPT ![Len(stack)] = [dir |-> Top.dir, at |-> Top.at + 1]]
<1>. DEFINE passed == [dir |-> Top.dir, at |-> Top.at + 1]
<1>1. Top = [dir |-> Top.dir, at |-> Top.at] /\ Top = stack[Len(stack)] /\ Top.at \in Nat
  BY TopTyped DEF Frames
<1>2. [Top EXCEPT !.at = Top.at + 1] = passed
  BY <1>1
<1>. QED  BY <1>1, <1>2 DEF NextSlot

\* The call on top goes past a slot that is not an end marker.
LEMMA SlotPassed ==
    ASSUME Walked(stack, visited), DirectoriesRead, AtSlot, Slot.kind # "end"
    PROVE  Walked(NextSlot, visited) /\ NextSlot # <<>> /\ NextSlot[Len(NextSlot)].dir = Top.dir
<1>. DEFINE s == NextSlot
<1>1. /\ Len(stack) \in Nat \ {0} /\ Top \in Frames /\ stack \in Seq(Frames)
      /\ Top.dir \in Clusters /\ Top.at \in Nat \ {0} /\ Top = stack[Len(stack)]
  BY TopTyped DEF AtSlot
<1>. DEFINE passed == [dir |-> Top.dir, at |-> Top.at + 1]
<1>2. passed \in Frames
  BY <1>1 DEF Frames
<1>3. s = [stack EXCEPT ![Len(stack)] = passed]
  BY TopPassed DEF AtSlot
<1>. HIDE DEF s, passed
<1>4. /\ s \in Seq(Frames) /\ Len(s) = Len(stack) /\ s[Len(stack)] = passed
      /\ \A i \in 1 .. Len(s) : i # Len(stack) => s[i] = stack[i]
  BY <1>1, <1>2, <1>3
<1>5. \A i \in 1 .. Len(s) : s[i].dir = stack[i].dir
  BY <1>1, <1>4 DEF passed
<1>6. \A i \in 1 .. Len(s) : s[i].at = IF i = Len(stack) THEN Top.at + 1 ELSE stack[i].at
  BY <1>1, <1>4 DEF passed
<1>7. \A i \in 1 .. Len(s) - 1 : s[i + 1].dir \in Subdirectories(s[i].dir)
  BY <1>1, <1>4, <1>5 DEF Walked
<1>8. ASSUME NEW i \in 1 .. Len(s), NEW j \in 1 .. Len(SlotsOf(s[i].dir)), j < s[i].at
      PROVE  SlotsOf(s[i].dir)[j].kind # "end"
  <2>1. CASE i = Len(stack)
    <3>1. s[i].dir = Top.dir /\ s[i].at = Top.at + 1
      BY <1>1, <1>5, <1>6, <2>1
    <3>2. j \in Nat /\ (j < Top.at \/ j = Top.at)
      BY <1>1, <1>8, <3>1
    <3>3. SlotsOf(Top.dir)[Top.at].kind # "end"
      BY DEF Slot
    <3>4. j < Top.at => SlotsOf(Top.dir)[j].kind # "end"
      BY <1>1, <1>4, <2>1, <3>1 DEF Walked
    <3>. QED  BY <3>1, <3>2, <3>3, <3>4
  <2>2. CASE i # Len(stack)
    BY <1>4, <1>5, <1>6, <1>8, <2>2 DEF Walked
  <2>. QED  BY <2>1, <2>2
<1>9. \A i \in 1 .. Len(s) : s[i].dir \in visited
  BY <1>4, <1>5 DEF Walked
<1>10. \A i, j \in 1 .. Len(s) : s[i].dir = s[j].dir => i = j
  BY <1>4, <1>5 DEF Walked
<1>11. s # <<>> /\ s[1].dir = Root /\ s[Len(s)].dir = Top.dir
  BY <1>1, <1>4, <1>5 DEF Walked
<1>. QED  BY <1>4, <1>7, <1>8, <1>9, <1>10, <1>11 DEF Walked, s

\* A directory not yet visited is entered: the root, or one that the call on
\* top is at.
LEMMA DirectoryEntered ==
    ASSUME NEW s, Walked(s, visited), NEW c \in Clusters, c \notin visited,
           s = <<>> => c = Root,
           s # <<>> => c \in Subdirectories(s[Len(s)].dir)
    PROVE  Walked(Append(s, Frame(c)), visited \union {c})
<1>. DEFINE t == Append(s, Frame(c))
<1>1. s \in Seq(Frames) /\ Len(s) \in Nat /\ Frame(c) \in Frames /\ Frame(c).dir = c /\ Frame(c).at = 1
  BY DEF Walked, Frame, Frames
<1>2. /\ t \in Seq(Frames) /\ Len(t) = Len(s) + 1 /\ t[Len(s) + 1] = Frame(c)
      /\ \A i \in 1 .. Len(s) : t[i] = s[i]
  BY <1>1
<1>. HIDE DEF t
<1>3. \A i \in 1 .. Len(t) : i \in 1 .. Len(s) \/ i = Len(s) + 1
  BY <1>1, <1>2
<1>4. \A i \in 1 .. Len(t) : t[i].dir \in visited \union {c}
  BY <1>1, <1>2, <1>3 DEF Walked
<1>5. \A i \in 1 .. Len(s) : t[i].dir # c
  BY <1>2 DEF Walked
<1>6. \A i, j \in 1 .. Len(t) : t[i].dir = t[j].dir => i = j
  BY <1>1, <1>2, <1>3, <1>5 DEF Walked
<1>7. t # <<>> /\ t[1].dir = Root
  BY <1>1, <1>2 DEF Walked
<1>8. ASSUME NEW i \in 1 .. Len(t) - 1
      PROVE  t[i + 1].dir \in Subdirectories(t[i].dir)
  <2>1. CASE i = Len(s)
    <3>1. s # <<>> /\ t[i] = s[Len(s)] /\ t[i + 1].dir = c
      BY <1>1, <1>2, <2>1
    <3>. QED  BY <3>1
  <2>2. CASE i # Len(s)
    <3>1. i \in 1 .. Len(s) - 1 /\ i + 1 \in 1 .. Len(s) /\ i \in 1 .. Len(s)
      BY <1>1, <1>2, <2>2
    <3>2. s[i + 1].dir \in Subdirectories(s[i].dir)
      BY <3>1 DEF Walked
    <3>. QED  BY <1>2, <3>1, <3>2
  <2>. QED  BY <2>1, <2>2
<1>9. ASSUME NEW i \in 1 .. Len(t), NEW j \in 1 .. Len(SlotsOf(t[i].dir)), j < t[i].at
      PROVE  SlotsOf(t[i].dir)[j].kind # "end"
  <2>1. CASE i \in 1 .. Len(s)
    BY <1>2, <1>9, <2>1 DEF Walked
  <2>2. CASE i = Len(s) + 1
    BY <1>1, <1>2, <1>9, <2>2
  <2>. QED  BY <1>3, <2>1, <2>2
<1>. QED  BY <1>2, <1>4, <1>6, <1>7, <1>8, <1>9 DEF Walked, t

\* The call on top returns.
LEMMA DirectoryLeft ==
    ASSUME Walked(stack, visited), stack # <<>>
    PROVE  Walked(Front(stack), visited)
<1>. DEFINE t == Front(stack)
<1>1. stack \in Seq(Frames) /\ Len(stack) \in Nat \ {0}
  BY TopTyped
<1>2. /\ t \in Seq(Frames) /\ Len(t) = Len(stack) - 1
      /\ \A i \in 1 .. Len(t) : t[i] = stack[i] /\ i \in 1 .. Len(stack)
  <2>1. \A i \in 1 .. Len(stack) - 1 : stack[i] \in Frames
    BY <1>1
  <2>2. t = [i \in 1 .. Len(stack) - 1 |-> stack[i]]
    BY <1>1 DEF Front
  <2>3. t \in Seq(Frames) /\ Len(t) = Len(stack) - 1
    BY <1>1, <2>1, <2>2
  <2>. QED  BY <1>1, <2>2, <2>3
<1>. HIDE DEF t
<1>3. \A i \in 1 .. Len(t) - 1 : i \in 1 .. Len(t) /\ i + 1 \in 1 .. Len(t) /\ i \in 1 .. Len(stack) - 1
  BY <1>1, <1>2
<1>4. \A i \in 1 .. Len(t) - 1 : t[i + 1].dir \in Subdirectories(t[i].dir)
  BY <1>2, <1>3 DEF Walked
<1>5. t # <<>> => 1 \in 1 .. Len(t)
  BY <1>2
<1>6. t # <<>> => t[1].dir = Root
  BY <1>1, <1>2, <1>5 DEF Walked
<1>. QED  BY <1>2, <1>4, <1>6 DEF Walked, t

\* The path of the calls in progress is one that leads there.
LEMMA PathLeads ==
    ASSUME Walked(stack, visited), stack # <<>>
    PROVE  Path \in Seq(Clusters) /\ LeadsThere(Path)
<1>1. stack \in Seq(Frames) /\ Len(stack) \in Nat \ {0} /\ DOMAIN stack = 1 .. Len(stack)
  BY TopTyped
<1>2. \A i \in 1 .. Len(stack) : stack[i].dir \in Clusters
  <2>1. \A i \in 1 .. Len(stack) : stack[i] \in Frames
    BY <1>1
  <2>. QED  BY <2>1 DEF Frames
<1>3. /\ Path \in Seq(Clusters) /\ Len(Path) = Len(stack) /\ DOMAIN Path = 1 .. Len(stack)
      /\ \A i \in 1 .. Len(stack) : Path[i] = stack[i].dir
  BY <1>1, <1>2 DEF Path
<1>4. Path[1] = Root
  BY <1>1, <1>3 DEF Walked
<1>5. \A i \in 1 .. Len(Path) - 1 : Path[i + 1] \in Subdirectories(Path[i])
  BY <1>1, <1>3 DEF Walked
<1>6. IsInjective(Path)
  BY <1>3 DEF Walked, IsInjective
<1>. QED  BY <1>3, <1>4, <1>5, <1>6 DEF LeadsThere
-----------------------------------------------------------------------------
(* WalkInv is inductive                                                    *)

LEMMA InitInv == Init => WalkInv
  BY DEF Init, WalkInv, Walked, Finds, PathsLeadThere

\* The tree is the same after a step.
LEMMA TreeStays ==
    ASSUME dirs' = dirs
    PROVE  \A c : SlotsOf(c)' = SlotsOf(c) /\ Subdirectories(c)' = Subdirectories(c)
<1>1. \A c : SlotsOf(c)' = SlotsOf(c)
  BY DEF SlotsOf
<1>2. \A c : Subdirectories(c)' = Subdirectories(c)
  BY DEF Subdirectories, Live, SlotsOf
<1>. QED  BY <1>1, <1>2

\* A directory is entered, or its error ends the walk without entries.
LEMMA EnterInv ==
    ASSUME WalkInv, DirectoriesRead, UNCHANGED volume,
           NEW s, NEW c \in Addressed,
           Walked(s, visited), c \notin visited, Enter(c, s),
           s = <<>> => c = Root,
           s # <<>> => c \in Subdirectories(s[Len(s)].dir)
    PROVE  WalkInv'
<1>1. visited' = visited \union {c} /\ pc' # "start" /\ dirs' = dirs
  BY DEF Enter, volume
<1>2. CASE dirs[c].ok
  <2>1. c \in Clusters
    BY <1>2 DEF DirectoriesRead
  <2>2. stack' = Append(s, Frame(c)) /\ found' = found
    BY <1>2 DEF Enter
  <2>3. Walked(Append(s, Frame(c)), visited')
    BY <1>1, <2>1, DirectoryEntered
  <2>4. Walked(stack, visited)'
    BY <1>1, <2>2, <2>3, TreeStays DEF Walked
  <2>5. Finds' /\ PathsLeadThere'
    BY <1>1, <2>2, TreeStays DEF WalkInv, Finds, PathsLeadThere, LeadsThere
  <2>. QED  BY <1>1, <2>4, <2>5 DEF WalkInv
<1>3. CASE ~dirs[c].ok
  <2>1. stack' = <<>> /\ found' = <<>>
    BY <1>3 DEF Enter
  <2>. QED  BY <1>1, <2>1 DEF WalkInv, Walked, Finds, PathsLeadThere
<1>. QED  BY <1>2, <1>3

\* The directory at the slot looked at is one of those below.
LEMMA SlotLeads ==
    ASSUME Walked(stack, visited), DirectoriesRead, AtSlot, Slot.kind = "dir"
    PROVE  /\ Slot.first \in Addressed
           /\ Slot.first \in Subdirectories(Top.dir)
<1>1. Top.dir \in Clusters /\ Top.at \in Nat \ {0} /\ Top = stack[Len(stack)] /\ Len(stack) \in Nat \ {0}
  BY TopTyped DEF AtSlot
<1>2. /\ SlotsOf(Top.dir) \in Seq(Slots) /\ Len(SlotsOf(Top.dir)) \in Nat
      /\ DOMAIN SlotsOf(Top.dir) = 1 .. Len(SlotsOf(Top.dir))
  BY <1>1, SlotsTyped DEF DirectoriesRead, SlotsOf, Addressed
<1>3. Top.at \in 1 .. Len(SlotsOf(Top.dir))
  BY <1>1, <1>2 DEF AtSlot
<1>4. Slot \in Slots
  BY <1>2, <1>3 DEF Slot
<1>5. Slot.first \in Addressed
  BY <1>4 DEF Slots, SubdirectoryAt
<1>6. \A j \in 1 .. Top.at : SlotsOf(Top.dir)[j].kind # "end"
  <2>1. \A j \in 1 .. Top.at : j < Top.at => SlotsOf(Top.dir)[j].kind # "end"
    BY <1>1, <1>2, <1>3 DEF Walked
  <2>2. SlotsOf(Top.dir)[Top.at].kind # "end"
    BY DEF Slot
  <2>. QED  BY <1>1, <2>1, <2>2
<1>7. Top.at \in Live(Top.dir)
  BY <1>2, <1>3, <1>6 DEF Live
<1>8. Slot.first \in Subdirectories(Top.dir)
  BY <1>7 DEF Subdirectories, Slot
<1>. QED  BY <1>5, <1>8

\* The walk moves on in the directories it has entered.
LEMMA MoveInv ==
    ASSUME WalkInv, UNCHANGED <<volume, visited, found>>, pc' # "start", Walked(stack', visited)
    PROVE  WalkInv'
<1>1. Walked(stack, visited)'
  BY TreeStays DEF Walked, volume
<1>2. Finds' /\ PathsLeadThere'
  BY TreeStays DEF WalkInv, Finds, PathsLeadThere, LeadsThere, volume
<1>. QED  BY <1>1, <1>2 DEF WalkInv

LEMMA WalkNextInv ==
    ASSUME WalkInv, DirectoriesRead, [Next]_vars
    PROVE  WalkInv'
<1>0. Walked(stack, visited)
  BY DEF WalkInv
<1>1. CASE EnterRoot
  <2>1. stack = <<>> /\ visited = {} /\ Root \in Addressed
    BY <1>1, AddressedCount DEF EnterRoot, WalkInv, Addressed
  <2>. QED  BY <1>0, <1>1, <2>1, EnterInv DEF EnterRoot
<1>2. CASE PassSlot \/ PassVisited
  BY <1>0, <1>2, MoveInv, SlotPassed DEF PassSlot, PassVisited, AtSlot
<1>3. CASE FindDeleted
  <2>1. Walked(NextSlot, visited)
    BY <1>0, <1>3, SlotPassed DEF FindDeleted
  <2>2. Path \in Seq(Clusters) /\ LeadsThere(Path) /\ Top.at \in Nat
    BY <1>0, <1>3, PathLeads, TopTyped DEF FindDeleted, AtSlot
  <2>3. /\ stack' = NextSlot /\ found' = Append(found, [path |-> Path, at |-> Top.at])
        /\ UNCHANGED <<volume, visited>> /\ pc' = pc /\ pc = "walk"
    BY <1>3 DEF FindDeleted, AtSlot
  <2>4. Walked(stack, visited)'
    BY <2>1, <2>3, TreeStays DEF Walked, volume
  <2>5. Finds'
    BY <2>2, <2>3 DEF WalkInv, Finds
  <2>6. \A n \in DOMAIN found' : LeadsThere(found'[n].path)
    BY <2>2, <2>3 DEF WalkInv, Finds, PathsLeadThere
  <2>7. PathsLeadThere'
    BY <2>3, <2>6, TreeStays DEF PathsLeadThere, LeadsThere, volume
  <2>. QED  BY <2>3, <2>4, <2>5, <2>7 DEF WalkInv
<1>4. CASE EnterSubdirectory
  <2>1. /\ AtSlot /\ Slot.kind = "dir" /\ Slot.first \notin visited
        /\ Enter(Slot.first, NextSlot) /\ UNCHANGED volume
    BY <1>4 DEF EnterSubdirectory
  <2>2. Walked(NextSlot, visited) /\ NextSlot # <<>> /\ NextSlot[Len(NextSlot)].dir = Top.dir
    BY <1>0, <2>1, SlotPassed
  <2>3. Slot.first \in Addressed /\ Slot.first \in Subdirectories(Top.dir)
    BY <1>0, <2>1, SlotLeads
  <2>. QED  BY <2>1, <2>2, <2>3, EnterInv
<1>5. CASE LeaveDirectory
  BY <1>0, <1>5, MoveInv, DirectoryLeft DEF LeaveDirectory
<1>6. CASE Finish
  BY <1>0, <1>6, MoveInv DEF Finish
<1>7. CASE Ended \/ UNCHANGED vars
  <2>1. /\ UNCHANGED <<volume, visited, found>> /\ stack' = stack /\ pc' = pc
        /\ dirs' = dirs
    BY <1>7 DEF Ended, vars, volume
  <2>2. Walked(stack, visited)'
    BY <1>0, <2>1, TreeStays DEF Walked
  <2>3. Finds' /\ PathsLeadThere'
    BY <2>1, TreeStays DEF WalkInv, Finds, PathsLeadThere, LeadsThere
  <2>. QED  BY <2>1, <2>2, <2>3 DEF WalkInv
<1>. QED  BY <1>1, <1>2, <1>3, <1>4, <1>5, <1>6, <1>7 DEF Next

-----------------------------------------------------------------------------
(* What has been scanned, and what found                                   *)

DeletedAt(c, i) == i \in Live(c) /\ SlotsOf(c)[i].kind = "deleted"
DirectoryAt(c, i) == i \in Live(c) /\ SlotsOf(c)[i].kind = "dir"

\* No call of s is at slot i of c or before it.
Behind(s, c, i) == \A k \in 1 .. Len(s) : s[k].dir = c => i < s[k].at

\* The place of an entry that was found.
Place(entry) == <<Last(entry.path), entry.at>>

\* In the directories v that were entered, the slots behind the calls s lead
\* to directories of v, and the deleted ones are in f, each of them once.
Scanned(s, v, f) ==
    /\ f \in Seq([path : Seq(Clusters), at : Nat])
    /\ \A c \in v, i \in Nat : DirectoryAt(c, i) /\ Behind(s, c, i) => SlotsOf(c)[i].first \in v
    /\ \A c \in v, i \in Nat :
          DeletedAt(c, i) /\ Behind(s, c, i) => \E n \in 1 .. Len(f) : Place(f[n]) = <<c, i>>
    /\ \A n \in 1 .. Len(f) : \E c \in v, i \in Nat :
          Place(f[n]) = <<c, i>> /\ DeletedAt(c, i) /\ Behind(s, c, i)
    /\ \A m, n \in 1 .. Len(f) : Place(f[m]) = Place(f[n]) => m = n

LEMMA LiveTyped ==
    ASSUME DirectoriesRead, NEW c \in Addressed, NEW i \in Live(c)
    PROVE  i \in Nat \ {0} /\ i <= Len(SlotsOf(c)) /\ Len(SlotsOf(c)) \in Nat
<1>1. SlotsOf(c) \in Seq(Slots)
  BY DEF DirectoriesRead, SlotsOf
<1>. QED  BY <1>1 DEF Live

\* The slot the call on top is at is the next one behind.
LEMMA BehindPassed ==
    ASSUME Walked(stack, visited), stack # <<>>, NEW c, NEW i \in Nat
    PROVE  Behind(NextSlot, c, i) <=> Behind(stack, c, i) \/ (c = Top.dir /\ i = Top.at)
<1>1. /\ Len(stack) \in Nat \ {0} /\ Top \in Frames /\ stack \in Seq(Frames)
      /\ Top.dir \in Clusters /\ Top.at \in Nat \ {0} /\ Top = stack[Len(stack)]
  BY TopTyped
<1>. DEFINE passed == [dir |-> Top.dir, at |-> Top.at + 1]
            t == NextSlot
<1>2. passed \in Frames /\ t = [stack EXCEPT ![Len(stack)] = passed]
  BY <1>1, TopPassed DEF Frames
<1>. HIDE DEF t, passed
<1>3. /\ Len(t) = Len(stack) /\ t[Len(stack)] = passed
      /\ \A k \in 1 .. Len(stack) : k # Len(stack) => t[k] = stack[k]
      /\ Len(stack) \in 1 .. Len(stack)
  BY <1>1, <1>2
<1>4. passed.dir = Top.dir /\ passed.at = Top.at + 1 /\ (i < passed.at <=> i < Top.at \/ i = Top.at)
  BY <1>1 DEF passed
<1>5. \A k \in 1 .. Len(stack) : stack[k].dir = Top.dir => k = Len(stack)
  BY <1>1, <1>3 DEF Walked
<1>6. CASE c = Top.dir
  <2>1. Behind(stack, c, i) <=> i < Top.at
    BY <1>1, <1>3, <1>5, <1>6 DEF Behind
  <2>2. \A k \in 1 .. Len(t) : t[k].dir = c <=> k = Len(stack)
    BY <1>1, <1>3, <1>4, <1>5, <1>6
  <2>3. Behind(t, c, i) <=> i < passed.at
    BY <1>3, <2>2 DEF Behind
  <2>. QED  BY <1>4, <1>6, <2>1, <2>3 DEF t
<1>7. CASE c # Top.dir
  <2>1. \A k \in 1 .. Len(stack) : t[k].dir = c => stack[k].dir = c /\ t[k] = stack[k]
    BY <1>3, <1>4, <1>7
  <2>2. \A k \in 1 .. Len(stack) : stack[k].dir = c => t[k] = stack[k]
    BY <1>1, <1>3, <1>7
  <2>3. Behind(t, c, i) <=> Behind(stack, c, i)
    BY <1>3, <2>1, <2>2 DEF Behind
  <2>. QED  BY <1>7, <2>3 DEF t
<1>. QED  BY <1>6, <1>7

\* Entering a directory puts no slot behind.
LEMMA BehindEntered ==
    ASSUME NEW s \in Seq(Frames), NEW d \in Clusters, NEW c, NEW i \in Nat
    PROVE  IF c = d THEN i # 0 => ~Behind(Append(s, Frame(d)), c, i)
           ELSE Behind(Append(s, Frame(d)), c, i) <=> Behind(s, c, i)
<1>. DEFINE t == Append(s, Frame(d))
<1>1. Frame(d) \in Frames /\ Frame(d).dir = d /\ Frame(d).at = 1 /\ Len(s) \in Nat
  BY DEF Frame, Frames
<1>2. Len(t) = Len(s) + 1 /\ t[Len(s) + 1] = Frame(d) /\ \A k \in 1 .. Len(s) : t[k] = s[k]
  BY <1>1
<1>. HIDE DEF t
<1>3. \A k : k \in 1 .. Len(t) <=> k \in 1 .. Len(s) \/ k = Len(s) + 1
  BY <1>1, <1>2
<1>4. i # 0 => ~ (i < 1)
  OBVIOUS
<1>5. c = d /\ i # 0 => ~Behind(t, c, i)
  BY <1>1, <1>2, <1>3, <1>4 DEF Behind
<1>6. c # d => (Behind(t, c, i) <=> Behind(s, c, i))
  BY <1>1, <1>2, <1>3 DEF Behind
<1>. QED  BY <1>5, <1>6 DEF t

\* Nor does leaving one whose live slots all are behind.
LEMMA BehindLeft ==
    ASSUME Walked(stack, visited), DirectoriesRead, stack # <<>>, ~(AtSlot /\ Slot.kind # "end"),
           pc = "walk", NEW c \in Addressed, NEW i \in Live(c)
    PROVE  Behind(Front(stack), c, i) <=> Behind(stack, c, i)
<1>1. /\ Len(stack) \in Nat \ {0} /\ Top \in Frames /\ stack \in Seq(Frames)
      /\ Top.dir \in Clusters /\ Top.at \in Nat \ {0} /\ Top = stack[Len(stack)]
  BY TopTyped
<1>. DEFINE t == Front(stack)
<1>2. Len(t) = Len(stack) - 1 /\ \A k \in 1 .. Len(t) : t[k] = stack[k]
  <2>1. t = [k \in 1 .. Len(stack) - 1 |-> stack[k]]
    BY <1>1 DEF Front
  <2>. QED  BY <1>1, <2>1
<1>. HIDE DEF t
<1>3. \A k : k \in 1 .. Len(stack) <=> k \in 1 .. Len(t) \/ k = Len(stack)
  BY <1>1, <1>2
<1>4. ASSUME c = Top.dir PROVE i < Top.at
  <2>1. i \in Nat \ {0} /\ i <= Len(SlotsOf(c)) /\ Len(SlotsOf(c)) \in Nat
    BY LiveTyped
  <2>2. CASE Top.at > Len(SlotsOf(c))
    BY <1>1, <2>1, <2>2
  <2>3. CASE Top.at <= Len(SlotsOf(c))
    <3>1. SlotsOf(c)[Top.at].kind = "end"
      BY <1>4, <2>3 DEF AtSlot, Slot
    <3>2. \A j \in 1 .. i : SlotsOf(c)[j].kind # "end"
      BY DEF Live
    <3>3. Top.at \notin 1 .. i
      BY <3>1, <3>2
    <3>. QED  BY <1>1, <2>1, <3>3
  <2>. QED  BY <1>1, <2>1, <2>2, <2>3
<1>5. Behind(t, c, i) <=> Behind(stack, c, i)
  BY <1>1, <1>2, <1>3, <1>4 DEF Behind
<1>. QED  BY <1>5 DEF t

\* A step past slot e of directory d that finds nothing more.
LEMMA ScannedPast ==
    ASSUME NEW s, NEW t, NEW v, NEW w, NEW f, Scanned(s, v, f), v \subseteq w,
           NEW d \in v, NEW e, ~DeletedAt(d, e), DirectoryAt(d, e) => SlotsOf(d)[e].first \in w,
           \A c \in v, i \in Nat : Behind(t, c, i) <=> Behind(s, c, i) \/ (c = d /\ i = e),
           \A c \in w \ v, i \in Nat : i \in Live(c) => ~Behind(t, c, i)
    PROVE  Scanned(t, w, f)
<1>1. f \in Seq([path : Seq(Clusters), at : Nat])
  BY DEF Scanned
<1>2. ASSUME NEW c \in w, NEW i \in Nat, DirectoryAt(c, i), Behind(t, c, i)
      PROVE  SlotsOf(c)[i].first \in w
  <2>1. c \in v /\ (Behind(s, c, i) \/ (c = d /\ i = e))
    BY <1>2 DEF DirectoryAt
  <2>. QED  BY <1>2, <2>1 DEF Scanned
<1>3. ASSUME NEW c \in w, NEW i \in Nat, DeletedAt(c, i), Behind(t, c, i)
      PROVE  \E n \in 1 .. Len(f) : Place(f[n]) = <<c, i>>
  <2>1. c \in v /\ (Behind(s, c, i) \/ (c = d /\ i = e))
    BY <1>3 DEF DeletedAt
  <2>2. Behind(s, c, i)
    BY <1>3, <2>1
  <2>. QED  BY <1>3, <2>1, <2>2 DEF Scanned
<1>4. ASSUME NEW n \in 1 .. Len(f)
      PROVE  \E c \in w, i \in Nat : Place(f[n]) = <<c, i>> /\ DeletedAt(c, i) /\ Behind(t, c, i)
  <2>1. PICK c \in v, i \in Nat : Place(f[n]) = <<c, i>> /\ DeletedAt(c, i) /\ Behind(s, c, i)
    BY DEF Scanned
  <2>2. Behind(t, c, i) /\ c \in w
    BY <2>1
  <2>. QED  BY <2>1, <2>2
<1>5. \A m, n \in 1 .. Len(f) : Place(f[m]) = Place(f[n]) => m = n
  BY DEF Scanned
<1>. QED  BY <1>1, <1>2, <1>3, <1>4, <1>5 DEF Scanned

\* The call on top finds a deleted entry at the slot it is at.
LEMMA ScannedFound ==
    ASSUME NEW s, NEW t, NEW v, NEW f, Scanned(s, v, f),
           NEW d \in v, NEW e \in Nat, DeletedAt(d, e), ~Behind(s, d, e),
           NEW entry \in [path : Seq(Clusters), at : Nat], Place(entry) = <<d, e>>,
           \A c \in v, i \in Nat : Behind(t, c, i) <=> Behind(s, c, i) \/ (c = d /\ i = e)
    PROVE  Scanned(t, v, Append(f, entry))
<1>. DEFINE g == Append(f, entry)
<1>1. f \in Seq([path : Seq(Clusters), at : Nat]) /\ Len(f) \in Nat
  BY DEF Scanned
<1>2. /\ g \in Seq([path : Seq(Clusters), at : Nat]) /\ Len(g) = Len(f) + 1 /\ g[Len(f) + 1] = entry
      /\ \A n \in 1 .. Len(f) : g[n] = f[n]
  BY <1>1
<1>. HIDE DEF g
<1>3. \A n : n \in 1 .. Len(g) <=> n \in 1 .. Len(f) \/ n = Len(f) + 1
  BY <1>1, <1>2
<1>4. ASSUME NEW c \in v, NEW i \in Nat, DirectoryAt(c, i), Behind(t, c, i)
      PROVE  SlotsOf(c)[i].first \in v
  <2>1. ~(c = d /\ i = e)
    BY <1>4 DEF DirectoryAt, DeletedAt
  <2>. QED  BY <1>4, <2>1 DEF Scanned
<1>5. ASSUME NEW c \in v, NEW i \in Nat, DeletedAt(c, i), Behind(t, c, i)
      PROVE  \E n \in 1 .. Len(g) : Place(g[n]) = <<c, i>>
  <2>1. CASE c = d /\ i = e
    BY <1>2, <1>3, <2>1
  <2>2. CASE Behind(s, c, i)
    <3>1. PICK n \in 1 .. Len(f) : Place(f[n]) = <<c, i>>
      BY <1>5, <2>2 DEF Scanned
    <3>2. n \in 1 .. Len(g) /\ Place(g[n]) = <<c, i>>
      BY <1>2, <1>3, <3>1
    <3>. QED  BY <3>2
  <2>. QED  BY <1>5, <2>1, <2>2
<1>6. ASSUME NEW n \in 1 .. Len(f)
      PROVE  \E c \in v, i \in Nat : /\ Place(g[n]) = <<c, i>> /\ DeletedAt(c, i) /\ Behind(t, c, i)
                                     /\ Behind(s, c, i)
  <2>1. PICK c \in v, i \in Nat : Place(f[n]) = <<c, i>> /\ DeletedAt(c, i) /\ Behind(s, c, i)
    BY DEF Scanned
  <2>2. Behind(t, c, i) /\ Place(g[n]) = <<c, i>>
    BY <1>2, <2>1
  <2>. QED  BY <2>1, <2>2
<1>7. Place(g[Len(f) + 1]) = <<d, e>> /\ Behind(t, d, e)
  BY <1>2
<1>8. \A n \in 1 .. Len(g) : \E c \in v, i \in Nat :
          Place(g[n]) = <<c, i>> /\ DeletedAt(c, i) /\ Behind(t, c, i)
  <2>1. \A n \in 1 .. Len(f) : \E c \in v, i \in Nat :
            Place(g[n]) = <<c, i>> /\ DeletedAt(c, i) /\ Behind(t, c, i)
    BY <1>6
  <2>. QED  BY <1>3, <1>7, <2>1
<1>9. \A n \in 1 .. Len(f) : Place(g[n]) # <<d, e>>
  BY <1>6
<1>10. \A m, n \in 1 .. Len(g) : Place(g[m]) = Place(g[n]) => m = n
  <2>1. \A m, n \in 1 .. Len(f) : Place(g[m]) = Place(g[n]) => m = n
    BY <1>2 DEF Scanned
  <2>. QED  BY <1>3, <1>7, <1>9, <2>1
<1>. QED  BY <1>2, <1>4, <1>5, <1>8, <1>10 DEF Scanned, g

\* Scanned is about the volume only through its live slots.
LEMMA ScannedNext ==
    ASSUME dirs' = dirs, Scanned(stack', visited', found')
    PROVE  Scanned(stack, visited, found)'
<1>1. \A c : SlotsOf(c)' = SlotsOf(c)
  BY DEF SlotsOf
<1>2. \A c : Live(c)' = Live(c)
  BY <1>1 DEF Live
<1>3. \A c, i : (DeletedAt(c, i)' <=> DeletedAt(c, i)) /\ (DirectoryAt(c, i)' <=> DirectoryAt(c, i))
  BY <1>1, <1>2 DEF DeletedAt, DirectoryAt
<1>4. \A c, i : Behind(stack, c, i)' <=> Behind(stack', c, i)
  BY DEF Behind
<1>5. \A n : Place(found[n])' = Place(found'[n])
  BY DEF Place
<1>. QED  BY <1>1, <1>3, <1>4, <1>5 DEF Scanned

-----------------------------------------------------------------------------
(* FoundInv is inductive, with WalkInv                                     *)

WithinSlots(s) == \A i \in 1 .. Len(s) : s[i].at <= Len(SlotsOf(s[i].dir)) + 1

FoundInv ==
    /\ visited \subseteq Tree
    /\ pc \in {"start", "walk", "done", "error"}
    /\ WithinSlots(stack)
    /\ pc = "start" => found = <<>>
    /\ pc \in {"walk", "done"} =>
          /\ Root \in visited /\ \A c \in visited : dirs[c].ok
          /\ Scanned(stack, visited, found)
    /\ pc = "error" => stack = <<>> /\ found = <<>> /\ \E c \in visited : ~dirs[c].ok
    /\ pc = "done" => stack = <<>>

LEMMA FoundInit == Init => FoundInv
  BY DEF Init, FoundInv, WithinSlots

LEMMA TreeNext ==
    ASSUME dirs' = dirs
    PROVE  Tree' = Tree
<1>1. \A c : Subdirectories(c)' = Subdirectories(c)
  BY TreeStays
<1>. QED  BY <1>1 DEF Tree, LedTo, Addressed, Clusters, Outside, Root

LEMMA WithinNext ==
    ASSUME dirs' = dirs, WithinSlots(stack')
    PROVE  WithinSlots(stack)'
<1>1. \A c : SlotsOf(c)' = SlotsOf(c)
  BY TreeStays
<1>2. \A i : SlotsOf(stack[i].dir)' = SlotsOf(stack'[i].dir)
  BY DEF SlotsOf
<1>. QED  BY <1>2 DEF WithinSlots

LEMMA TreeHolds ==
    ASSUME DirectoriesRead, NEW d \in Tree, NEW c \in Addressed, c \in Subdirectories(d)
    PROVE  c \in Tree
<1>. DEFINE leads == [b \in Addressed |-> Subdirectories(b)]
<1>1. Tree = LedTo(Root, leads) /\ d \in Addressed
  BY DEF Tree, LedTo
<1>2. c \in leads[d]
  BY <1>1
<1>. HIDE DEF leads
<1>. QED  BY <1>1, <1>2, LedToNext

LEMMA RootInTree == Root \in Tree
<1>1. Root \in Addressed
  BY AddressedCount DEF Addressed
<1>. QED  BY <1>1, LedToFirst DEF Tree

\* The call on top passes the slot that it is at.
LEMMA WithinPassed ==
    ASSUME Walked(stack, visited), DirectoriesRead, WithinSlots(stack), AtSlot
    PROVE  WithinSlots(NextSlot)
<1>1. /\ Len(stack) \in Nat \ {0} /\ Top \in Frames /\ stack \in Seq(Frames)
      /\ Top.dir \in Clusters /\ Top.at \in Nat \ {0} /\ Top = stack[Len(stack)]
  BY TopTyped DEF AtSlot
<1>. DEFINE passed == [dir |-> Top.dir, at |-> Top.at + 1]
            t == NextSlot
<1>2. t = [stack EXCEPT ![Len(stack)] = passed]
  BY TopPassed DEF AtSlot
<1>3. passed.at <= Len(SlotsOf(passed.dir)) + 1
  BY <1>1, SlotsTyped DEF AtSlot
<1>. HIDE DEF t, passed
<1>4. Len(t) = Len(stack) /\ t[Len(stack)] = passed
      /\ \A k \in 1 .. Len(stack) : k # Len(stack) => t[k] = stack[k]
  BY <1>1, <1>2
<1>. QED  BY <1>3, <1>4 DEF WithinSlots, t
LEMMA FoundEnter ==
    ASSUME FoundInv, DirectoriesRead, UNCHANGED volume, pc \in {"start", "walk"},
           NEW s \in Seq(Frames), WithinSlots(s), NEW c \in Addressed, c \in Tree, Enter(c, s),
           Root \in visited \union {c}, \A d \in visited : dirs[d].ok,
           c \in Clusters => Scanned(Append(s, Frame(c)), visited \union {c}, found)
    PROVE  FoundInv'
<1>1. visited' = visited \union {c} /\ dirs' = dirs
  BY DEF Enter, volume
<1>2. Tree' = Tree
  BY <1>1, TreeNext
<1>3. CASE dirs[c].ok
  <2>1. c \in Clusters
    BY <1>3 DEF DirectoriesRead
  <2>2. stack' = Append(s, Frame(c)) /\ found' = found /\ pc' = "walk"
    BY <1>3 DEF Enter
  <2>3. Scanned(stack, visited, found)'
    BY <1>1, <2>1, <2>2, ScannedNext
  <2>4. WithinSlots(stack')
    <3>1. Frame(c) \in Frames /\ Frame(c).dir = c /\ Frame(c).at = 1 /\ Len(s) \in Nat
      BY <2>1 DEF Frame, Frames
    <3>2. /\ Len(stack') = Len(s) + 1 /\ stack'[Len(s) + 1] = Frame(c)
          /\ \A i \in 1 .. Len(s) : stack'[i] = s[i]
      BY <2>2, <3>1
    <3>3. \A i : i \in 1 .. Len(stack') => i \in 1 .. Len(s) \/ i = Len(s) + 1
      BY <3>1, <3>2
    <3>4. 1 <= Len(SlotsOf(c)) + 1
      BY <2>1, SlotsTyped
    <3>. QED  BY <3>1, <3>2, <3>3, <3>4 DEF WithinSlots
  <2>5. WithinSlots(stack)'
    BY <1>1, <2>4, WithinNext
  <2>6. \A d \in visited' : dirs'[d].ok
    BY <1>1, <1>3
  <2>. QED  BY <1>1, <1>2, <2>2, <2>3, <2>5, <2>6 DEF FoundInv
<1>4. CASE ~dirs[c].ok
  <2>1. stack' = <<>> /\ found' = <<>> /\ pc' = "error"
    BY <1>4 DEF Enter
  <2>2. \E d \in visited' : ~dirs'[d].ok
    BY <1>1, <1>4
  <2>. QED  BY <1>1, <1>2, <2>1, <2>2 DEF FoundInv, WithinSlots
<1>. QED  BY <1>3, <1>4

\* A step of the walk that enters no directory.
LEMMA FoundMove ==
    ASSUME FoundInv, UNCHANGED <<volume, visited>>, pc = "walk", pc' \in {"walk", "done"},
           pc' = "done" => stack' = <<>>,
           WithinSlots(stack'), Scanned(stack', visited, found')
    PROVE  FoundInv'
<1>1. visited' = visited /\ dirs' = dirs
  BY DEF volume
<1>2. Tree' = Tree /\ WithinSlots(stack)' /\ Scanned(stack, visited, found)'
  BY <1>1, TreeNext, WithinNext, ScannedNext
<1>3. pc' # "start" /\ pc' # "error"
  OBVIOUS
<1>. QED  BY <1>1, <1>2, <1>3 DEF FoundInv

LEMMA FoundNext ==
    ASSUME WalkInv, FoundInv, DirectoriesRead, [Next]_vars
    PROVE  FoundInv'
<1>0. Walked(stack, visited) /\ stack \in Seq(Frames)
  BY DEF WalkInv, Walked
<1>a. visited \subseteq Addressed
  BY DEF FoundInv, Tree, LedTo
<1>b. ASSUME AtSlot
      PROVE  /\ Top.dir \in visited /\ Top.dir \in Addressed /\ Top.dir \in Clusters
             /\ Top.at \in Nat \ {0} /\ Top.at \in 1 .. Len(SlotsOf(Top.dir))
             /\ stack # <<>> /\ pc = "walk" /\ Scanned(stack, visited, found)
             /\ \A c \in visited, i \in Nat :
                   Behind(NextSlot, c, i) <=> Behind(stack, c, i) \/ (c = Top.dir /\ i = Top.at)
             /\ Slot.kind # "end" => Top.at \in Live(Top.dir) /\ NextSlot \in Seq(Frames)
             /\ WithinSlots(NextSlot)
  <2>1. /\ Len(stack) \in Nat \ {0} /\ Top = stack[Len(stack)] /\ stack # <<>>
        /\ Top.dir \in Clusters /\ Top.at \in Nat \ {0}
    BY <1>0, <1>b, TopTyped DEF AtSlot
  <2>2. Top.dir \in visited /\ Top.dir \in Addressed
    BY <1>0, <1>a, <2>1 DEF Walked
  <2>3. Len(SlotsOf(Top.dir)) \in Nat /\ DOMAIN SlotsOf(Top.dir) = 1 .. Len(SlotsOf(Top.dir))
    BY <2>1, SlotsTyped
  <2>4. Top.at \in 1 .. Len(SlotsOf(Top.dir))
    BY <1>b, <2>1, <2>3 DEF AtSlot
  <2>5. pc = "walk" /\ Scanned(stack, visited, found)
    BY <1>b DEF AtSlot, FoundInv
  <2>6. \A c \in visited, i \in Nat :
            Behind(NextSlot, c, i) <=> Behind(stack, c, i) \/ (c = Top.dir /\ i = Top.at)
    BY <1>0, <2>1, BehindPassed
  <2>7. WithinSlots(NextSlot)
    BY <1>0, <1>b, WithinPassed DEF FoundInv
  <2>8. ASSUME Slot.kind # "end" PROVE Top.at \in Live(Top.dir) /\ NextSlot \in Seq(Frames)
    <3>1. \A j \in 1 .. Len(SlotsOf(Top.dir)) : j < Top.at => SlotsOf(Top.dir)[j].kind # "end"
      BY <1>0, <2>1 DEF Walked
    <3>2. SlotsOf(Top.dir)[Top.at].kind # "end"
      BY <2>8 DEF Slot
    <3>3. \A j \in 1 .. Top.at : j \in 1 .. Len(SlotsOf(Top.dir)) /\ (j < Top.at \/ j = Top.at)
      BY <2>3, <2>4
    <3>4. \A j \in 1 .. Top.at : SlotsOf(Top.dir)[j].kind # "end"
      BY <3>1, <3>2, <3>3
    <3>5. NextSlot \in Seq(Frames)
      BY <1>0, <1>b, <2>8, SlotPassed DEF Walked
    <3>. QED  BY <2>3, <2>4, <3>4, <3>5 DEF Live
  <2>. QED  BY <2>1, <2>2, <2>4, <2>5, <2>6, <2>7, <2>8
<1>1. CASE EnterRoot
  <2>1. /\ pc = "start" /\ stack = <<>> /\ visited = {} /\ found = <<>>
        /\ Enter(Root, <<>>) /\ UNCHANGED volume
    BY <1>1 DEF EnterRoot, WalkInv, FoundInv
  <2>2. Root \in Addressed /\ Root \in Clusters /\ Root \in Tree
    BY AddressedCount, RootInTree DEF Addressed
  <2>3. Scanned(Append(<<>>, Frame(Root)), visited \union {Root}, found)
    <3>1. ASSUME NEW i \in Live(Root) PROVE ~Behind(Append(<<>>, Frame(Root)), Root, i)
      <4>1. i \in Nat \ {0}
        BY <2>2, LiveTyped
      <4>2. <<>> \in Seq(Frames) /\ i # 0 /\ i \in Nat
        BY <4>1
      <4>. QED  BY <2>2, <4>2, BehindEntered
    <3>. QED  BY <2>1, <3>1 DEF Scanned, DirectoryAt, DeletedAt
  <2>4. <<>> \in Seq(Frames) /\ WithinSlots(<<>>) /\ Root \in visited \union {Root}
    BY DEF WithinSlots
  <2>. QED  BY <2>1, <2>2, <2>3, <2>4, FoundEnter
<1>2. CASE PassSlot \/ PassVisited
  <2>1. /\ AtSlot /\ UNCHANGED <<volume, visited, found, pc>> /\ stack' = NextSlot
        /\ Slot.kind = "skip" \/ (Slot.kind = "dir" /\ Slot.first \in visited)
    BY <1>2 DEF PassSlot, PassVisited
  <2>2. /\ ~DeletedAt(Top.dir, Top.at)
        /\ DirectoryAt(Top.dir, Top.at) => SlotsOf(Top.dir)[Top.at].first \in visited
    BY <2>1 DEF Slot, DeletedAt, DirectoryAt
  <2>3. Scanned(NextSlot, visited, found)
    BY <1>b, <2>1, <2>2, ScannedPast
  <2>. QED  BY <1>b, <2>1, <2>3, FoundMove
<1>3. CASE FindDeleted
  <2>. DEFINE entry == [path |-> Path, at |-> Top.at]
  <2>1. /\ AtSlot /\ UNCHANGED <<volume, visited, pc>> /\ stack' = NextSlot /\ Slot.kind = "deleted"
        /\ found' = Append(found, entry)
    BY <1>3 DEF FindDeleted
  <2>2. DeletedAt(Top.dir, Top.at)
    BY <1>b, <2>1 DEF Slot, DeletedAt
  <2>3. ~Behind(stack, Top.dir, Top.at)
    <3>1. Len(stack) \in 1 .. Len(stack) /\ stack[Len(stack)] = Top /\ ~(Top.at < Top.at)
      BY <1>0, <1>b, <2>1, TopTyped
    <3>. QED  BY <3>1 DEF Behind
  <2>4. entry \in [path : Seq(Clusters), at : Nat] /\ Place(entry) = <<Top.dir, Top.at>>
    <3>1. Path \in Seq(Clusters) /\ Top.at \in Nat
      BY <1>0, <1>b, <2>1, PathLeads
    <3>2. Len(Path) = Len(stack) /\ Path[Len(stack)] = Top.dir
      <4>1. /\ Len(stack) \in Nat \ {0} /\ stack \in Seq(Frames) /\ Top = stack[Len(stack)]
            /\ DOMAIN stack = 1 .. Len(stack)
        BY <1>0, <1>b, <2>1, TopTyped
      <4>. QED  BY <4>1 DEF Path
    <3>. QED  BY <3>1, <3>2 DEF Place, Last
  <2>. HIDE DEF entry
  <2>5. Scanned(NextSlot, visited, Append(found, entry))
    BY <1>b, <2>1, <2>2, <2>3, <2>4, ScannedFound
  <2>. QED  BY <1>b, <2>1, <2>5, FoundMove
<1>4. CASE EnterSubdirectory
  <2>. DEFINE c == Slot.first
              t == Append(NextSlot, Frame(c))
  <2>1. /\ AtSlot /\ Slot.kind = "dir" /\ c \notin visited
        /\ Enter(c, NextSlot) /\ UNCHANGED volume
    BY <1>4 DEF EnterSubdirectory
  <2>2. c \in Addressed /\ c \in Subdirectories(Top.dir)
    BY <1>0, <2>1, SlotLeads
  <2>3. c \in Tree
    BY <1>b, <2>1, <2>2, TreeHolds DEF FoundInv
  <2>4. ASSUME c \in Clusters PROVE Scanned(t, visited \union {c}, found)
    <3>1. ~DeletedAt(Top.dir, Top.at) /\ SlotsOf(Top.dir)[Top.at].first = c
      BY <2>1 DEF Slot, DeletedAt
    <3>2. NextSlot \in Seq(Frames)
      BY <1>b, <2>1
    <3>3. \A d \in visited, i \in Nat :
              Behind(t, d, i) <=> Behind(stack, d, i) \/ (d = Top.dir /\ i = Top.at)
      <4>1. ASSUME NEW d \in visited, NEW i \in Nat
            PROVE  Behind(t, d, i) <=> Behind(NextSlot, d, i)
        BY <2>1, <2>4, <3>2, BehindEntered
      <4>. QED  BY <1>b, <2>1, <4>1
    <3>4. ASSUME NEW i \in Live(c) PROVE ~Behind(t, c, i)
      <4>1. i \in Nat \ {0}
        BY <2>2, LiveTyped
      <4>. QED  BY <2>4, <3>2, <4>1, BehindEntered
    <3>5. \A d \in (visited \union {c}) \ visited, i \in Nat : i \in Live(d) => ~Behind(t, d, i)
      BY <3>4
    <3>6. /\ Top.dir \in visited /\ visited \subseteq visited \union {c}
          /\ Scanned(stack, visited, found) /\ SlotsOf(Top.dir)[Top.at].first \in visited \union {c}
      BY <1>b, <2>1, <3>1
    <3>. HIDE DEF t, c
    <3>. QED  BY <3>1, <3>3, <3>5, <3>6, ScannedPast
  <2>. QED  BY <1>b, <2>1, <2>2, <2>3, <2>4, FoundEnter DEF FoundInv
<1>5. CASE LeaveDirectory
  <2>1. /\ pc = "walk" /\ pc' = "walk" /\ stack # <<>> /\ ~(AtSlot /\ Slot.kind # "end")
        /\ stack' = Front(stack) /\ UNCHANGED <<volume, visited, found>>
    BY <1>5 DEF LeaveDirectory
  <2>2. Scanned(stack, visited, found)
    BY <2>1 DEF FoundInv
  <2>3. \A c \in visited : \A i \in Live(c) :
            Behind(Front(stack), c, i) <=> Behind(stack, c, i)
    <3>1. ASSUME NEW c \in visited, NEW i \in Live(c)
          PROVE  Behind(Front(stack), c, i) <=> Behind(stack, c, i)
      <4>1. c \in Addressed
        BY <1>a
      <4>. QED  BY <1>0, <2>1, <4>1, BehindLeft
    <3>. QED  BY <3>1
  <2>4. Scanned(Front(stack), visited, found)
    BY <2>2, <2>3 DEF Scanned, DirectoryAt, DeletedAt
  <2>5. WithinSlots(Front(stack))
    <3>1. Front(stack) = [k \in 1 .. Len(stack) - 1 |-> stack[k]] /\ Len(stack) \in Nat \ {0}
      BY <1>0, <2>1 DEF Front
    <3>2. \A k \in 1 .. Len(Front(stack)) : k \in 1 .. Len(stack) /\ Front(stack)[k] = stack[k]
      BY <3>1
    <3>. QED  BY <3>2 DEF FoundInv, WithinSlots
  <2>. QED  BY <2>1, <2>4, <2>5, FoundMove
<1>6. CASE Finish
  <2>1. pc = "walk" /\ pc' = "done" /\ stack = <<>> /\ stack' = stack
        /\ UNCHANGED <<volume, visited, found>>
    BY <1>6 DEF Finish
  <2>. QED  BY <2>1, FoundMove DEF FoundInv
<1>7. CASE Ended \/ UNCHANGED vars
  <2>1. /\ dirs' = dirs /\ visited' = visited /\ found' = found /\ stack' = stack /\ pc' = pc
    BY <1>7 DEF Ended, vars, volume
  <2>2. Tree' = Tree /\ (WithinSlots(stack) => WithinSlots(stack)')
        /\ (Scanned(stack, visited, found) => Scanned(stack, visited, found)')
    BY <2>1, TreeNext, WithinNext, ScannedNext
  <2>. QED  BY <2>1, <2>2 DEF FoundInv
<1>. QED  BY <1>1, <1>2, <1>3, <1>4, <1>5, <1>6, <1>7 DEF Next

-----------------------------------------------------------------------------
(* The theorems                                                            *)

LEMMA WalkInvariant == Spec => [](WalkInv /\ FoundInv /\ VolumeRead)
<1>1. Init => WalkInv /\ FoundInv /\ VolumeRead
  BY InitInv, FoundInit, InitRead
<1>2. WalkInv /\ FoundInv /\ VolumeRead /\ [Next]_vars => (WalkInv /\ FoundInv /\ VolumeRead)'
  <2>. SUFFICES ASSUME WalkInv, FoundInv, VolumeRead, [Next]_vars
                PROVE  (WalkInv /\ FoundInv /\ VolumeRead)'
    OBVIOUS
  <2>1. DirectoriesRead
    BY DirectoriesAreRead
  <2>2. UNCHANGED volume
    BY DEF Next, EnterRoot, PassSlot, FindDeleted, EnterSubdirectory, PassVisited,
           LeaveDirectory, Finish, Ended, vars
  <2>. QED  BY <2>1, <2>2, WalkNextInv, FoundNext, ReadStays
<1>. QED  BY <1>1, <1>2, PTL DEF Spec

\* Reading a directory gives slots, and fails off the image: what the types of
\* the walk rest on.  No call is ever past the slots of its directory.
THEOREM TypeCorrect == Spec => []TypeOK
<1>1. ASSUME WalkInv, FoundInv, VolumeRead PROVE TypeOK
  <2>1. DirectoriesRead /\ VolumeTyped
    BY <1>1, DirectoriesAreRead DEF VolumeRead
  <2>2. visited \subseteq Addressed /\ pc \in {"start", "walk", "done", "error"}
    BY <1>1 DEF FoundInv, Tree, LedTo
  <2>3. stack \in Seq(Frames) /\ DOMAIN stack = 1 .. Len(stack)
    BY <1>1 DEF WalkInv, Walked
  <2>4. ASSUME NEW i \in DOMAIN stack
        PROVE  stack[i].dir \in visited /\ stack[i].at \in 1 .. Len(SlotsOf(stack[i].dir)) + 1
    <3>1. stack[i] \in Frames
      BY <2>3, <2>4
    <3>2. stack[i].dir \in visited /\ stack[i].at <= Len(SlotsOf(stack[i].dir)) + 1
      BY <1>1, <2>3, <2>4 DEF WalkInv, Walked, FoundInv, WithinSlots
    <3>3. stack[i].dir \in Clusters /\ stack[i].at \in Nat \ {0}
      BY <3>1 DEF Frames
    <3>4. Len(SlotsOf(stack[i].dir)) \in Nat
      BY <2>1, <3>3, SlotsTyped
    <3>. QED  BY <3>2, <3>3, <3>4
  <2>. QED  BY <2>1, <2>2, <2>4 DEF TypeOK, VolumeTyped
<1>. QED  BY <1>1, WalkInvariant, PTL

\* Whatever the volume holds, chains that loop and directories that hold their
\* ancestors included, the path of a deleted entry is a way from the root to
\* it that passes no directory twice.
THEOREM PathsAreReal == Spec => []PathsLeadThere
<1>1. WalkInv => PathsLeadThere
  BY DEF WalkInv
<1>. QED  BY WalkInvariant, <1>1, PTL

\* walk_directory never calls itself deeper than the volume has clusters, so
\* the process's stack is bounded by the size of the volume.
THEOREM DepthIsBounded == Spec => []DepthBounded
<1>1. ASSUME WalkInv PROVE DepthBounded
  <2>1. stack \in Seq(Frames) /\ Len(stack) \in Nat
    BY <1>1 DEF WalkInv, Walked
  <2>. DEFINE directory == [i \in 1 .. Len(stack) |-> stack[i].dir]
  <2>2. \A i \in 1 .. Len(stack) : stack[i] \in Frames
    BY <2>1
  <2>3. directory \in [1 .. Len(stack) -> Clusters]
    BY <2>2 DEF Frames
  <2>4. directory \in Injection(1 .. Len(stack), Clusters)
    BY <1>1, <2>3 DEF WalkInv, Walked, Injection, IsInjective
  <2>5. IsFiniteSet(Clusters)
    BY FatAssumption, FS_Interval DEF Clusters
  <2>6. Cardinality(1 .. Len(stack)) <= Cardinality(Clusters)
    BY <2>4, <2>5, FS_Injection
  <2>7. Cardinality(1 .. Len(stack)) = Len(stack)
    BY <2>1, FS_Interval
  <2>. QED  BY <2>6, <2>7 DEF DepthBounded
<1>2. WalkInv => DepthBounded
  BY <1>1
<1>. QED  BY WalkInvariant, <1>2, PTL

\* A walk that is over has been to the whole live tree.
LEMMA WholeTree ==
    ASSUME WalkInv, FoundInv, DirectoriesRead, pc = "done"
    PROVE  Tree = visited /\ Tree \subseteq Clusters
<1>1. /\ visited \subseteq Tree /\ stack = <<>> /\ Root \in visited
      /\ \A c \in visited : dirs[c].ok
      /\ Scanned(stack, visited, found)
  BY DEF FoundInv
<1>2. visited \subseteq Addressed
  BY <1>1 DEF Tree, LedTo
<1>3. visited \subseteq Clusters
  BY <1>1, <1>2 DEF DirectoriesRead
<1>. DEFINE leads == [b \in Addressed |-> Subdirectories(b)]
<1>4. ASSUME NEW c \in visited PROVE leads[c] \subseteq visited
  <2>1. leads[c] = Subdirectories(c)
    BY <1>2
  <2>2. ASSUME NEW i \in Live(c), SlotsOf(c)[i].kind = "dir" PROVE SlotsOf(c)[i].first \in visited
    <3>1. i \in Nat
      BY <1>2, LiveTyped
    <3>2. DirectoryAt(c, i) /\ Behind(stack, c, i)
      BY <1>1, <2>2 DEF DirectoryAt, Behind
    <3>. QED  BY <1>1, <3>1, <3>2 DEF Scanned
  <2>3. Subdirectories(c) \subseteq visited
    BY <2>2 DEF Subdirectories
  <2>. QED  BY <2>1, <2>3
<1>5. Tree = LedTo(Root, leads)
  BY DEF Tree
<1>. HIDE DEF leads
<1>6. Tree \subseteq visited
  BY <1>1, <1>2, <1>4, <1>5, LedToLeast
<1>. QED  BY <1>1, <1>3, <1>6

\* The scan lists the deleted entries of the whole live tree, each of them
\* once, even if several directories lead to it or one holds an ancestor.
THEOREM EachDeletedIsFound == Spec => []FindsEachDeletedOnce
<1>1. ASSUME WalkInv, FoundInv, DirectoriesRead PROVE FindsEachDeletedOnce
  <2>. DEFINE places == [n \in DOMAIN found |-> Place(found[n])]
              there == UNION {{<<c, i>> : i \in {j \in Live(c) : SlotsOf(c)[j].kind = "deleted"}}
                                : c \in Tree}
  <2>. SUFFICES ASSUME pc = "done"
                PROVE  /\ {places[n] : n \in DOMAIN places} = there
                       /\ \A m, n \in DOMAIN places : m # n => places[m] # places[n]
    BY DEF FindsEachDeletedOnce, Place
  <2>1. Scanned(stack, visited, found) /\ stack = <<>> /\ Tree = visited /\ Tree \subseteq Addressed
    BY <1>1, WholeTree DEF FoundInv, Tree, LedTo
  <2>2. DOMAIN found = 1 .. Len(found)
    BY <2>1 DEF Scanned
  <2>3. \A c, i : Behind(stack, c, i)
    BY <2>1 DEF Behind
  <2>4. ASSUME NEW n \in 1 .. Len(found) PROVE Place(found[n]) \in there
    <3>1. PICK c \in visited, i \in Nat : Place(found[n]) = <<c, i>> /\ DeletedAt(c, i)
      BY <2>1 DEF Scanned
    <3>. QED  BY <2>1, <3>1 DEF DeletedAt
  <2>5. ASSUME NEW p \in there PROVE \E n \in 1 .. Len(found) : Place(found[n]) = p
    <3>1. PICK c \in Tree : \E i \in Live(c) : p = <<c, i>> /\ SlotsOf(c)[i].kind = "deleted"
      OBVIOUS
    <3>2. PICK i \in Live(c) : p = <<c, i>> /\ SlotsOf(c)[i].kind = "deleted"
      BY <3>1
    <3>3. i \in Nat
      BY <1>1, <2>1, LiveTyped
    <3>. QED  BY <2>1, <2>3, <3>2, <3>3 DEF Scanned, DeletedAt
  <2>6. \A m, n \in 1 .. Len(found) : Place(found[m]) = Place(found[n]) => m = n
    BY <2>1 DEF Scanned
  <2>. HIDE DEF there
  <2>. QED  BY <2>2, <2>4, <2>5, <2>6
<1>. QED  BY <1>1, DirectoriesAreRead, WalkInvariant, PTL

\* A chain that leads to as many clusters as MAX_CHAIN_CLUSTERS at the most:
\* "a volume never needs anywhere near this many clusters in one chain".
ChainsFit == \A c \in Addressed : Cardinality(Linked(c)) <= MaxChainClusters

LEMMA ChainsFitStays == ChainsFit /\ UNCHANGED volume => ChainsFit'
  BY DEF ChainsFit, Linked, LedTo, Addressed, Clusters, Outside, ChainEnds, volume

\* A walk that succeeds read the directories of the whole tree, every cluster
\* of each, and once; one that fails met a directory of the tree that its
\* chain leads off the image.
THEOREM DirectoriesAreWhole == Spec /\ ChainsFit => []DirectoryIsWhole
<1>1. ASSUME WalkInv, FoundInv, VolumeRead, ChainsFit PROVE DirectoryIsWhole
  <2>0. DirectoriesRead /\ VolumeTyped
    BY <1>1, DirectoriesAreRead DEF VolumeRead
  <2>1. ASSUME pc = "done", NEW c \in Tree
        PROVE  /\ Linked(c) \subseteq Clusters
               /\ Len(SlotsOf(c)) = SlotsPerCluster * Cardinality(Linked(c))
    <3>1. c \in Addressed /\ dirs[c].ok
      BY <1>1, <2>0, <2>1, WholeTree DEF FoundInv, Addressed
    <3>2. PICK s : ReadBy(c, s)
      BY <1>1, <3>1 DEF VolumeRead
    <3>3. Follows(c, s) /\ ~GoesOn(s) /\ Outside \notin Range(s)
          /\ Len(SlotsOf(c)) = SlotsPerCluster * Len(s)
      BY <3>1, <3>2 DEF ReadBy, SlotsOf
    <3>4. Linked(c) = Range(s)
      BY <1>1, <2>0, <3>1, <3>3, FollowsAll DEF ChainsFit
    <3>5. Range(s) \subseteq Addressed /\ Cardinality(Range(s)) = Len(s)
      BY <3>3, FollowsCount
    <3>. QED  BY <3>3, <3>4, <3>5 DEF Addressed
  <2>2. ASSUME pc = "error" PROVE \E c \in Tree : Outside \in Linked(c)
    <3>1. PICK c \in Tree : c \in Addressed /\ ~dirs[c].ok
      BY <1>1, <2>2 DEF FoundInv, Tree, LedTo
    <3>2. PICK s : ReadBy(c, s)
      BY <1>1, <3>1 DEF VolumeRead
    <3>3. Outside \in Range(s) /\ Follows(c, s)
      BY <3>1, <3>2 DEF ReadBy
    <3>. QED  BY <3>1, <3>3, FollowsLinked
  <2>. QED  BY <2>1, <2>2 DEF DirectoryIsWhole
<1>2. ChainsFit /\ [Next]_vars => ChainsFit'
  <2>1. [Next]_vars => UNCHANGED volume
    BY DEF Next, EnterRoot, PassSlot, FindDeleted, EnterSubdirectory, PassVisited,
           LeaveDirectory, Finish, Ended, vars
  <2>. QED  BY <2>1, ChainsFitStays
<1>3. Spec /\ ChainsFit => []ChainsFit
  BY <1>2, PTL DEF Spec
<1>. QED  BY <1>1, <1>3, WalkInvariant, PTL
=============================================================================
