---------------------------- MODULE CarverProofs ----------------------------
(***************************************************************************)
(* Proofs about Carver for every source, table of signatures, range and    *)
(* chunk size, those no longer than the overlap included.                  *)
(***************************************************************************)
EXTENDS Carver, TLAPS, WellFoundedInduction

\* The headers H are all that the results come from.
From(H) == /\ results = {ResolveExtent(image, m[1], m[2]) : m \in H}
           /\ seen = {m[2] : m \in H}

\* What the loop maintains: the results come from headers in the part covered,
\* from all of them if chunks overlap.
Caught ==
    pc # "error" =>
        \E H \in SUBSET HeadersWithin(image, lo, lo + scanned) :
            From(H) /\ (Overlapping => H = HeadersWithin(image, lo, lo + scanned))

\* The heart of it: after the first chunk a running scan whose chunks overlap
\* is Overlap bytes behind the end of what it has covered.
Behind ==
    /\ pc = "running" => \/ pos = lo /\ scanned = 0
                         \/ /\ pos + (IF Overlapping THEN Overlap ELSE 0) = lo + scanned
                            /\ lo + scanned < hi /\ chunkSize > 0
    /\ pc = "complete" => lo + scanned = hi \/ chunkSize = 0

\* A failed scan returns no files.
DropsOnError == pc = "error" => results = {}

IInv == TypeOK /\ Caught /\ Behind /\ DropsOnError

-----------------------------------------------------------------------------
\* < on the naturals, as a set of pairs, is well founded.
LEMMA LessWellFounded ==
    IsWellFoundedOn({ss \in Nat \X Nat : ss[1] < ss[2]}, Nat)
BY Zenon, NatLessThanWellFounded DEF OpToRel

\* A nonempty set of naturals has a least element.
LEMMA LeastNatural ==
    ASSUME NEW T \in SUBSET Nat, T # {}
    PROVE  \E x \in T : \A y \in T : x <= y
<1>. DEFINE R == {ss \in Nat \X Nat : ss[1] < ss[2]}
<1>1. IsWellFoundedOn(R, Nat)
  BY LessWellFounded
<1>. HIDE DEF R
<1>2. PICK x \in T : \A y \in T : ~(<<y, x>> \in R)
  BY <1>1, WFMin, Zenon
<1>3. ASSUME NEW y \in T  PROVE x <= y
  <2>1. x \in Nat /\ y \in Nat
    OBVIOUS
  <2>2. <<y, x>> \in R <=> y < x
    BY <2>1, Zenon DEF R
  <2>. QED  BY <1>2, <2>1, <2>2
<1>. QED  BY <1>3

\* resolve_extent yields a record of the right type: it keeps the offset and
\* ends within the source.
LEMMA ExtentType ==
    ASSUME NEW img \in Images, NEW s \in Sigs, NEW o \in Offsets
    PROVE  /\ ResolveExtent(img, s, o) \in
                [sig : Sigs, start : Offsets, end : 0 .. Size, confidence : {30, 85}]
           /\ ResolveExtent(img, s, o).start = o
<1>. DEFINE hits == FootersWithin(img, s, o)
            first == CHOOSE e \in hits : \A f \in hits : e <= f
<1>1. WindowEnd(s, o) \in 0 .. Size
  BY SignatureAssumption DEF WindowEnd, Offsets
<1>2. CASE hits = {}
  BY <1>1, <1>2 DEF ResolveExtent
<1>3. CASE hits # {}
  <2>1. hits \in SUBSET Nat
    BY DEF FootersWithin, Offsets
  <2>2. first \in hits
    BY <2>1, <1>3, LeastNatural
  <2>3. /\ Len(Footer[s]) \in Nat
        /\ first + Len(Footer[s]) <= WindowEnd(s, o)
        /\ first \in Nat
    BY <2>2, SignatureAssumption DEF FootersWithin, Offsets
  <2>4. first + Len(Footer[s]) \in 0 .. Size
    BY <1>1, <2>3, SignatureAssumption
  <2>. HIDE DEF hits, first
  <2>5. ResolveExtent(img, s, o) =
            [sig |-> s, start |-> o, end |-> first + Len(Footer[s]), confidence |-> 85]
    BY <1>3 DEF ResolveExtent, hits, first
  <2>. QED  BY <2>4, <2>5
<1>. QED  BY <1>2, <1>3

\* Two header matches at one offset are the same match.
LEMMA OneMatchPerOffset ==
    ASSUME NEW img \in Images, NEW a, NEW b, NEW c, NEW d,
           NEW m \in HeadersWithin(img, a, b), NEW n \in HeadersWithin(img, c, d),
           m[2] = n[2]
    PROVE  m = n
<1>1. /\ m \in Sigs \X Offsets /\ n \in Sigs \X Offsets
      /\ Occurs(img, Header[m[1]], m[2]) /\ Occurs(img, Header[n[1]], m[2])
  BY DEF HeadersWithin
<1>2. ASSUME m[1] # n[1]  PROVE FALSE
  <2>1. PICK i \in DOMAIN Header[m[1]] \cap DOMAIN Header[n[1]] :
            Header[m[1]][i] # Header[n[1]][i]
    BY <1>1, <1>2, PrefixFreeAssumption
  <2>2. /\ i \in 1 .. Len(Header[m[1]])
        /\ i \in 1 .. Len(Header[n[1]])
    BY <1>1, <2>1, SignatureAssumption
  <2>. QED  BY <1>1, <2>1, <2>2 DEF Occurs
<1>. QED  BY <1>1, <1>2

\* The overlap argument of carver.rs 11-18: if a chunk starts no more than
\* Overlap bytes before the end a of the part covered so far, the headers in
\* the enlarged part are the old ones and those within the chunk.
LEMMA ChunkExtendsPrefix ==
    ASSUME NEW img \in Images, NEW p \in Nat, NEW l \in Nat, NEW a \in Nat, NEW b \in Nat,
           l <= p, a <= b,
           p = l \/ p + Overlap <= a
    PROVE  HeadersWithin(img, l, b) = HeadersWithin(img, l, a) \union HeadersWithin(img, p, b)
<1>1. ASSUME NEW m \in Sigs \X Offsets
      PROVE  /\ m[1] \in Sigs /\ m[2] \in Nat
             /\ Len(Header[m[1]]) \in Nat /\ Len(Header[m[1]]) <= Overlap
  BY <1>1, SignatureAssumption, OverlapAssumption DEF Offsets
<1>2. Overlap \in Nat
  BY OverlapAssumption
<1>3. ASSUME NEW m \in Sigs \X Offsets
      PROVE  m \in HeadersWithin(img, l, b)
               <=> m \in HeadersWithin(img, l, a) \/ m \in HeadersWithin(img, p, b)
  BY <1>1, <1>2, <1>3 DEF HeadersWithin
<1>. QED  BY <1>3 DEF HeadersWithin

-----------------------------------------------------------------------------
\* Taking the matches of the chunk at pos adds headers of the chunk to those
\* the results come from; if chunks overlap, they are then all of the prefix,
\* now longer by the chunk.
LEMMA TakeMatchesCaught ==
    ASSUME IInv, pc = "running", pos < hi, ReadLen > 0, TakeMatches, UNCHANGED image
    PROVE  /\ ReadLen \in Nat /\ pos + ReadLen <= hi
           /\ lo + scanned < pos + ReadLen
           /\ results \subseteq results'
           /\ \E H \in SUBSET HeadersWithin(image, lo, pos + ReadLen) :
                 From(H)' /\ (Overlapping => H = HeadersWithin(image, lo, pos + ReadLen))
<1>. DEFINE a == lo + scanned
            b == pos + ReadLen
            new == {m \in HeadersWithin(image, pos, b) : m[2] \notin seen}
<1>1. /\ image \in Images /\ lo \in Nat /\ hi \in Nat /\ pos \in Nat /\ scanned \in Nat
      /\ lo <= pos /\ chunkSize \in Nat /\ Overlap \in Nat
  BY SignatureAssumption, OverlapAssumption, ChunkAssumption DEF IInv, TypeOK
<1>2. /\ ReadLen \in Nat /\ b \in Nat /\ a \in Nat /\ b <= hi
      /\ a < b
      /\ Overlapping => pos = lo \/ pos + Overlap <= a
  BY <1>1 DEF IInv, Behind, ReadLen, Overlapping
<1>3. PICK H \in SUBSET HeadersWithin(image, lo, a) :
         From(H) /\ (Overlapping => H = HeadersWithin(image, lo, a))
  BY DEF IInv, Caught
<1>4. HeadersWithin(image, lo, a) \subseteq HeadersWithin(image, lo, b)
      /\ HeadersWithin(image, pos, b) \subseteq HeadersWithin(image, lo, b)
  <2>1. ASSUME NEW m \in Sigs \X Offsets
        PROVE  m[2] \in Nat /\ Len(Header[m[1]]) \in Nat
    BY <2>1, SignatureAssumption DEF Offsets
  <2>. QED  BY <1>1, <1>2, <2>1 DEF HeadersWithin
<1>5. H \union new \in SUBSET HeadersWithin(image, lo, b)
  BY <1>3, <1>4
<1>6. Overlapping => H \union new = HeadersWithin(image, lo, b)
  <2>. SUFFICES ASSUME Overlapping PROVE H \union new = HeadersWithin(image, lo, b)
    OBVIOUS
  <2>1. HeadersWithin(image, lo, b) = HeadersWithin(image, lo, a) \union HeadersWithin(image, pos, b)
    BY <1>1, <1>2, ChunkExtendsPrefix
  <2>2. ASSUME NEW m \in HeadersWithin(image, pos, b), m[2] \in seen
        PROVE  m \in HeadersWithin(image, lo, a)
    <3>1. PICK n \in HeadersWithin(image, lo, a) : m[2] = n[2]
      BY <1>3, <2>2 DEF From
    <3>. QED  BY <1>1, <3>1, OneMatchPerOffset
  <2>. QED  BY <1>3, <2>1, <2>2
<1>7. /\ seen' = seen \union {m[2] : m \in new}
      /\ results' = results \union {ResolveExtent(image, m[1], m[2]) : m \in new}
  BY DEF TakeMatches
<1>. HIDE DEF new
<1>8. /\ seen' = {m[2] : m \in H \union new}
      /\ results' = {ResolveExtent(image, m[1], m[2]) : m \in H \union new}
  BY <1>3, <1>7, Zenon DEF From
<1>9. \A K : K = H \union new => From(K)'
  BY <1>8, Zenon DEF From
<1>10. \E K \in SUBSET HeadersWithin(image, lo, b) :
          From(K)' /\ (Overlapping => K = HeadersWithin(image, lo, b))
  BY <1>5, <1>6, <1>9
<1>. QED  BY <1>2, <1>7, <1>10

\* What is carved has the type TypeOK asks for.
LEMMA CarvedType ==
    ASSUME NEW img \in Images, NEW l, NEW h
    PROVE  /\ CarvedWithin(img, l, h) \subseteq
                [sig : Sigs, start : Offsets, end : 0 .. Size, confidence : {30, 85}]
           /\ {m[2] : m \in HeadersWithin(img, l, h)} \subseteq Offsets
<1>1. \A m \in HeadersWithin(img, l, h) : m[1] \in Sigs /\ m[2] \in Offsets
  BY DEF HeadersWithin
<1>. QED  BY <1>1, ExtentType DEF CarvedWithin

\* The inductive invariant holds initially: the empty prefix holds no header.
LEMMA InitIInv == Init => IInv
<1>. SUFFICES ASSUME Init  PROVE IInv
  OBVIOUS
<1>1. TypeOK
  BY SignatureAssumption DEF Init, TypeOK
<1>2. HeadersWithin(image, lo, lo) = {}
  <2>1. ASSUME NEW m \in HeadersWithin(image, lo, lo)  PROVE FALSE
    <3>1. /\ m[1] \in Sigs /\ m[2] \in Int /\ lo \in Int
          /\ lo <= m[2] /\ m[2] + Len(Header[m[1]]) <= lo
      BY SignatureAssumption DEF HeadersWithin, Offsets, Init
    <3>2. Len(Header[m[1]]) \in Nat /\ 0 < Len(Header[m[1]])
      BY <3>1, SignatureAssumption
    <3>. QED  BY <3>1, <3>2
  <2>. QED  BY <2>1
<1>3. lo + scanned = lo
  BY SignatureAssumption DEF Init
<1>4. From({})
  BY DEF Init, From
<1>5. Caught /\ Behind /\ DropsOnError
  BY <1>2, <1>3, <1>4 DEF Init, Caught, Behind, DropsOnError
<1>. QED  BY <1>1, <1>5 DEF IInv

\* Every step keeps it.
LEMMA NextIInv ==
    ASSUME IInv, [Next]_vars
    PROVE  IInv'
<1>. USE DEF IInv, DropsOnError
<1>0. /\ image \in Images /\ lo \in Nat /\ hi \in Nat /\ pos \in Nat /\ scanned \in Nat
      /\ hi <= Size /\ Size \in Nat /\ lo <= pos /\ pos <= hi
      /\ chunkSize \in Nat /\ Overlap \in Nat
  BY SignatureAssumption, OverlapAssumption, ChunkAssumption DEF TypeOK
<1>1. CASE NothingToRead
  <2>1. /\ UNCHANGED <<chunkSize, image, lo, hi, pos, seen, results, scanned>>
        /\ pc = "running" /\ pc' = "complete" /\ (pos >= hi \/ ReadLen = 0)
    BY <1>1 DEF NothingToRead
  <2>2. TypeOK' /\ DropsOnError'
    BY <2>1 DEF TypeOK
  <2>3. Caught'
    BY <2>1 DEF Caught, From, Overlapping
  <2>4. Behind'
    <3>1. lo + scanned = hi \/ chunkSize = 0
      BY <1>0, <2>1 DEF Behind, ReadLen, Overlapping
    <3>. QED  BY <2>1, <3>1 DEF Behind
  <2>. QED  BY <2>2, <2>3, <2>4
<1>2. ASSUME pc = "running", pos < hi, ReadLen > 0, TakeMatches,
             UNCHANGED <<chunkSize, image, lo, hi>>, scanned' = pos + ReadLen - lo,
             pc' \in {"running", "complete", "stopped"},
             pos' \in lo .. hi, Behind'
      PROVE  IInv'
  <2>1. ReadLen \in Nat /\ pos + ReadLen <= hi
    BY <1>2, TakeMatchesCaught
  <2>2. PICK H \in SUBSET HeadersWithin(image, lo, pos + ReadLen) :
           From(H)' /\ (Overlapping => H = HeadersWithin(image, lo, pos + ReadLen))
    BY <1>2, TakeMatchesCaught
  <2>3. lo' + scanned' = pos + ReadLen /\ scanned' \in 0 .. (hi - lo)
    BY <1>0, <1>2, <2>1
  <2>4. Overlapping' = Overlapping /\ pc' # "error"
    BY <1>2 DEF Overlapping
  <2>5. Caught'
    BY <1>2, <2>2, <2>3, <2>4 DEF Caught
  <2>6. /\ results' \subseteq [sig : Sigs, start : Offsets, end : 0 .. Size, confidence : {30, 85}]
        /\ seen' \subseteq Offsets
    <3>1. /\ results' = {ResolveExtent(image, m[1], m[2]) : m \in H}
          /\ seen' = {m[2] : m \in H}
      BY <1>2, <2>2, Zenon DEF From
    <3>2. /\ results' \subseteq CarvedWithin(image, lo, pos + ReadLen)
          /\ seen' \subseteq {m[2] : m \in HeadersWithin(image, lo, pos + ReadLen)}
      BY <3>1 DEF CarvedWithin
    <3>. QED  BY <1>0, <3>2, CarvedType
  <2>7. TypeOK'
    BY <1>0, <1>2, <2>3, <2>6 DEF TypeOK
  <2>. QED  BY <1>2, <2>4, <2>5, <2>7
<1>3. CASE ScanChunk
  <2>1. /\ pc = "running" /\ pos < hi /\ ReadLen > 0 /\ TakeMatches
        /\ scanned' = pos + ReadLen - lo /\ UNCHANGED <<chunkSize, image, lo, hi>>
    BY <1>3 DEF ScanChunk
  <2>2. ReadLen \in Nat /\ pos + ReadLen <= hi
    BY <2>1, TakeMatchesCaught
  <2>3. CASE pos + Step <= pos \/ pos + ReadLen >= hi
    <3>1. pos' = pos /\ pc' = "complete"
      BY <1>3, <2>3 DEF ScanChunk
    <3>2. pos + ReadLen >= hi
      BY <1>0, <2>1, <2>2, <2>3 DEF Step, ReadLen, Overlapping
    <3>3. Behind'
      BY <1>0, <2>1, <2>2, <3>1, <3>2 DEF Behind
    <3>. QED  BY <1>0, <1>2, <2>1, <3>1, <3>3
  <2>4. CASE ~(pos + Step <= pos \/ pos + ReadLen >= hi)
    <3>1. pos' = pos + Step /\ pc' = "running"
      BY <1>3, <2>4 DEF ScanChunk
    <3>2. ReadLen = chunkSize
      BY <1>0, <2>2, <2>4 DEF ReadLen
    <3>3. /\ pos' + (IF Overlapping THEN Overlap ELSE 0) = pos + ReadLen
          /\ pos' \in lo .. hi
      BY <1>0, <2>2, <2>4, <3>1, <3>2 DEF Step, Overlapping
    <3>4. lo' + scanned' = pos + ReadLen /\ lo' + scanned' < hi' /\ chunkSize' > 0
      BY <1>0, <2>1, <2>2, <2>4, <3>2
    <3>5. Overlapping' = Overlapping
      BY <2>1 DEF Overlapping
    <3>6. Behind'
      BY <3>1, <3>3, <3>4, <3>5 DEF Behind
    <3>. QED  BY <1>2, <2>1, <3>1, <3>3, <3>6
  <2>. QED  BY <2>3, <2>4
<1>4. CASE ScanChunkAndStop
  <2>1. /\ pc = "running" /\ pos < hi /\ ReadLen > 0 /\ TakeMatches
        /\ scanned' = pos + ReadLen - lo /\ UNCHANGED <<chunkSize, image, lo, hi, pos>>
        /\ pc' = "stopped"
    BY <1>4 DEF ScanChunkAndStop
  <2>2. Behind' /\ pos' \in lo .. hi
    BY <1>0, <2>1 DEF Behind
  <2>. QED  BY <1>2, <2>1, <2>2
<1>5. CASE ReadFails
  BY <1>5 DEF ReadFails, TypeOK, Caught, Behind
<1>6. CASE UNCHANGED vars
  BY <1>6 DEF vars, TypeOK, Caught, From, Behind, Overlapping
<1>. QED  BY <1>1, <1>3, <1>4, <1>5, <1>6 DEF Next, Ended

-----------------------------------------------------------------------------
\* A scan's state always has its type, and the invariant that explains why
\* the overlap works always holds.
THEOREM Invariant == Spec => []IInv
<1>1. IInv /\ [Next]_vars => IInv'
  BY NextIInv
<1>. QED  BY <1>1, InitIInv, PTL DEF Spec

\* Types are kept by every scan.
THEOREM TypeCorrect == Spec => []TypeOK
<1>1. IInv => TypeOK
  BY DEF IInv
<1>. QED  BY <1>1, Invariant, PTL

\* What the results come from, at every moment.
LEMMA FoundFrom ==
    ASSUME IInv, pc # "error"
    PROVE  \E H \in SUBSET HeadersWithin(image, lo, lo + scanned) :
              From(H) /\ (Overlapping => H = HeadersWithin(image, lo, lo + scanned))
BY DEF IInv, Caught

\* The guarantee of carver.rs 11-18: at every moment, whether the scan goes
\* on, was stopped or is complete, the files found are those whose header
\* lies in the bytes scanned so far, for every source, every table of
\* signatures, every range and every chunk size larger than the overlap; with
\* a smaller one none of them is invented.
THEOREM NoHeaderMissed == Spec => []PrefixCarved
<1>1. ASSUME IInv, pc # "error"
      PROVE  /\ results \subseteq CarvedWithin(image, lo, lo + scanned)
             /\ Overlapping => results = CarvedWithin(image, lo, lo + scanned)
  BY <1>1, FoundFrom DEF From, CarvedWithin
<1>2. IInv => PrefixCarved
  BY <1>1 DEF PrefixCarved
<1>. QED  BY <1>2, Invariant, PTL

\* A scan that runs to its end has read the whole range, whatever the size of
\* its chunks if they are not empty, and carved it all if they overlap.
THEOREM WholeRangeCarved == Spec => []CompleteScan
<1>1. ASSUME IInv, pc = "complete"
      PROVE  /\ chunkSize > 0 => lo + scanned = hi
             /\ Overlapping => results = CarvedWithin(image, lo, hi)
  <2>1. lo + scanned = hi \/ chunkSize = 0
    BY <1>1 DEF IInv, Behind
  <2>2. Overlapping => chunkSize > 0
    BY <1>1, OverlapAssumption, ChunkAssumption DEF IInv, TypeOK, Overlapping
  <2>3. Overlapping => results = CarvedWithin(image, lo, lo + scanned)
    BY <1>1, FoundFrom DEF From, CarvedWithin
  <2>. QED  BY <1>1, <2>1, <2>2, <2>3, ChunkAssumption DEF IInv, TypeOK
<1>2. IInv => CompleteScan
  BY <1>1 DEF CompleteScan
<1>. QED  BY <1>2, Invariant, PTL

\* De-duplication by start offset: the starts reported are the offsets seen,
\* and no two files reported start at one offset.
THEOREM StartsAreUnique == Spec => []UniqueStarts
<1>1. IInv => UniqueStarts
  <2>. SUFFICES ASSUME IInv  PROVE UniqueStarts
    OBVIOUS
  <2>1. CASE pc = "error"
    <3>1. results = {}
      BY <2>1 DEF IInv, DropsOnError
    <3>. QED  BY <2>1, <3>1 DEF UniqueStarts
  <2>2. CASE pc # "error"
    <3>0. image \in Images
      BY DEF IInv, TypeOK
    <3>. PICK H \in SUBSET HeadersWithin(image, lo, lo + scanned) : From(H)
      BY <2>2, FoundFrom
    <3>1. /\ results = {ResolveExtent(image, m[1], m[2]) : m \in H}
          /\ seen = {m[2] : m \in H}
      BY DEF From
    <3>2. \A m \in H : ResolveExtent(image, m[1], m[2]).start = m[2]
      BY <3>0, ExtentType DEF HeadersWithin
    <3>3. \A m, n \in H : m[2] = n[2] => m = n
      BY <3>0, OneMatchPerOffset
    <3>4. \A f, g \in results : f.start = g.start => f = g
      BY <3>1, <3>2, <3>3
    <3>5. {f.start : f \in results} = seen
      BY <3>1, <3>2
    <3>. QED  BY <3>4, <3>5 DEF UniqueStarts
  <2>. QED  BY <2>1, <2>2
<1>. QED  BY <1>1, Invariant, PTL

\* What resolve_extent takes the end of the file to be, by the two cases.
LEMMA FirstFooter ==
    ASSUME NEW img \in Images, NEW s \in Sigs, NEW o \in Offsets, FootersWithin(img, s, o) # {}
    PROVE  \E e \in FootersWithin(img, s, o) :
               /\ \A d \in FootersWithin(img, s, o) : e <= d
               /\ ResolveExtent(img, s, o) =
                     [sig |-> s, start |-> o, end |-> e + Len(Footer[s]), confidence |-> 85]
<1>. DEFINE hits == FootersWithin(img, s, o)
            first == CHOOSE e \in hits : \A d \in hits : e <= d
<1>1. hits \in SUBSET Nat
  BY DEF FootersWithin, Offsets
<1>2. first \in hits /\ \A d \in hits : first <= d
  BY <1>1, LeastNatural
<1>3. ResolveExtent(img, s, o) =
          [sig |-> s, start |-> o, end |-> first + Len(Footer[s]), confidence |-> 85]
  BY DEF ResolveExtent
<1>. HIDE DEF first
<1>. QED  BY <1>2, <1>3

LEMMA ExtentSound ==
    ASSUME NEW img \in Images, NEW s \in Sigs, NEW o \in Offsets, Occurs(img, Header[s], o)
    PROVE  LET f == ResolveExtent(img, s, o)
           IN  /\ f.sig = s /\ f.start = o
               /\ o + Len(Header[s]) <= f.end
               /\ f.confidence = 85 =>
                     LET last == f.end - Len(Footer[s])
                     IN  /\ Occurs(img, Footer[s], last)
                         /\ \A e \in o .. last - 1 : ~ Occurs(img, Footer[s], e)
               /\ f.confidence = 30 => FootersWithin(img, s, o) = {}
<1>. DEFINE f == ResolveExtent(img, s, o)
            hits == FootersWithin(img, s, o)
            n == Len(Footer[s])
            h == Len(Header[s])
<1>1. /\ n \in Nat /\ h \in Nat /\ o \in Nat /\ Size \in Nat /\ MaxSize[s] \in Nat /\ h <= MaxSize[s]
      /\ o + h <= Size /\ WindowEnd(s, o) \in Nat /\ o + h <= WindowEnd(s, o)
  BY SignatureAssumption DEF Offsets, Occurs, WindowEnd
<1>2. CASE hits = {}
  <2>1. f = [sig |-> s, start |-> o, end |-> WindowEnd(s, o), confidence |-> 30]
    BY <1>2 DEF ResolveExtent
  <2>. HIDE DEF f
  <2>2. f.sig = s /\ f.start = o /\ f.end = WindowEnd(s, o) /\ f.confidence = 30
    BY <2>1
  <2>. QED  BY <1>1, <1>2, <2>2 DEF f
<1>3. CASE hits # {}
  <2>1. PICK last \in hits :
            /\ \A d \in hits : last <= d
            /\ f = [sig |-> s, start |-> o, end |-> last + n, confidence |-> 85]
    BY <1>3, FirstFooter
  <2>2. /\ last \in Nat /\ last \in Offsets /\ Footer[s] # <<>> /\ o <= last
        /\ last + n <= WindowEnd(s, o) /\ Occurs(img, Footer[s], last)
    BY <2>1 DEF FootersWithin, Offsets
  <2>3. f.sig = s /\ f.start = o /\ f.end = last + n /\ f.confidence = 85
    <3>. HIDE DEF f
    <3>. QED  BY <2>1
  <2>4. f.end - n = last
    BY <1>1, <2>2, <2>3
  <2>5. ASSUME NEW e \in o .. last - 1, Occurs(img, Footer[s], e) PROVE FALSE
    <3>1. e \in Nat /\ e < last /\ o <= e /\ e + n <= WindowEnd(s, o) /\ e \in Offsets
      BY <1>1, <2>2 DEF Offsets
    <3>2. e \in hits
      BY <2>2, <2>5, <3>1 DEF FootersWithin
    <3>. QED  BY <2>1, <2>2, <3>1, <3>2
  <2>6. o + h <= last + n
    <3>. SUFFICES ASSUME last + n < o + h PROVE FALSE
      BY <1>1, <2>2
    <3>. DEFINE i == last - o
    <3>1. i \in 0 .. h /\ i + n < h
      BY <1>1, <2>2
    <3>2. PICK j \in 1 .. n : Header[s][i + j] # Footer[s][j]
      BY <2>2, <3>1, FooterAssumption
    <3>3. img[last + j - 1] = Footer[s][j]
      BY <2>2 DEF Occurs
    <3>4. i + j \in 1 .. h /\ o + (i + j) - 1 = last + j - 1
      <4>1. i = last - o /\ i \in Nat /\ j \in Nat /\ 1 <= j /\ j <= n
        BY <1>1, <3>1
      <4>. HIDE DEF i, n, h
      <4>2. i + j \in Nat /\ 1 <= i + j /\ i + j <= h
        BY <1>1, <3>1, <4>1
      <4>3. o + (i + j) - 1 = last + j - 1
        BY <1>1, <2>2, <4>1
      <4>. QED  BY <1>1, <4>2, <4>3
    <3>5. img[o + (i + j) - 1] = Header[s][i + j]
      BY <3>4 DEF Occurs
    <3>. QED  BY <3>2, <3>3, <3>4, <3>5
  <2>. HIDE DEF f, n, h, hits
  <2>7. o + h <= f.end
    BY <2>3, <2>6
  <2>8. \A e \in o .. (f.end - n) - 1 : ~ Occurs(img, Footer[s], e)
    BY <2>4, <2>5
  <2>. QED  BY <2>2, <2>3, <2>4, <2>7, <2>8 DEF f, n, h
<1>. QED  BY <1>2, <1>3

\* What is carved is what its confidence says: a file never leaves the source
\* and holds its header, 85 is said of one that ends with its first footer and
\* 30 only when the window has none.
THEOREM ExtentsAreSound == Spec => []ExtentsSound
<1>1. ASSUME IInv, NEW f \in results
      PROVE  /\ f.end <= Size
             /\ f.start + Len(Header[f.sig]) <= f.end
             /\ f.confidence = 85 =>
                   LET last == f.end - Len(Footer[f.sig])
                   IN  /\ Occurs(image, Footer[f.sig], last)
                       /\ \A e \in f.start .. last - 1 : ~ Occurs(image, Footer[f.sig], e)
             /\ f.confidence = 30 => FootersWithin(image, f.sig, f.start) = {}
  <2>1. image \in Images /\ pc # "error" /\ f.end <= Size
    BY <1>1, SignatureAssumption DEF IInv, DropsOnError, TypeOK
  <2>2. PICK m \in HeadersWithin(image, lo, lo + scanned) : f = ResolveExtent(image, m[1], m[2])
    BY <1>1, <2>1, FoundFrom DEF From
  <2>3. m[1] \in Sigs /\ m[2] \in Offsets /\ Occurs(image, Header[m[1]], m[2])
    BY DEF HeadersWithin
  <2>. QED  BY <2>1, <2>2, <2>3, ExtentSound
<1>2. IInv => ExtentsSound
  BY <1>1 DEF ExtentsSound
<1>. QED  BY <1>2, Invariant, PTL

\* The abstract specification reads signatures as the scan does.
LEMMA SameCarving ==
    /\ Abstract!Images = Images
    /\ \A img, a, b : Abstract!CarvedWithin(img, a, b) = CarvedWithin(img, a, b)
<1>1. Abstract!Images = Images /\ Abstract!Offsets = Offsets
  BY DEF Abstract!Images, Images, Abstract!Offsets, Offsets
<1>2. ASSUME NEW img, NEW n, NEW o
      PROVE  Abstract!Occurs(img, n, o) = Occurs(img, n, o)
  BY Zenon DEF Abstract!Occurs, Occurs
<1>3. ASSUME NEW img, NEW a, NEW b
      PROVE  Abstract!HeadersWithin(img, a, b) = HeadersWithin(img, a, b)
  BY <1>1, <1>2, Zenon DEF Abstract!HeadersWithin, HeadersWithin
<1>4. ASSUME NEW s, NEW o
      PROVE  Abstract!WindowEnd(s, o) = WindowEnd(s, o)
  BY Zenon DEF Abstract!WindowEnd, WindowEnd
<1>5. ASSUME NEW img, NEW s, NEW o
      PROVE  Abstract!FootersWithin(img, s, o) = FootersWithin(img, s, o)
  BY <1>1, <1>2, <1>4, Zenon DEF Abstract!FootersWithin, FootersWithin
<1>6. ASSUME NEW img, NEW s, NEW o
      PROVE  Abstract!ResolveExtent(img, s, o) = ResolveExtent(img, s, o)
  BY <1>4, <1>5, Zenon DEF Abstract!ResolveExtent, ResolveExtent
<1>. QED  BY <1>1, <1>3, <1>6, Zenon DEF Abstract!CarvedWithin, CarvedWithin

\* Chunks, overlap and de-duplication are an implementation of carving a
\* growing prefix: every step of the scan is a step of CarveSpec.
THEOREM ScanImplementsCarveSpec == Spec => ImplementsCarveSpec
<1>1. Init => Abstract!Init
  <2>. SUFFICES ASSUME Init PROVE Abstract!Init
    OBVIOUS
  <2>1. lo + scanned = lo /\ Overlapping \in BOOLEAN
    BY SignatureAssumption DEF Init, Overlapping
  <2>. QED  BY <2>1, SameCarving DEF Init, Abstract!Init
<1>2. ASSUME IInv, [Next]_vars  PROVE [Abstract!Next]_(Abstract!vars)
  <2>0. /\ lo \in Nat /\ hi \in Nat /\ pos \in Nat /\ scanned \in Nat /\ lo <= pos
        /\ pos <= hi
    BY <1>2, SignatureAssumption DEF IInv, TypeOK
  <2>1. CASE NothingToRead
    <3>1. chunkSize \in Nat /\ Overlap \in Nat
      BY <1>2, ChunkAssumption, OverlapAssumption DEF IInv, TypeOK
    <3>2. lo = hi \/ (~ Overlapping /\ lo + scanned = lo)
      BY <2>0, <2>1, <1>2, <3>1 DEF IInv, Behind, NothingToRead, ReadLen, Overlapping
    <3>3. Overlapping' = Overlapping
      BY <2>1 DEF NothingToRead, Overlapping
    <3>. QED  BY <2>1, <3>2, <3>3 DEF NothingToRead, Abstract!Next, Abstract!CoverNothing
  <2>2. ASSUME pc = "running", pos < hi, ReadLen > 0, TakeMatches,
               UNCHANGED <<chunkSize, image, lo, hi>>, scanned' = pos + ReadLen - lo,
               pc' \in IF pos + ReadLen = hi THEN {"complete", "stopped"}
                                             ELSE {"running", "stopped"}
        PROVE  Abstract!Cover
    <3>1. /\ ReadLen \in Nat /\ pos + ReadLen <= hi /\ lo + scanned < pos + ReadLen
          /\ results \subseteq results'
      BY <1>2, <2>2, TakeMatchesCaught
    <3>. PICK H \in SUBSET HeadersWithin(image, lo, pos + ReadLen) :
           From(H)' /\ (Overlapping => H = HeadersWithin(image, lo, pos + ReadLen))
      BY <1>2, <2>2, TakeMatchesCaught
    <3>3. /\ results' \subseteq CarvedWithin(image, lo, pos + ReadLen)
          /\ Overlapping => results' = CarvedWithin(image, lo, pos + ReadLen)
      BY <2>2 DEF From, CarvedWithin
    <3>4. Overlapping' = Overlapping
      BY <2>2 DEF Overlapping
    <3>2. /\ lo' + scanned' = pos + ReadLen
          /\ pos + ReadLen \in (lo + scanned + 1) .. hi
      BY <2>0, <2>2, <3>1
    <3>. QED  BY <2>2, <3>1, <3>2, <3>3, <3>4, SameCarving DEF Abstract!Cover
  <2>3. CASE ScanChunk
    <3>1. ReadLen \in Nat /\ pos + ReadLen <= hi
      BY <1>2, <2>3, TakeMatchesCaught DEF ScanChunk
    <3>2. pc' \in IF pos + ReadLen = hi THEN {"complete", "stopped"}
                                        ELSE {"running", "stopped"}
      BY <1>2, <2>0, <2>3, <3>1, ChunkAssumption, OverlapAssumption
         DEF ScanChunk, Step, Overlapping, ReadLen, IInv, TypeOK
    <3>. QED  BY <2>2, <2>3, <3>2 DEF ScanChunk, Abstract!Next
  <2>4. CASE ScanChunkAndStop
    BY <2>2, <2>4 DEF ScanChunkAndStop, Abstract!Next
  <2>5. CASE ReadFails
    BY <2>5 DEF ReadFails, Overlapping, Abstract!Next, Abstract!Fail
  <2>6. CASE UNCHANGED vars
    BY <2>6 DEF vars, Overlapping, Abstract!vars
  <2>. QED  BY <1>2, <2>1, <2>3, <2>4, <2>5, <2>6 DEF Next, Ended
<1>. QED  BY <1>1, <1>2, Invariant, PTL DEF Spec, ImplementsCarveSpec, Abstract!Spec
=============================================================================
