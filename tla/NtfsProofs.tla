------------------------------ MODULE NtfsProofs ------------------------------
(***************************************************************************)
(* Proofs about NTFS: how content is read through a run list, and what the *)
(* scan of the $MFT lists, for every list of runs, record and volume.      *)
(***************************************************************************)
EXTENDS NtfsScan, Induction

-----------------------------------------------------------------------------
(* A record                                                                *)

\* What recursion gives: running sums.
LEMMA RunningSum ==
    ASSUME NEW base \in Int, NEW N \in Nat, NEW d \in [1 .. N -> Int]
    PROVE  \E g \in [0 .. N -> Int] :
               \A n \in 0 .. N : g[n] = IF n = 0 THEN base ELSE g[n - 1] + d[n]
<1>. DEFINE turn == [p \in Nat \X Int |-> IF p[1] \in 1 .. N THEN p[2] + d[p[1]] ELSE p[2]]
<1>1. turn \in Turns(Int)
  BY DEF Turns
<1>2. ASSUME NEW n \in 1 .. N, NEW v \in Int  PROVE turn[<<n, v>>] = v + d[n]
  <2>1. <<n, v>> \in Nat \X Int /\ <<n, v>>[1] = n /\ <<n, v>>[2] = v
    OBVIOUS
  <2>. QED  BY <2>1
<1>. HIDE DEF turn
<1>3. PICK g : Recurs(g, 0, N, Int, base, turn)
  <2>1. 0 \in Nat /\ 0 <= N
    OBVIOUS
  <2>. QED  BY <1>1, <2>1, FunctionByRecursion
<1>4. g \in [0 .. N -> Int]
  BY <1>3 DEF Recurs
<1>5. ASSUME NEW n \in 0 .. N  PROVE g[n] = IF n = 0 THEN base ELSE g[n - 1] + d[n]
  <2>1. CASE n = 0
    BY <1>3, <2>1 DEF Recurs
  <2>2. CASE n # 0
    <3>1. n \in 1 .. N /\ n - 1 \in 0 .. N
      BY <2>2
    <3>2. g[n] = turn[<<n, g[n - 1]>>]
      BY <1>3, <2>2 DEF Recurs
    <3>3. g[n - 1] \in Int
      BY <1>4, <3>1
    <3>. QED  BY <1>2, <2>2, <3>1, <3>2, <3>3
  <2>. QED  BY <2>1, <2>2
<1>. QED  BY <1>4, <1>5

\* And such sums are integers, whatever function gives them.
LEMMA SumsAreIntegers ==
    ASSUME NEW base \in Int, NEW N \in Nat, NEW d, \A n \in 1 .. N : d[n] \in Int, NEW f,
           \A n \in 0 .. N : f[n] = IF n = 0 THEN base ELSE f[n - 1] + d[n]
    PROVE  \A n \in 0 .. N : f[n] \in Int
<1>. DEFINE T == {n \in Nat : f[n] \in Int}
<1>1. 0 \in T
  <2>1. 0 \in 0 .. N
    OBVIOUS
  <2>. QED  BY <2>1
<1>2. ASSUME NEW n \in 0 .. N - 1, n \in T  PROVE n + 1 \in T
  <2>1. n + 1 \in 0 .. N /\ n + 1 # 0 /\ (n + 1) - 1 = n /\ n + 1 \in 1 .. N
    OBVIOUS
  <2>2. f[n + 1] = f[n] + d[n + 1]
    BY <2>1
  <2>. QED  BY <1>2, <2>1, <2>2
<1>. HIDE DEF T
<1>3. \A n \in 0 .. N : n \in T
  BY <1>1, <1>2, EveryUpTo
<1>. QED  BY <1>3 DEF T

LEMMA RecordTyped ==
    ASSUME NEW r \in Records
    PROVE  /\ Len(r.attributes) \in Nat
           /\ DOMAIN r.attributes = 1 .. Len(r.attributes)
           /\ \A i \in 1 .. Len(r.attributes) : r.attributes[i] \in Attributes
           /\ r.garbled \in Attributes /\ r.usaCount \in Nat
<1>1. PICK n \in 0 .. MaxAttributes : r.attributes \in [1 .. n -> Attributes]
  BY DEF Records
<1>2. r.garbled \in Attributes /\ r.usaCount \in Nat
  BY RecordAssumption DEF Records
<1>3. n \in Nat
  BY <1>1, RecordAssumption
<1>4. Len(r.attributes) = n
  BY <1>1, <1>3
<1>. QED  BY <1>1, <1>2, <1>3, <1>4

\* Where the attributes end.
LEMMA Ends ==
    ASSUME NEW r \in Records
    PROVE  /\ EndOf(r) \in [0 .. Len(r.attributes) -> Int]
           /\ EndOf(r)[0] = FirstAttribute
           /\ \A i \in 1 .. Len(r.attributes) :
                 EndOf(r)[i] = EndOf(r)[i - 1] + r.attributes[i].len
<1>. DEFINE N == Len(r.attributes)
            body(f, i) == IF i = 0 THEN FirstAttribute ELSE f[i - 1] + r.attributes[i].len
            end == CHOOSE f : f = [i \in 0 .. N |-> body(f, i)]
            lens == [i \in 1 .. N |-> r.attributes[i].len]
<1>1. N \in Nat /\ FirstAttribute \in Int /\ lens \in [1 .. N -> Int]
  BY RecordTyped, RecordAssumption
<1>2. EndOf(r) = end
  BY DEF EndOf
<1>3. \A i \in 1 .. N : lens[i] = r.attributes[i].len
  OBVIOUS
<1>. HIDE DEF N, lens
<1>4. PICK g \in [0 .. N -> Int] :
          \A n \in 0 .. N : g[n] = IF n = 0 THEN FirstAttribute ELSE g[n - 1] + lens[n]
  BY <1>1, RunningSum
<1>5. \A n \in 0 .. N : g[n] = body(g, n)
  <2>1. ASSUME NEW n \in 0 .. N, n # 0 PROVE n \in 1 .. N
    BY <2>1, <1>1
  <2>. QED  BY <1>3, <1>4, <2>1
<1>6. g = [n \in 0 .. N |-> body(g, n)]
  BY <1>4, <1>5
<1>7. end = [n \in 0 .. N |-> body(end, n)]
  <2>. HIDE DEF body
  <2>. QED  BY <1>6
<1>. HIDE DEF end
<1>8. \A n \in 0 .. N : end[n] = IF n = 0 THEN FirstAttribute ELSE end[n - 1] + lens[n]
  <2>1. ASSUME NEW n \in 0 .. N, n # 0 PROVE n \in 1 .. N
    BY <2>1, <1>1
  <2>. QED  BY <1>3, <1>7, <2>1
<1>9. \A n \in 0 .. N : end[n] \in Int
  BY <1>1, <1>8, SumsAreIntegers
<1>10. end \in [0 .. N -> Int]
  BY <1>7, <1>9
<1>11. end[0] = FirstAttribute
  BY <1>1, <1>8
<1>12. \A i \in 1 .. N : end[i] = end[i - 1] + r.attributes[i].len
  <2>1. \A i \in 1 .. N : i \in 0 .. N /\ i # 0
    BY <1>1
  <2>. QED  BY <1>3, <1>8, <2>1
<1>. QED  BY <1>2, <1>10, <1>11, <1>12 DEF N

\* What never falls from one place to the next never falls.
LEMMA NeverFalls ==
    ASSUME NEW N \in Nat, NEW f, \A n \in 0 .. N : f[n] \in Int,
           \A n \in 1 .. N : f[n - 1] <= f[n]
    PROVE  \A m, n \in 0 .. N : m <= n => f[m] <= f[n]
<1>. DEFINE T == {gap \in Nat : \A m \in 0 .. N : m + gap <= N => f[m] <= f[m + gap]}
<1>1. 0 \in T
  OBVIOUS
<1>2. ASSUME NEW gap \in Nat, gap \in T  PROVE gap + 1 \in T
  <2>. SUFFICES ASSUME NEW m \in 0 .. N, m + (gap + 1) <= N  PROVE f[m] <= f[m + (gap + 1)]
    OBVIOUS
  <2>1. /\ m + gap \in 0 .. N /\ m + (gap + 1) \in 1 .. N /\ m + (gap + 1) \in 0 .. N
        /\ (m + (gap + 1)) - 1 = m + gap
    OBVIOUS
  <2>2. f[m + gap] <= f[m + (gap + 1)]
    BY <2>1
  <2>3. f[m] <= f[m + gap]
    BY <1>2, <2>1
  <2>. QED  BY <2>1, <2>2, <2>3
<1>. HIDE DEF T
<1>3. \A gap \in Nat : gap \in T
  BY <1>1, <1>2, EveryNatural
<1>. SUFFICES ASSUME NEW m \in 0 .. N, NEW n \in 0 .. N, m <= n  PROVE f[m] <= f[n]
  OBVIOUS
<1>4. n - m \in Nat /\ m + (n - m) = n /\ m + (n - m) <= N
  OBVIOUS
<1>5. n - m \in T
  BY <1>3, <1>4
<1>. QED  BY <1>4, <1>5 DEF T

\* A sound attribute is passed: it has a length, its content lies in it, and
\* its runs decode.
LEMMA SoundPasses ==
    ASSUME NEW a \in Attributes, Sound(a)
    PROVE  /\ a.len \in Nat /\ a.len >= 24 /\ a.type \in {"name", "data", "other"}
           /\ a.type = "name" => ~ a.nonResident /\ FileName(a) = a.holds /\ a.holds \notin {None, "panic"}
           /\ a.type = "data" => /\ Data(a) = IF a.nonResident THEN a.holds ELSE "resident"
                                 /\ Data(a) \in {"runs", "empty", "resident"}
<1>1. /\ a.type \in {"name", "data", "other", "end"} /\ a.nonResident \in BOOLEAN
      /\ a.len \in Nat /\ a.at \in Nat /\ a.size \in Nat
      /\ a.type = "name" => a.holds \notin {None, "panic"}
      /\ a.type = "data" /\ a.nonResident => a.holds \in {"runs", "empty", "broken"}
  BY RecordAssumption
<1>2. CASE a.type = "name"
  <2>1. ~ a.nonResident /\ a.at \in 24 .. a.len - 66 - a.size
    BY <1>2 DEF Sound
  <2>2. a.len >= 24 /\ ~ (a.len < 24) /\ ~ (a.at > a.len) /\ ~ (a.len - a.at < 66 + a.size)
    BY <1>1, <2>1
  <2>3. FileName(a) = a.holds
    BY <2>2 DEF FileName
  <2>. QED  BY <1>1, <1>2, <2>1, <2>2, <2>3
<1>3. CASE a.type = "data" /\ a.nonResident
  <2>1. a.at \in 64 .. a.len - 1 /\ a.holds # "broken"
    BY <1>3 DEF Sound
  <2>2. a.len >= 24 /\ ~ (a.len < 34) /\ ~ (a.at > a.len)
    BY <1>1, <2>1
  <2>3. Data(a) = a.holds
    BY <1>3, <2>2 DEF Data
  <2>. QED  BY <1>1, <1>3, <2>1, <2>2, <2>3
<1>4. CASE a.type = "data" /\ ~ a.nonResident
  <2>1. a.at \in 24 .. a.len - a.size
    BY <1>4 DEF Sound
  <2>2. a.len >= 24 /\ ~ (a.len < 22) /\ ~ (a.at + a.size > a.len)
    BY <1>1, <2>1
  <2>3. Data(a) = "resident"
    BY <1>4, <2>2 DEF Data
  <2>. QED  BY <1>1, <1>4, <2>2, <2>3
<1>5. CASE a.type = "other"
  <2>1. a.len >= 24
    BY <1>5 DEF Sound
  <2>. QED  BY <1>1, <1>5, <2>1
<1>6. a.type # "end"
  BY DEF Sound
<1>. QED  BY <1>1, <1>2, <1>3, <1>4, <1>5, <1>6

\* In a whole record there is room after every attribute for the end marker.
LEMMA WholeHasRoom ==
    ASSUME NEW r \in Records, Whole(r)
    PROVE  \A i \in 1 .. Len(r.attributes) :
              /\ Sound(r.attributes[i])
              /\ EndOf(r)[i - 1] \in Nat /\ EndOf(r)[i] = EndOf(r)[i - 1] + r.attributes[i].len
              /\ EndOf(r)[i] + 8 <= RecordBytes /\ RecordBytes \in Nat
<1>. DEFINE N == Len(r.attributes)
            end == EndOf(r)
<1>1. /\ N \in Nat /\ \A n \in 0 .. N : end[n] \in Int
      /\ end[0] = FirstAttribute /\ FirstAttribute \in Nat
      /\ \A n \in 1 .. N : end[n] = end[n - 1] + r.attributes[n].len
      /\ end[N] + 8 <= RecordBytes
      /\ \A n \in 1 .. N : Sound(r.attributes[n]) /\ r.attributes[n].len \in Nat
  <2>1. N \in Nat /\ DOMAIN r.attributes = 1 .. N /\ \A n \in 1 .. N : r.attributes[n] \in Attributes
    BY RecordTyped
  <2>2. FirstAttribute \in Nat
    BY RecordAssumption
  <2>3. \A n \in 1 .. N : Sound(r.attributes[n])
    BY <2>1 DEF Whole
  <2>4. \A n \in 1 .. N : r.attributes[n].len \in Nat
    BY <2>1, <2>3, SoundPasses
  <2>5. end[N] + 8 <= RecordBytes
    BY DEF Whole
  <2>. HIDE DEF end
  <2>6. /\ end \in [0 .. N -> Int] /\ end[0] = FirstAttribute
        /\ \A n \in 1 .. N : end[n] = end[n - 1] + r.attributes[n].len
    BY Ends DEF end
  <2>. HIDE DEF N
  <2>. QED  BY <2>1, <2>2, <2>3, <2>4, <2>5, <2>6
<1>2. RecordBytes \in Nat
  BY RecordAssumption DEF RecordBytes
<1>. HIDE DEF N, end
<1>3. \A n \in 1 .. N : end[n - 1] <= end[n]
  <2>1. ASSUME NEW n \in 1 .. N  PROVE end[n - 1] <= end[n]
    <3>1. n - 1 \in 0 .. N
      BY <1>1
    <3>2. end[n - 1] \in Int /\ r.attributes[n].len \in Nat
      BY <1>1, <3>1
    <3>. QED  BY <1>1, <3>2
  <2>. QED  BY <2>1
<1>4. \A m, n \in 0 .. N : m <= n => end[m] <= end[n]
  BY <1>1, <1>3, NeverFalls
<1>5. ASSUME NEW i \in 1 .. N
      PROVE  /\ Sound(r.attributes[i])
             /\ end[i - 1] \in Nat /\ end[i] = end[i - 1] + r.attributes[i].len
             /\ end[i] + 8 <= RecordBytes /\ RecordBytes \in Nat
  <2>1. /\ i - 1 \in 0 .. N /\ i \in 0 .. N /\ N \in 0 .. N /\ 0 \in 0 .. N
        /\ 0 <= i - 1 /\ i <= N
    BY <1>1
  <2>2. end[0] <= end[i - 1] /\ end[i] <= end[N]
    BY <1>4, <2>1
  <2>3. end[i - 1] \in Int /\ end[i] \in Int /\ end[N] \in Int
    BY <1>1, <2>1
  <2>4. end[i - 1] \in Nat
    BY <1>1, <2>2, <2>3
  <2>5. end[i] + 8 <= RecordBytes
    BY <1>1, <1>2, <2>2, <2>3
  <2>. QED  BY <1>1, <1>2, <2>4, <2>5
<1>. QED  BY <1>5 DEF N, end

-----------------------------------------------------------------------------
(* Parsing a record                                                        *)

Names == {None, "panic"} \union {a.holds : a \in Attributes}
Datas == {None, "panic", "resident"} \union {a.holds : a \in Attributes}
Finds == [pos : Nat, name : Names, data : Datas, ended : {"no", "ok", "error", "panic"}]

LEMMA StepTyped ==
    ASSUME NEW r \in Records, NEW s \in Finds, NEW a \in Attributes
    PROVE  Step(r, s, a) \in Finds
<1>. DEFINE seen == Seen(r, s.pos, a)
<1>1. seen \in Attributes
  BY RecordTyped DEF Seen
<1>2. Step(r, s, a) = IF s.ended # "no" THEN s
                      ELSE IF Stops(s.pos, seen) THEN [s EXCEPT !.ended = "ok"]
                      ELSE Passed(s, seen)
  BY DEF Step
<1>. HIDE DEF seen
<1>3. seen.len \in Nat /\ s.pos \in Nat /\ s.name \in Names /\ s.data \in Datas
  BY <1>1, RecordAssumption DEF Finds
<1>4. s.pos + seen.len \in Nat
  BY <1>3
<1>5. FileName(seen) \in Names
  BY <1>1 DEF FileName, Names
<1>6. Data(seen) \in Datas
  BY <1>1 DEF Data, Datas
<1>7. [s EXCEPT !.ended = "ok"] \in Finds /\ [s EXCEPT !.ended = "panic"] \in Finds
      /\ [s EXCEPT !.ended = "error"] \in Finds
  BY DEF Finds
<1>8. None \in Names /\ None \in Datas
  BY DEF Names, Datas
<1>9. Passed(s, seen) \in Finds
  <2>. DEFINE name == IF seen.type = "name" /\ ~ seen.nonResident THEN FileName(seen) ELSE None
              data == IF seen.type = "data" /\ s.data = None THEN Data(seen) ELSE None
              next == [pos |-> s.pos + seen.len,
                       name |-> IF s.name = None THEN name ELSE s.name,
                       data |-> IF data # None THEN data ELSE s.data,
                       ended |-> "no"]
  <2>1. name \in Names /\ data \in Datas
    BY <1>5, <1>6, <1>8
  <2>2. Passed(s, seen) \in {[s EXCEPT !.ended = "panic"], [s EXCEPT !.ended = "error"], next}
    BY DEF Passed
  <2>. HIDE DEF name, data
  <2>3. next \in Finds
    BY <1>3, <1>4, <2>1 DEF Finds
  <2>. QED  BY <1>7, <2>2, <2>3
<1>. QED  BY <1>2, <1>7, <1>9

\* What parse_attributes has found after each attribute.
Found(r, after) ==
    \A i \in 0 .. Len(r.attributes) :
        after[i] = IF i = 0 THEN Unparsed("no") ELSE Step(r, after[i - 1], r.attributes[i])

LEMMA ParsedStepwise ==
    ASSUME NEW r \in Records, ~ FixupFails(r)
    PROVE  \E after : Found(r, after) /\ Parsed(r) = after[Len(r.attributes)]
<1>. DEFINE N == Len(r.attributes)
            body(f, i) == IF i = 0 THEN Unparsed("no") ELSE Step(r, f[i - 1], r.attributes[i])
            after == CHOOSE f : f = [i \in 0 .. N |-> body(f, i)]
            turn == [p \in Nat \X Finds |->
                        IF p[1] \in 1 .. N THEN Step(r, p[2], r.attributes[p[1]]) ELSE p[2]]
<1>1. N \in Nat /\ 0 \in Nat /\ 0 <= N /\ \A i \in 1 .. N : r.attributes[i] \in Attributes
  BY RecordTyped
<1>2. Parsed(r) = after[N]
  BY DEF Parsed
<1>3. Unparsed("no") \in Finds
  BY RecordAssumption DEF Unparsed, Finds, Names, Datas
<1>4. turn \in Turns(Finds)
  BY <1>1, StepTyped DEF Turns
<1>5. ASSUME NEW i \in 1 .. N, NEW s \in Finds  PROVE turn[<<i, s>>] = Step(r, s, r.attributes[i])
  <2>1. <<i, s>> \in Nat \X Finds /\ <<i, s>>[1] = i /\ <<i, s>>[2] = s
    BY <1>1
  <2>. QED  BY <2>1
<1>. HIDE DEF turn, N
<1>6. PICK g : Recurs(g, 0, N, Finds, Unparsed("no"), turn)
  BY <1>1, <1>3, <1>4, FunctionByRecursion
<1>7. ASSUME NEW i \in 0 .. N  PROVE g[i] = body(g, i)
  <2>1. CASE i = 0
    BY <1>6, <2>1 DEF Recurs
  <2>2. CASE i # 0
    <3>1. i - 1 \in 0 .. N /\ i \in 1 .. N
      BY <1>1, <2>2
    <3>2. g[i - 1] \in Finds
      BY <1>6, <3>1 DEF Recurs
    <3>3. g[i] = turn[<<i, g[i - 1]>>]
      BY <1>6, <2>2 DEF Recurs
    <3>. QED  BY <1>5, <2>2, <3>1, <3>2, <3>3
  <2>. QED  BY <2>1, <2>2
<1>8. g = [i \in 0 .. N |-> body(g, i)]
  BY <1>6, <1>7 DEF Recurs
<1>9. after = [i \in 0 .. N |-> body(after, i)]
  <2>. HIDE DEF body
  <2>. QED  BY <1>8
<1>. HIDE DEF after
<1>10. \A i \in 0 .. N : after[i] = body(after, i)
  BY <1>9
<1>11. Found(r, after)
  BY <1>10 DEF Found, N
<1>. QED  BY <1>2, <1>11 DEF N

\* What an attribute contributes.
Holds(a) == IF a.type = "data" THEN Data(a) ELSE a.holds
Takes(v, type, a) == IF v = None /\ a.type = type THEN Holds(a) ELSE v

\* The loop passes every attribute of a whole record.
LEMMA WholeStep ==
    ASSUME NEW r \in Records, Whole(r), NEW i \in 1 .. Len(r.attributes), NEW n, NEW d, NEW s,
           s = [pos |-> EndOf(r)[i - 1], name |-> n, data |-> d, ended |-> "no"]
    PROVE  LET a == r.attributes[i]
           IN  Step(r, s, a) = [pos |-> EndOf(r)[i], name |-> Takes(n, "name", a),
                                data |-> Takes(d, "data", a), ended |-> "no"]
<1>. DEFINE a == r.attributes[i]
            p == EndOf(r)[i - 1]
<1>1. a \in Attributes /\ Sound(a) /\ a.len \in Nat
  BY RecordTyped, WholeHasRoom, SoundPasses
<1>2. /\ p \in Nat /\ EndOf(r)[i] = p + a.len /\ p + a.len + 8 <= RecordBytes /\ RecordBytes \in Nat
  BY WholeHasRoom
<1>3. Restored(r) = 1 .. RecordSectors
  <2>1. r.usaCount > RecordSectors /\ r.usaCount \in Nat /\ RecordSectors \in Nat
    BY RecordTyped, RecordAssumption DEF Whole
  <2>. QED  BY <2>1 DEF Restored
<1>. HIDE DEF a, p
<1>4. s.pos = p /\ s.name = n /\ s.data = d /\ s.ended = "no"
  BY DEF p
<1>5. Seen(r, s.pos, a) = a
  BY <1>3 DEF Seen
<1>6. /\ a.len \in Nat /\ a.len >= 24 /\ a.type \in {"name", "data", "other"}
      /\ a.type = "name" => ~ a.nonResident /\ FileName(a) = a.holds /\ a.holds \notin {None, "panic"}
      /\ a.type = "data" => /\ Data(a) = IF a.nonResident THEN a.holds ELSE "resident"
                            /\ Data(a) \in {"runs", "empty", "resident"}
  BY <1>1, SoundPasses
<1>7. ~ Stops(p, a)
  BY <1>2, <1>6 DEF Stops
<1>8. ~ (p + 8 >= RecordBytes)
  BY <1>2, <1>6
<1>9. Step(r, s, a) = Passed(s, a)
  BY <1>4, <1>5, <1>7 DEF Step
<1>. DEFINE name == IF a.type = "name" /\ ~ a.nonResident THEN FileName(a) ELSE None
            data == IF a.type = "data" /\ s.data = None THEN Data(a) ELSE None
<1>10. name = IF a.type = "name" THEN a.holds ELSE None
  BY <1>6
<1>11. name # "panic" /\ data # "panic" /\ data # "broken"
  BY <1>6, <1>10 DEF None
<1>12. Passed(s, a) = [pos |-> s.pos + a.len,
                       name |-> IF s.name = None THEN name ELSE s.name,
                       data |-> IF data # None THEN data ELSE s.data,
                       ended |-> "no"]
  BY <1>4, <1>8, <1>11 DEF Passed
<1>13. (IF s.name = None THEN name ELSE s.name) = Takes(n, "name", a)
  BY <1>4, <1>10 DEF Takes, Holds
<1>14. (IF data # None THEN data ELSE s.data) = Takes(d, "data", a)
  <2>1. CASE a.type = "data" /\ d = None
    BY <1>4, <1>6, <2>1 DEF Takes, Holds, None
  <2>2. CASE ~ (a.type = "data" /\ d = None)
    BY <1>4, <2>2 DEF Takes
  <2>. QED  BY <2>1, <2>2
<1>. HIDE DEF name, data
<1>15. Passed(s, a) = [pos |-> p + a.len, name |-> Takes(n, "name", a),
                       data |-> Takes(d, "data", a), ended |-> "no"]
  BY <1>4, <1>12, <1>13, <1>14
<1>. QED  BY <1>2, <1>9, <1>15 DEF a

\* The j-th attribute is the first of its type.
FirstAt(r, type, j) ==
    r.attributes[j].type = type /\ \A h \in 1 .. j - 1 : r.attributes[h].type # type

\* v is what the first attribute of a type holds, if it is among the first i.
SoFar(r, type, i, v) ==
    \/ v = None /\ \A j \in 1 .. i : r.attributes[j].type # type
    \/ v # None /\ \E j \in 1 .. i : FirstAt(r, type, j) /\ v = Holds(r.attributes[j])

LEMMA SoFarGrows ==
    ASSUME NEW r \in Records, Whole(r), NEW type \in {"name", "data"},
           NEW i \in 1 .. Len(r.attributes), NEW v, SoFar(r, type, i - 1, v)
    PROVE  SoFar(r, type, i, Takes(v, type, r.attributes[i]))
<1>. DEFINE a == r.attributes[i]
<1>1. i \in Nat /\ i \in 1 .. i /\ 1 .. i = (1 .. i - 1) \union {i}
  BY RecordTyped
<1>2. a.type = type => Holds(a) # None
  <2>1. a \in Attributes /\ Sound(a)
    BY RecordTyped, WholeHasRoom
  <2>. QED  BY <2>1, SoundPasses DEF Holds, None
<1>3. CASE v = None /\ \A j \in 1 .. i - 1 : r.attributes[j].type # type
  <2>1. CASE a.type = type
    BY <1>1, <1>2, <1>3, <2>1 DEF SoFar, Takes, FirstAt
  <2>2. CASE a.type # type
    BY <1>1, <1>3, <2>2 DEF SoFar, Takes
  <2>. QED  BY <2>1, <2>2
<1>4. CASE v # None /\ \E j \in 1 .. i - 1 : FirstAt(r, type, j) /\ v = Holds(r.attributes[j])
  <2>1. v # None
    BY <1>4
  <2>2. Takes(v, type, a) = v
    BY <2>1 DEF Takes
  <2>. HIDE DEF a
  <2>. QED  BY <1>1, <1>4, <2>2 DEF SoFar, a
<1>. QED  BY <1>3, <1>4 DEF SoFar

LEMMA SoFarIsFirst ==
    ASSUME NEW r \in Records, Whole(r), NEW type \in {"name", "data"}, NEW v,
           SoFar(r, type, Len(r.attributes), v)
    PROVE  v = First(r, type)
<1>. DEFINE N == Len(r.attributes)
            ofType == {i \in DOMAIN r.attributes : r.attributes[i].type = type}
            least == CHOOSE i \in ofType : \A j \in ofType : i <= j
<1>1. N \in Nat /\ DOMAIN r.attributes = 1 .. N
  BY RecordTyped
<1>2. CASE v = None /\ \A j \in 1 .. N : r.attributes[j].type # type
  <2>1. ofType = {}
    BY <1>1, <1>2
  <2>. QED  BY <1>2, <2>1 DEF First
<1>3. CASE \E j \in 1 .. N : FirstAt(r, type, j) /\ v = Holds(r.attributes[j])
  <2>1. PICK j \in 1 .. N : FirstAt(r, type, j) /\ v = Holds(r.attributes[j])
    BY <1>3
  <2>2. j \in ofType /\ \A h \in ofType : j <= h
    BY <1>1, <2>1 DEF FirstAt
  <2>3. least \in ofType /\ \A h \in ofType : least <= h
    BY <2>2
  <2>4. ofType \in SUBSET Nat
    BY <1>1
  <2>5. First(r, type) = IF ofType = {} THEN None
                         ELSE IF type = "data" /\ ~ r.attributes[least].nonResident THEN "resident"
                         ELSE r.attributes[least].holds
    BY DEF First
  <2>. HIDE DEF least, ofType
  <2>6. least = j
    BY <2>2, <2>3, <2>4
  <2>7. ofType # {}
    BY <2>2
  <2>. DEFINE a == r.attributes[j]
  <2>8. First(r, type) = IF type = "data" /\ ~ a.nonResident THEN "resident" ELSE a.holds
    BY <2>5, <2>6, <2>7
  <2>9. a \in Attributes /\ Sound(a) /\ a.type = type /\ v = Holds(a)
    BY <2>1, RecordTyped, WholeHasRoom DEF FirstAt
  <2>. HIDE DEF a
  <2>. QED  BY <2>8, <2>9, SoundPasses DEF Holds
<1>. QED  BY <1>2, <1>3 DEF SoFar

\* parse_attributes gets through a whole record and returns its first name
\* and what its first $DATA holds.
THEOREM WholeIsParsed ==
    ASSUME NEW r \in Records, Whole(r)
    PROVE  /\ Parsed(r).ended = "no"
           /\ Parsed(r).name = First(r, "name") /\ Parsed(r).data = First(r, "data")
<1>. DEFINE N == Len(r.attributes)
<1>1. ~ FixupFails(r)
  BY DEF FixupFails, Whole
<1>2. PICK after : Found(r, after) /\ Parsed(r) = after[N]
  BY <1>1, ParsedStepwise
<1>. DEFINE Good(i) == /\ after[i] = [pos |-> EndOf(r)[i], name |-> after[i].name,
                                      data |-> after[i].data, ended |-> "no"]
                       /\ SoFar(r, "name", i, after[i].name) /\ SoFar(r, "data", i, after[i].data)
            T == {i \in Nat : Good(i)}
<1>3. N \in Nat /\ EndOf(r)[0] = FirstAttribute
  BY RecordTyped, Ends
<1>4. 0 \in T
  <2>1. after[0] = [pos |-> FirstAttribute, name |-> None, data |-> None, ended |-> "no"]
    BY <1>2, <1>3 DEF Found, Unparsed
  <2>2. after[0].name = None /\ after[0].data = None
    BY <2>1
  <2>. QED  BY <1>3, <2>1, <2>2 DEF SoFar
<1>5. ASSUME NEW n \in 0 .. N - 1, n \in T  PROVE n + 1 \in T
  <2>. DEFINE i == n + 1
              a == r.attributes[i]
  <2>1. i \in 1 .. N /\ i \in 0 .. N /\ i # 0 /\ i \in Nat /\ i - 1 = n
    BY <1>3
  <2>2. after[i] = Step(r, after[i - 1], a)
    BY <1>2, <2>1 DEF Found
  <2>3. Good(i - 1)
    BY <1>5, <2>1
  <2>. HIDE DEF i, N
  <2>4. after[i] = [pos |-> EndOf(r)[i], name |-> Takes(after[i - 1].name, "name", a),
                    data |-> Takes(after[i - 1].data, "data", a), ended |-> "no"]
    BY <2>1, <2>2, <2>3, WholeStep DEF N
  <2>5. /\ after[i].name = Takes(after[i - 1].name, "name", a)
        /\ after[i].data = Takes(after[i - 1].data, "data", a)
    BY <2>4
  <2>6. SoFar(r, "name", i, after[i].name) /\ SoFar(r, "data", i, after[i].data)
    BY <2>1, <2>3, <2>5, SoFarGrows DEF N
  <2>7. Good(i)
    BY <2>4, <2>5, <2>6
  <2>. QED  BY <2>1, <2>7 DEF i
<1>. HIDE DEF T
<1>6. N \in T
  <2>1. \A n \in 0 .. N : n \in T
    BY <1>3, <1>4, <1>5, EveryUpTo
  <2>. QED  BY <1>3, <2>1
<1>7. Good(N)
  BY <1>6 DEF T
<1>8. after[N].ended = "no"
  BY <1>7
<1>. QED  BY <1>2, <1>7, <1>8, SoFarIsFirst

-----------------------------------------------------------------------------
(* The scan of the $MFT                                                    *)

AllOutcomes == {Blank} \union Outcomes
Listable == {o.name : o \in AllOutcomes}

\* What of the table lies before index is in the list, and nothing else.
ListInv ==
    /\ index \in Nat /\ found \in Seq(Nat \X Listable)
    /\ \A i \in DOMAIN found : found[i][1] < index
    /\ \A i, j \in DOMAIN found : i < j => found[i][1] < found[j][1]
    /\ \A w \in wanted : w[1] < index /\ \E i \in DOMAIN found : found[i] = w
    /\ reader # "scan" => found = <<>> /\ wanted = {}
    /\ pc \in {"open", "failed"} => reader # "scan"

LEMMA OutcomeOfWhole ==
    ASSUME NEW o \in AllOutcomes, o.whole
    PROVE  o.ended = "no" /\ o.name = o.trueName /\ o.data = o.trueData
<1>1. o \in Outcomes
  BY DEF AllOutcomes, Blank
<1>2. PICK r \in Records :
          o = [ended |-> Parsed(r).ended, name |-> Parsed(r).name, data |-> Parsed(r).data,
               whole |-> Whole(r), trueName |-> First(r, "name"), trueData |-> First(r, "data")]
  BY <1>1 DEF Outcomes
<1>3. Whole(r)
  BY <1>2
<1>4. /\ Parsed(r).ended = "no"
      /\ Parsed(r).name = First(r, "name") /\ Parsed(r).data = First(r, "data")
  BY <1>3, WholeIsParsed
<1>. QED  BY <1>2, <1>4

LEMMA ReadsOutcome == ReadOutcomes \subseteq AllOutcomes
BY DEF ReadOutcomes, AllOutcomes

\* The record at index is dealt with, and listed or not.
LEMMA RecordListed ==
    ASSUME ListInv, NEW o \in AllOutcomes, index' = index + 1, reader' = "scan",
           pc' \notin {"open", "failed"},
           NEW deleted \in BOOLEAN,
           found' = IF Listed(o, deleted) THEN Append(found, <<index, o.name>>) ELSE found,
           wanted' = IF o.whole /\ deleted /\ o.trueName # None /\ o.trueData = "runs"
                     THEN wanted \union {<<index, o.trueName>>}
                     ELSE wanted
    PROVE  ListInv'
<1>. DEFINE e == <<index, o.name>>
<1>1. index \in Nat /\ found \in Seq(Nat \X Listable) /\ e \in Nat \X Listable /\ e[1] = index
  BY DEF ListInv, Listable
<1>2. ASSUME o.whole, deleted, o.trueName # None, o.trueData = "runs"
      PROVE  Listed(o, deleted) /\ <<index, o.trueName>> = e
  BY <1>2, OutcomeOfWhole DEF Listed, None
<1>. HIDE DEF e
<1>3. CASE Listed(o, deleted)
  <2>1. found' = Append(found, e)
    BY <1>3 DEF e
  <2>2. /\ found' \in Seq(Nat \X Listable) /\ Len(found) \in Nat
        /\ DOMAIN found = 1 .. Len(found) /\ DOMAIN found' = 1 .. Len(found) + 1
        /\ \A i \in 1 .. Len(found) : found'[i] = found[i]
        /\ found'[Len(found) + 1] = e
    BY <1>1, <2>1
  <2>3. \A i \in 1 .. Len(found) : found[i][1] \in Nat /\ found[i][1] < index
    <3>1. \A i \in 1 .. Len(found) : found[i] \in Nat \X Listable
      BY <1>1, <2>2
    <3>2. \A i \in 1 .. Len(found) : found[i][1] < index
      BY <2>2 DEF ListInv
    <3>. QED  BY <3>1, <3>2
  <2>4. \A i \in DOMAIN found' : found'[i][1] < index'
    BY <1>1, <2>2, <2>3
  <2>5. \A i, j \in DOMAIN found' : i < j => found'[i][1] < found'[j][1]
    BY <1>1, <2>2, <2>3 DEF ListInv
  <2>6. ASSUME NEW w \in wanted'  PROVE w[1] < index' /\ \E i \in DOMAIN found' : found'[i] = w
    <3>1. CASE w \in wanted
      <4>1. w[1] < index
        BY <3>1 DEF ListInv
      <4>2. PICK i \in DOMAIN found : found[i] = w
        BY <3>1 DEF ListInv
      <4>3. w[1] \in Nat /\ i \in DOMAIN found' /\ found'[i] = w
        BY <2>2, <2>3, <4>2
      <4>. QED  BY <1>1, <4>1, <4>3
    <3>2. CASE w = e
      <4>1. Len(found) + 1 \in DOMAIN found'
        BY <2>2
      <4>2. \E i \in DOMAIN found' : found'[i] = w
        BY <2>2, <3>2, <4>1, Zenon
      <4>3. w[1] < index'
        BY <1>1, <3>2
      <4>. QED  BY <4>2, <4>3
    <3>. QED  BY <1>2, <2>6, <3>1, <3>2
  <2>7. index' \in Nat
    BY <1>1
  <2>. QED  BY <2>2, <2>4, <2>5, <2>6, <2>7 DEF ListInv
<1>4. CASE ~ Listed(o, deleted)
  <2>1. wanted' = wanted /\ found' = found
    BY <1>2, <1>4
  <2>2. \A i \in DOMAIN found : found[i][1] \in Nat /\ found[i][1] < index
    BY <1>1 DEF ListInv
  <2>3. \A i \in DOMAIN found : found[i][1] < index'
    BY <1>1, <2>2
  <2>4. \A w \in wanted : \E i \in DOMAIN found : found[i] = w
    BY DEF ListInv
  <2>5. \A w \in wanted : w[1] < index'
    BY <2>3, <2>4
  <2>. QED  BY <1>1, <2>1, <2>3, <2>4, <2>5 DEF ListInv
<1>. QED  BY <1>3, <1>4

LEMMA ListInitInv == ScanInit => ListInv
BY DEF ScanInit, ListInv

LEMMA ListNextInv ==
    ASSUME ListInv, [ScanNext]_allVars
    PROVE  ListInv'
<1>1. CASE ReadOn
  <2>1. UNCHANGED <<reader, index, found, wanted>>
    BY <1>1 DEF ReadOn, scanVars
  <2>2. pc' \notin {"open", "failed"}
    BY <1>1 DEF ReadOn, DecodeRun, SkipSparse, DecodeTruncated, PassRun, ReadRun, ReadFails, Pad,
                StartRead, Reading
  <2>. QED  BY <2>1, <2>2 DEF ListInv
<1>2. CASE OpenFile \/ ReadRecordZero \/ BootFails
  <2>1. UNCHANGED <<index, found, wanted>> /\ reader' # "scan"
    BY <1>2 DEF OpenFile, ReadRecordZero, BootFails, scanVars
  <2>2. reader # "scan" \/ pc = "open"
    BY <1>2 DEF OpenFile, ReadRecordZero, BootFails
  <2>. QED  BY <2>1, <2>2 DEF ListInv
<1>3. CASE OpenTable
  BY <1>3, ScanAssumption DEF OpenTable, StartRecord, ListInv
<1>4. CASE ReadBitmapRecord
  <2>1. UNCHANGED <<found, wanted>> /\ reader = "bitmap"
    BY <1>4 DEF ReadBitmapRecord
  <2>2. found = <<>> /\ wanted = {}
    BY <2>1 DEF ListInv
  <2>3. \/ UNCHANGED <<index, reader>>
        \/ reader' = "scan" /\ index' = 0 /\ pc' \notin {"open", "failed"}
    BY <1>4 DEF ReadBitmapRecord, GoTo, StartRecord
  <2>. QED  BY <2>1, <2>2, <2>3 DEF ListInv
<1>5. CASE SkipUnreadable
  <2>1. /\ UNCHANGED <<found, wanted, reader>> /\ reader = "scan"
        /\ index' = index + 1 /\ pc' \notin {"open", "failed"}
    BY <1>5 DEF SkipUnreadable, GoTo, StartRecord
  <2>2. \A i \in DOMAIN found : found[i][1] \in Nat /\ found[i][1] < index /\ index \in Nat
    BY DEF ListInv
  <2>3. \A i \in DOMAIN found : found[i][1] < index'
    BY <2>1, <2>2
  <2>4. \A w \in wanted : \E i \in DOMAIN found : found[i] = w
    BY DEF ListInv
  <2>5. \A w \in wanted : w[1] < index'
    BY <2>3, <2>4
  <2>. QED  BY <2>1, <2>3, <2>4, <2>5 DEF ListInv
<1>6. CASE ScanRecord
  <2>1. PICK o \in AllOutcomes, deleted \in BOOLEAN :
          /\ wanted' = IF /\ o.whole /\ deleted
                          /\ o.trueName # None /\ o.trueData = "runs"
                       THEN wanted \union {<<index, o.trueName>>}
                       ELSE wanted
          /\ IF o.ended = "panic"
             THEN pc' = "panic" /\ UNCHANGED <<index, asked, reading, k, found>>
             ELSE /\ found' = IF Listed(o, deleted) THEN Append(found, <<index, o.name>>) ELSE found
                  /\ GoTo(index + 1)
    BY <1>6, ReadsOutcome DEF ScanRecord
  <2>2. reader = "scan" /\ reader' = reader
    BY <1>6 DEF ScanRecord
  <2>3. CASE o.ended = "panic"
    <3>1. ~ o.whole
      BY <2>3, OutcomeOfWhole
    <3>2. UNCHANGED <<index, found, wanted>> /\ pc' = "panic"
      BY <2>1, <2>3, <3>1
    <3>. QED  BY <2>2, <3>2 DEF ListInv
  <2>4. CASE o.ended # "panic"
    <3>1. GoTo(index + 1)
      BY <2>1, <2>4
    <3>2. index' = index + 1 /\ pc' \notin {"open", "failed"}
      BY <3>1 DEF GoTo, StartRecord
    <3>3. found' = IF Listed(o, deleted) THEN Append(found, <<index, o.name>>) ELSE found
      BY <2>1, <2>4
    <3>. QED  BY <2>1, <2>2, <3>2, <3>3, RecordListed
  <2>. QED  BY <2>3, <2>4
<1>7. CASE ScanOver \/ UNCHANGED allVars
  BY <1>7 DEF ScanOver, allVars, vars, scanVars, ListInv
<1>. QED  BY <1>1, <1>2, <1>3, <1>4, <1>5, <1>6, <1>7 DEF ScanNext

\* Whatever is wrong with other records, a scan that gets past a whole one of
\* a deleted file has listed it, once and in the order of the table; and no
\* whole record brings it down.
THEOREM WholeRecordsAreListed == ScanSpec => []GoodRecordsListed
<1>1. ListInv /\ [ScanNext]_allVars => ListInv'
  BY ListNextInv
<1>2. ListInv => GoodRecordsListed
  BY DEF ListInv, GoodRecordsListed
<1>. QED  BY <1>1, <1>2, ListInitInv, PTL DEF ScanSpec

-----------------------------------------------------------------------------
(* A list of runs and the file it means                                    *)

\* The file's byte after encoded run n, and whether no run up to n is a hole.
At(n) == ClustersUpTo[n] * ClusterSize
Dense(n) == n \in 0 .. Len(encoded) /\ \A h \in 1 .. n : ~ IsSparse(encoded[h])

ListTyped == encoded \in Encodings

LEMMA RunTyped ==
    ASSUME ListTyped
    PROVE  /\ Len(encoded) \in Nat /\ DOMAIN encoded = 1 .. Len(encoded)
           /\ \A n \in 1 .. Len(encoded) :
                 /\ encoded[n].length \in Nat /\ encoded[n].length \in Lengths
                 /\ ~ IsSparse(encoded[n]) => encoded[n].delta \in Int
<1>1. PICK m \in 0 .. MaxEncoded : encoded \in [1 .. m -> EncodedRuns]
  BY DEF ListTyped, Encodings
<1>2. m \in Nat
  BY <1>1, RunListAssumption
<1>3. Len(encoded) = m /\ DOMAIN encoded = 1 .. m
  BY <1>1, <1>2
<1>4. ASSUME NEW run \in EncodedRuns
      PROVE  run.length \in Lengths /\ (~ IsSparse(run) => run.delta \in Int)
  <2>1. CASE run \in [length : Lengths, delta : Deltas]
    BY <2>1, RunListAssumption
  <2>2. CASE run \in [length : Lengths]
    <3>1. DOMAIN run = {"length"}
      BY <2>2
    <3>. QED  BY <2>2, <3>1 DEF IsSparse
  <2>. QED  BY <2>1, <2>2 DEF EncodedRuns
<1>. QED  BY <1>1, <1>2, <1>3, <1>4, RunListAssumption

\* The clusters before a run, and where it starts, are running sums.
LEMMA ClustersSum ==
    ASSUME ListTyped
    PROVE  /\ ClustersUpTo[0] = 0
           /\ \A n \in 0 .. Len(encoded) : ClustersUpTo[n] \in Int
           /\ \A n \in 1 .. Len(encoded) :
                 ClustersUpTo[n] = ClustersUpTo[n - 1] + encoded[n].length
<1>. DEFINE N == Len(encoded)
            body(f, n) == IF n = 0 THEN 0 ELSE f[n - 1] + encoded[n].length
            sum == CHOOSE f : f = [n \in 0 .. N |-> body(f, n)]
            d == [n \in 1 .. N |-> encoded[n].length]
<1>1. N \in Nat /\ 0 \in Int /\ d \in [1 .. N -> Int]
  BY RunTyped
<1>2. ClustersUpTo = sum
  BY DEF ClustersUpTo
<1>3. \A n \in 1 .. N : d[n] = encoded[n].length
  OBVIOUS
<1>. HIDE DEF N, d
<1>4. \A n \in 0 .. N : n # 0 => n \in 1 .. N
  BY <1>1
<1>5. PICK g \in [0 .. N -> Int] : \A n \in 0 .. N : g[n] = IF n = 0 THEN 0 ELSE g[n - 1] + d[n]
  BY <1>1, RunningSum
<1>6. g = [n \in 0 .. N |-> body(g, n)]
  BY <1>3, <1>4, <1>5
<1>7. sum = [n \in 0 .. N |-> body(sum, n)]
  <2>. HIDE DEF body
  <2>. QED  BY <1>6
<1>. HIDE DEF sum
<1>8. \A n \in 0 .. N : sum[n] = IF n = 0 THEN 0 ELSE sum[n - 1] + d[n]
  BY <1>3, <1>4, <1>7
<1>9. \A n \in 0 .. N : sum[n] \in Int
  BY <1>1, <1>8, SumsAreIntegers
<1>10. sum[0] = 0
  BY <1>1, <1>8
<1>11. \A n \in 1 .. N : sum[n] = sum[n - 1] + encoded[n].length
  <2>1. \A n \in 1 .. N : n \in 0 .. N /\ n # 0
    BY <1>1
  <2>. QED  BY <1>3, <1>8, <2>1
<1>. QED  BY <1>2, <1>9, <1>10, <1>11 DEF N

Delta(n) == IF IsSparse(encoded[n]) THEN 0 ELSE encoded[n].delta

LEMMA LcnSum ==
    ASSUME ListTyped
    PROVE  /\ LcnOf[0] = 0
           /\ \A n \in 0 .. Len(encoded) : LcnOf[n] \in Int
           /\ \A n \in 1 .. Len(encoded) : LcnOf[n] = LcnOf[n - 1] + Delta(n)
<1>. DEFINE N == Len(encoded)
            body(f, n) == IF n = 0 THEN 0
                          ELSE f[n - 1] + (IF IsSparse(encoded[n]) THEN 0 ELSE encoded[n].delta)
            sum == CHOOSE f : f = [n \in 0 .. N |-> body(f, n)]
            d == [n \in 1 .. N |-> Delta(n)]
<1>1. N \in Nat /\ 0 \in Int /\ d \in [1 .. N -> Int]
  BY RunTyped DEF Delta
<1>2. LcnOf = sum
  BY DEF LcnOf
<1>3. \A n \in 1 .. N : d[n] = IF IsSparse(encoded[n]) THEN 0 ELSE encoded[n].delta
  BY DEF Delta
<1>. HIDE DEF N, d
<1>4. \A n \in 0 .. N : n # 0 => n \in 1 .. N
  BY <1>1
<1>5. PICK g \in [0 .. N -> Int] : \A n \in 0 .. N : g[n] = IF n = 0 THEN 0 ELSE g[n - 1] + d[n]
  BY <1>1, RunningSum
<1>6. g = [n \in 0 .. N |-> body(g, n)]
  BY <1>3, <1>4, <1>5
<1>7. sum = [n \in 0 .. N |-> body(sum, n)]
  <2>. HIDE DEF body
  <2>. QED  BY <1>6
<1>. HIDE DEF sum
<1>8. \A n \in 0 .. N : sum[n] = IF n = 0 THEN 0 ELSE sum[n - 1] + d[n]
  BY <1>3, <1>4, <1>7
<1>9. \A n \in 0 .. N : sum[n] \in Int
  BY <1>1, <1>8, SumsAreIntegers
<1>10. sum[0] = 0
  BY <1>1, <1>8
<1>11. \A n \in 1 .. N : sum[n] = sum[n - 1] + Delta(n)
  <2>1. \A n \in 1 .. N : n \in 0 .. N /\ n # 0
    BY <1>1
  <2>. QED  BY <1>3, <1>8, <2>1 DEF Delta
<1>. QED  BY <1>2, <1>9, <1>10, <1>11 DEF N

\* The runs follow one another in the file.
LEMMA AtGrows ==
    ASSUME ListTyped
    PROVE  /\ At(0) = 0
           /\ \A n \in 0 .. Len(encoded) : At(n) \in Nat
           /\ \A n \in 1 .. Len(encoded) : At(n) = At(n - 1) + encoded[n].length * ClusterSize
           /\ \A m, n \in 0 .. Len(encoded) :
                 m <= n => At(m) <= At(n) /\ ClustersUpTo[m] <= ClustersUpTo[n]
<1>. DEFINE N == Len(encoded)
            C == ClustersUpTo
<1>1. /\ N \in Nat /\ ClusterSize \in Nat
      /\ \A n \in 1 .. N : encoded[n].length \in Nat
  BY RunTyped, RunListAssumption
<1>2. /\ C[0] = 0 /\ \A n \in 0 .. N : C[n] \in Int
      /\ \A n \in 1 .. N : C[n] = C[n - 1] + encoded[n].length
  BY ClustersSum
<1>. HIDE DEF N, C
<1>3. ASSUME NEW n \in 1 .. N  PROVE n - 1 \in 0 .. N /\ n \in 0 .. N /\ C[n - 1] <= C[n]
  <2>1. n - 1 \in 0 .. N /\ n \in 0 .. N
    BY <1>1
  <2>2. C[n - 1] \in Int /\ encoded[n].length \in Nat /\ C[n] = C[n - 1] + encoded[n].length
    BY <1>1, <1>2, <2>1
  <2>. QED  BY <2>1, <2>2
<1>4. \A m, n \in 0 .. N : m <= n => C[m] <= C[n]
  BY <1>1, <1>2, <1>3, NeverFalls
<1>5. \A n \in 0 .. N : C[n] \in Nat
  <2>1. \A n \in 0 .. N : 0 \in 0 .. N /\ 0 <= n
    BY <1>1
  <2>. QED  BY <1>2, <1>4, <2>1
<1>6. ASSUME NEW a \in Nat, NEW b \in Nat
      PROVE  /\ a * ClusterSize \in Nat /\ (a + b) * ClusterSize = a * ClusterSize + b * ClusterSize
             /\ a <= a + b /\ a * ClusterSize <= (a + b) * ClusterSize
  BY <1>1
<1>7. ASSUME NEW m \in 0 .. N, NEW n \in 0 .. N, m <= n
      PROVE  C[m] * ClusterSize <= C[n] * ClusterSize
  <2>1. C[m] \in Nat /\ C[n] \in Nat /\ C[m] <= C[n]
    BY <1>4, <1>5, <1>7
  <2>2. C[n] - C[m] \in Nat /\ C[m] + (C[n] - C[m]) = C[n]
    BY <2>1
  <2>3. C[m] * ClusterSize <= (C[m] + (C[n] - C[m])) * ClusterSize
    BY <1>6, <2>1, <2>2
  <2>. QED  BY <2>2, <2>3
<1>8. ASSUME NEW n \in 1 .. N
      PROVE  C[n] * ClusterSize = C[n - 1] * ClusterSize + encoded[n].length * ClusterSize
  <2>1. C[n - 1] \in Nat /\ encoded[n].length \in Nat
    BY <1>1, <1>3, <1>5
  <2>. QED  BY <1>2, <1>6, <2>1
<1>9. 0 * ClusterSize = 0
  BY <1>1
<1>10. \A n \in 0 .. N : C[n] * ClusterSize \in Nat
  BY <1>1, <1>5
<1>. QED  BY <1>2, <1>4, <1>7, <1>8, <1>9, <1>10 DEF At, N, C

\* A byte of the file lies in one run.
LEMMA OneRunHolds ==
    ASSUME ListTyped, NEW p \in Nat,
           NEW r \in 1 .. Len(encoded), At(r - 1) <= p, p < At(r),
           NEW q \in 1 .. Len(encoded), At(q - 1) <= p, p < At(q)
    PROVE  q = r
<1>1. /\ r \in Nat /\ q \in Nat
      /\ r \in 0 .. Len(encoded) /\ r - 1 \in 0 .. Len(encoded)
      /\ q \in 0 .. Len(encoded) /\ q - 1 \in 0 .. Len(encoded)
  BY RunTyped
<1>2. At(r - 1) \in Nat /\ At(r) \in Nat /\ At(q - 1) \in Nat /\ At(q) \in Nat
  BY <1>1, AtGrows
<1>3. ASSUME q <= r - 1  PROVE FALSE
  <2>1. At(q) <= At(r - 1)
    BY <1>1, <1>3, AtGrows
  <2>. QED  BY <1>2, <2>1
<1>4. ASSUME r <= q - 1  PROVE FALSE
  <2>1. At(r) <= At(q - 1)
    BY <1>1, <1>4, AtGrows
  <2>. QED  BY <1>2, <2>1
<1>. QED  BY <1>1, <1>3, <1>4

\* And the byte is what FileByte says.
LEMMA ByteOfRun ==
    ASSUME ListTyped, NEW p \in Nat,
           NEW r \in 1 .. Len(encoded), Dense(r), At(r - 1) <= p, p < At(r)
    PROVE  FileByte(p) = LcnOf[r] * ClusterSize + p - At(r - 1)
<1>. DEFINE N == Len(encoded)
            q == CHOOSE n \in 1 .. N : At(n - 1) <= p /\ p < At(n)
<1>1. N \in Nat /\ r \in 0 .. N /\ N \in 0 .. N /\ r <= N
  BY RunTyped
<1>2. At(r) <= At(N) /\ At(r) \in Nat /\ At(N) \in Nat
  BY <1>1, AtGrows
<1>3. ~ (p >= At(N))
  BY <1>2
<1>4. q \in 1 .. N /\ At(q - 1) <= p /\ p < At(q)
  OBVIOUS
<1>5. FileByte(p) = IF p >= At(N) THEN Zero
                    ELSE IF IsSparse(encoded[q]) THEN Zero
                    ELSE LcnOf[q] * ClusterSize + p - At(q - 1)
  BY DEF FileByte, At
<1>. HIDE DEF q
<1>6. q = r
  BY <1>4, OneRunHolds
<1>7. ~ IsSparse(encoded[r])
  BY <1>1 DEF Dense
<1>. QED  BY <1>3, <1>5, <1>6, <1>7

\* A byte before the first hole lies in a run that comes before it too.
LEMMA SomeRunHolds ==
    ASSUME ListTyped, NEW p \in Nat, NEW n, Dense(n), p < At(n)
    PROVE  \E r \in 1 .. Len(encoded) : Dense(r) /\ At(r - 1) <= p /\ p < At(r)
<1>. DEFINE N == Len(encoded)
            T == {m \in Nat : m <= n /\ p < At(m)}
<1>1. N \in Nat /\ n \in 0 .. N /\ n \in Nat /\ n \in T /\ T \in SUBSET Nat
  BY RunTyped DEF Dense
<1>2. PICK r \in T : \A m \in T : r <= m
  BY <1>1, LeastElement
<1>3. r \in Nat /\ r <= n /\ p < At(r)
  BY <1>2
<1>4. r # 0
  BY <1>3, AtGrows
<1>5. r \in 1 .. N /\ r - 1 \in Nat /\ r - 1 <= n /\ r - 1 \in 0 .. N /\ r \in 0 .. N /\ ~ (r <= r - 1)
  BY <1>1, <1>3, <1>4
<1>6. ~ (p < At(r - 1))
  BY <1>2, <1>5
<1>7. At(r - 1) <= p
  BY <1>5, <1>6, AtGrows
<1>8. Dense(r)
  <2>1. \A h \in 1 .. r : h \in 1 .. n
    BY <1>1, <1>3
  <2>. QED  BY <1>5, <2>1 DEF Dense
<1>. QED  BY <1>3, <1>5, <1>7, <1>8

\* What BytesBeforeHole counts: the runs up to some one before any hole.
LEMMA BeforeHole ==
    ASSUME ListTyped
    PROVE  \E n : Dense(n) /\ BytesBeforeHole = At(n)
<1>. DEFINE N == Len(encoded)
            holes == {n \in 1 .. N : IsSparse(encoded[n])}
            dense == {n \in 0 .. N : \A h \in holes : n < h}
            S == {ClustersUpTo[n] : n \in dense}
<1>1. N \in Nat /\ 0 \in 0 .. N
  BY RunTyped
<1>2. 0 \in dense
  BY <1>1
<1>3. S # {} /\ \A x \in S : x \in Int
  BY <1>2, ClustersSum
<1>4. PICK top \in dense : \A n \in dense : n <= top
  <2>. DEFINE T == {m \in Nat : N - m \in dense}
  <2>1. N - 0 \in Nat /\ N \in T
    BY <1>1, <1>2
  <2>2. PICK m \in T : \A i \in T : m <= i
    BY <2>1, LeastElement
  <2>3. m \in Nat /\ N - m \in dense
    BY <2>2
  <2>4. ASSUME NEW n \in dense  PROVE n <= N - m
    <3>1. n \in 0 .. N
      OBVIOUS
    <3>. HIDE DEF dense
    <3>2. N - n \in Nat /\ N - (N - n) = n
      BY <1>1, <3>1
    <3>3. N - n \in T
      BY <3>2
    <3>4. m <= N - n
      BY <2>2, <3>3
    <3>. QED  BY <1>1, <2>3, <3>1, <3>4
  <2>. QED  BY <2>3, <2>4
<1>5. Max(S) \in S
  <2>1. Max(S) = CHOOSE x \in S : \A y \in S : x >= y
    BY DEF Max
  <2>2. top \in 0 .. N /\ \A n \in dense : n \in 0 .. N
    OBVIOUS
  <2>3. \A n \in dense : ClustersUpTo[n] <= ClustersUpTo[top]
    BY <1>4, <2>2, AtGrows
  <2>4. ClustersUpTo[top] \in S /\ \A y \in S : y <= ClustersUpTo[top]
    BY <2>3
  <2>. HIDE DEF S, dense
  <2>5. \A y \in S : ClustersUpTo[top] >= y
    BY <1>3, <2>4
  <2>. QED  BY <2>1, <2>4, <2>5
<1>6. PICK n \in dense : Max(S) = ClustersUpTo[n]
  BY <1>5
<1>7. Dense(n)
  <2>1. n \in 0 .. N /\ n \in Nat
    BY <1>1
  <2>2. \A h \in 1 .. n : h \in 1 .. N /\ ~ (n < h)
    BY <1>1, <2>1
  <2>3. \A h \in 1 .. n : h \notin holes
    BY <2>2
  <2>. QED  BY <2>1, <2>2, <2>3 DEF Dense
<1>8. BytesBeforeHole = ClusterSize * Max(S)
  BY DEF BytesBeforeHole
<1>9. ClustersUpTo[n] \in Int /\ ClusterSize \in Int
  BY ClustersSum, RunListAssumption
<1>10. ClusterSize * ClustersUpTo[n] = ClustersUpTo[n] * ClusterSize
  BY <1>9
<1>. HIDE DEF S, dense
<1>. QED  BY <1>6, <1>7, <1>8, <1>10 DEF At

-----------------------------------------------------------------------------
(* Reading through the list                                                *)

\* The first m runs are decoded: those before any hole are where they were.
Decoded(m) ==
    /\ \A n \in 0 .. m : Dense(n) =>
          n <= Len(runs) /\ \A i \in 1 .. n : runs[i] = <<LcnOf[i], encoded[i].length>>
    /\ Dense(m) => Len(runs) = m

\* b is the file's byte p, if p lies in a run before any hole.
Right(p, b) ==
    \A r \in 1 .. Len(encoded) :
        Dense(r) /\ At(r - 1) <= p /\ p < At(r) => b = LcnOf[r] * ClusterSize + p - At(r - 1)

\* The range up to logicalPos is read, from the runs before run k.
Reached ==
    /\ k \in 1 .. Len(runs) + 1
    /\ offset \in Nat /\ len \in Nat /\ runBase \in Nat /\ remaining \in Nat /\ out \in Seq(Int)
    /\ Len(out) + remaining = len /\ logicalPos = offset + Len(out)
    /\ \A n \in 0 .. k - 1 : Dense(n) => At(n) <= runBase
    /\ \A n : n = k - 1 /\ Dense(n) => runBase = At(n)
    /\ runBase <= logicalPos \/ remaining = 0
    /\ Len(out) > 0 => logicalPos <= runBase
    /\ \A j \in 1 .. Len(out) : \A p, b : p = offset + j - 1 /\ b = out[j] => Right(p, b)

\* The range is read, and padded.
Answered ==
    /\ offset \in Nat /\ len \in Nat /\ out \in Seq(Int) /\ Len(out) = len
    /\ \A j \in 1 .. len : \A p, b :
          p = offset + j - 1 /\ b = out[j] =>
              Right(p, b) /\ (NoHole => \A n : n = Len(encoded) /\ At(n) <= p => b = Zero)

\* The list is decoded up to run k.
DecodedTo ==
    /\ k \in 1 .. Len(encoded) + 1
    /\ \A n : n = k - 1 => lcn = LcnOf[n] /\ Decoded(n)

AllDecoded == \A n : n = Len(encoded) => Decoded(n)

FileInv ==
    /\ ListTyped /\ runs \in Seq(Nat \X Lengths)
    /\ pc = "open" => k = 1 /\ lcn = 0 /\ runs = <<>>
    /\ pc \in {"open", "parse"} => runBase = 0 /\ out = <<>> /\ reader \notin {"bitmap", "scan"}
    /\ pc = "parse" => DecodedTo
    /\ pc \in {"read", "done"} \/ reader \in {"bitmap", "scan"} => AllDecoded
    /\ pc = "read" => Reached
    /\ pc = "done" => Answered

LEMMA SameSums == encoded' = encoded => ClustersUpTo' = ClustersUpTo /\ LcnOf' = LcnOf
BY Zenon DEF ClustersUpTo, LcnOf

LEMMA SameList ==
    ASSUME encoded' = encoded, NEW n
    PROVE  At(n)' = At(n) /\ (Dense(n)' <=> Dense(n)) /\ LcnOf' = LcnOf
BY SameSums DEF At, Dense

LEMMA SameRight ==
    ASSUME encoded' = encoded, NEW p, NEW b
    PROVE  Right(p, b)' <=> Right(p, b)
<1>1. LcnOf' = LcnOf /\ ClustersUpTo' = ClustersUpTo
  BY SameSums
<1>2. \A r : (Dense(r)' <=> Dense(r)) /\ At(r)' = At(r)
  BY SameList
<1>3. \A r : At(r - 1)' = At(r - 1)
  BY <1>1 DEF At
<1>. QED  BY <1>1, <1>2, <1>3 DEF Right

LEMMA SameDecoded ==
    ASSUME UNCHANGED <<encoded, runs>>, NEW m
    PROVE  Decoded(m)' <=> Decoded(m)
<1>1. LcnOf' = LcnOf
  BY SameSums
<1>2. \A n : Dense(n)' <=> Dense(n)
  BY SameList
<1>. QED  BY <1>1, <1>2 DEF Decoded

\* Before the first run is decoded.
Fresh == ListTyped /\ runs = <<>> /\ k = 1 /\ lcn = 0

LEMMA FreshList == Fresh => DecodedTo
<1>. SUFFICES ASSUME ListTyped, runs = <<>>, k = 1, lcn = 0
              PROVE  /\ k \in 1 .. Len(encoded) + 1
                     /\ lcn = LcnOf[0] /\ Decoded(0)
  BY DEF Fresh, DecodedTo
<1>1. Len(encoded) \in Nat /\ LcnOf[0] = 0
  BY RunTyped, LcnSum
<1>2. Len(runs) = 0
  OBVIOUS
<1>. QED  BY <1>1, <1>2 DEF Decoded

LEMMA FreshListPrime == Fresh' => DecodedTo'
BY FreshList, PTL

\* A read begins at the first run.
LEMMA ReadBegins ==
    ASSUME ListTyped, UNCHANGED <<encoded, runs>>, runs \in Seq(Nat \X Lengths), k' = 1,
           offset' \in Nat, len' \in Nat, logicalPos' = offset', remaining' = len',
           runBase' = 0, out' = <<>>
    PROVE  Reached'
<1>1. Len(runs) \in Nat /\ Len(out') = 0 /\ out' \in Seq(Int) /\ k' - 1 = 0
  OBVIOUS
<1>2. k' \in 1 .. Len(runs') + 1
  BY <1>1
<1>3. At(0)' = 0
  BY SameList, AtGrows
<1>4. \A n \in 0 .. k' - 1 : Dense(n)' => At(n)' <= runBase'
  BY <1>1, <1>3
<1>5. \A n : n = k' - 1 /\ Dense(n)' => runBase' = At(n)'
  BY <1>1, <1>3
<1>6. \A j \in 1 .. Len(out') : FALSE
  BY <1>1
<1>7. /\ Len(out') + remaining' = len' /\ logicalPos' = offset' + Len(out')
      /\ runBase' <= logicalPos' /\ ~ (Len(out') > 0)
      /\ runBase' \in Nat /\ remaining' \in Nat /\ out' \in Seq(Int)
  <2>1. \A x \in Nat : 0 + x = x /\ x + 0 = x /\ 0 <= x /\ ~ (0 > 0)
    OBVIOUS
  <2>. QED  BY <1>1, <2>1, Zenon
<1>. QED  BY <1>2, <1>4, <1>5, <1>6, <1>7, Zenon DEF Reached

\* A run is decoded, or a hole left out.
LEMMA RunDecoded ==
    ASSUME FileInv, DecodeRun, pc' # "error"
    PROVE  runs' \in Seq(Nat \X Lengths) /\ DecodedTo'
<1>. DEFINE e == encoded[k]
            m == k - 1
<1>1. /\ pc = "parse" /\ k <= Len(encoded) /\ ~ IsSparse(e) /\ lcn' = lcn + e.delta /\ ~ (lcn' < 0)
      /\ runs' = Append(runs, <<lcn', e.length>>) /\ k' = k + 1 /\ encoded' = encoded
  BY DEF DecodeRun, list
<1>2. /\ ListTyped /\ runs \in Seq(Nat \X Lengths)
      /\ k \in 1 .. Len(encoded) + 1 /\ Len(encoded) \in Nat
      /\ lcn = LcnOf[m] /\ Decoded(m)
  BY <1>1, RunTyped DEF FileInv, DecodedTo
<1>3. k \in 1 .. Len(encoded) /\ m \in 0 .. Len(encoded) /\ k' - 1 = k /\ k' \in 1 .. Len(encoded) + 1
      /\ k \in Nat /\ m \in Nat /\ k \in 0 .. Len(encoded)
  BY <1>1, <1>2
<1>4. e.delta \in Int /\ e.length \in Lengths
  BY <1>1, <1>2, <1>3, RunTyped
<1>5. LcnOf[m] \in Int /\ LcnOf[k] = LcnOf[m] + e.delta
  BY <1>1, <1>2, <1>3, LcnSum DEF Delta
<1>6. lcn' = LcnOf[k] /\ lcn' \in Nat /\ LcnOf' = LcnOf
  BY <1>1, <1>2, <1>4, <1>5, SameSums
<1>. HIDE DEF e
<1>7. /\ runs' \in Seq(Nat \X Lengths) /\ Len(runs) \in Nat /\ Len(runs') = Len(runs) + 1
      /\ \A i \in 1 .. Len(runs) : runs'[i] = runs[i]
      /\ runs'[Len(runs) + 1] = <<lcn', e.length>>
  BY <1>1, <1>2, <1>4, <1>6
<1>8. ASSUME NEW c, c = k  PROVE Decoded(c)'
  <2>1. \A n : Dense(n)' <=> Dense(n)
    BY <1>1, SameList
  <2>2. Dense(k) => Dense(m)
    BY <1>3 DEF Dense
  <2>3. ASSUME NEW n \in 0 .. c, Dense(n)'
        PROVE  /\ n <= Len(runs')
               /\ \A i \in 1 .. n : runs'[i] = <<LcnOf'[i], encoded'[i].length>>
    <3>1. Dense(n)
      BY <2>1, <2>3
    <3>2. CASE n \in 0 .. m
      <4>1. n <= Len(runs) /\ \A i \in 1 .. n : runs[i] = <<LcnOf[i], encoded[i].length>>
        BY <1>2, <3>1, <3>2 DEF Decoded
      <4>2. \A i \in 1 .. n : i \in 1 .. Len(runs)
        BY <1>7, <3>2, <4>1
      <4>3. n <= Len(runs')
        BY <1>7, <3>2, <4>1
      <4>. QED  BY <1>1, <1>6, <1>7, <4>1, <4>2, <4>3
    <3>3. CASE n = k
      <4>1. Dense(m) /\ Len(runs) = m
        BY <1>2, <2>2, <3>1, <3>3 DEF Decoded
      <4>2. \A i \in 1 .. m : runs[i] = <<LcnOf[i], encoded[i].length>>
        BY <1>2, <1>3, <4>1 DEF Decoded
      <4>3. Len(runs') = k /\ runs'[k] = <<LcnOf[k], encoded[k].length>>
        BY <1>3, <1>6, <1>7, <4>1 DEF e
      <4>4. ASSUME NEW i \in 1 .. n  PROVE runs'[i] = <<LcnOf'[i], encoded'[i].length>>
        <5>1. CASE i = k
          BY <1>1, <1>6, <4>3, <5>1
        <5>2. CASE i # k
          <6>1. i \in 1 .. m
            BY <1>3, <3>3, <5>2
          <6>. QED  BY <1>1, <1>6, <1>7, <4>1, <4>2, <6>1
        <5>. QED  BY <5>1, <5>2
      <4>. QED  BY <1>3, <3>3, <4>3, <4>4
    <3>. QED  BY <1>3, <1>8, <2>3, <3>2, <3>3
  <2>4. ASSUME Dense(c)'  PROVE Len(runs') = c
    <3>1. Dense(m)
      BY <1>8, <2>1, <2>2, <2>4
    <3>2. Len(runs) = m
      BY <1>2, <3>1 DEF Decoded
    <3>. QED  BY <1>3, <1>7, <1>8, <3>2
  <2>. QED  BY <2>3, <2>4 DEF Decoded
<1>. QED  BY <1>1, <1>3, <1>6, <1>7, <1>8 DEF DecodedTo

LEMMA HoleSkipped ==
    ASSUME FileInv, SkipSparse
    PROVE  DecodedTo'
<1>. DEFINE m == k - 1
<1>1. /\ pc = "parse" /\ k <= Len(encoded) /\ IsSparse(encoded[k])
      /\ k' = k + 1 /\ UNCHANGED <<encoded, lcn, runs>>
  BY DEF SkipSparse, list
<1>2. /\ ListTyped /\ k \in 1 .. Len(encoded) + 1 /\ Len(encoded) \in Nat
      /\ lcn = LcnOf[m] /\ Decoded(m)
  BY <1>1, RunTyped DEF FileInv, DecodedTo
<1>3. k \in 1 .. Len(encoded) /\ m \in 0 .. Len(encoded) /\ k' - 1 = k /\ k' \in 1 .. Len(encoded) + 1
      /\ k \in Nat /\ m \in Nat
  BY <1>1, <1>2
<1>4. LcnOf[m] \in Int /\ LcnOf[k] = LcnOf[m]
  BY <1>1, <1>2, <1>3, LcnSum DEF Delta
<1>5. lcn' = LcnOf'[k]
  BY <1>1, <1>2, <1>4, SameSums
<1>6. ~ Dense(k)
  BY <1>1, <1>3 DEF Dense
<1>7. Decoded(k)
  <2>1. \A n \in 0 .. k : Dense(n) => n \in 0 .. m
    BY <1>3, <1>6
  <2>. QED  BY <1>2, <1>6, <2>1 DEF Decoded
<1>8. ASSUME NEW c, c = k  PROVE Decoded(c)'
  BY <1>1, <1>7, <1>8, SameDecoded
<1>. QED  BY <1>1, <1>3, <1>5, <1>8 DEF DecodedTo

\* The run that the loop is at: where it lies in the file, and where on disk.
LEMMA RunAtHand ==
    ASSUME FileInv, Reading
    PROVE  /\ k \in 1 .. Len(runs) /\ k - 1 \in 0 .. k /\ runBase <= logicalPos
           /\ runBase \in Nat /\ logicalPos \in Nat
           /\ RunBytes(runs[k]) \in Nat /\ RunEnd = runBase + RunBytes(runs[k]) /\ RunEnd \in Nat
           /\ runs[k][1] * ClusterSize \in Nat
           /\ Dense(k) => runs[k][1] = LcnOf[k] /\ runBase = At(k - 1) /\ RunEnd = At(k)
           /\ \A n \in 0 .. k - 1 : Dense(n) => At(n) <= runBase
           /\ \A n \in 0 .. k : Dense(n) => At(n) <= RunEnd
<1>1. pc = "read" /\ k <= Len(runs) /\ remaining > 0
  BY DEF Reading
<1>2. ListTyped /\ runs \in Seq(Nat \X Lengths) /\ AllDecoded /\ Reached
  BY <1>1 DEF FileInv
<1>3. /\ k \in 1 .. Len(runs) /\ Len(runs) \in Nat /\ k \in Nat /\ k - 1 \in Nat
      /\ k - 1 \in 0 .. k /\ k \in 0 .. k
  BY <1>1, <1>2 DEF Reached
<1>4. runBase \in Nat /\ logicalPos \in Nat /\ runBase <= logicalPos
  BY <1>1, <1>2 DEF Reached
<1>5. runs[k] \in Nat \X Lengths
  BY <1>2, <1>3
<1>6. runs[k][1] \in Nat /\ runs[k][2] \in Nat /\ ClusterSize \in Nat
  BY <1>5, RunListAssumption
<1>7. \A a, b \in Nat : a * b \in Nat
  OBVIOUS
<1>8. RunBytes(runs[k]) \in Nat /\ runs[k][1] * ClusterSize \in Nat
  BY <1>6, <1>7 DEF RunBytes
<1>9. RunEnd = runBase + RunBytes(runs[k])
  BY DEF RunEnd
<1>10. RunEnd \in Nat /\ runBase <= RunEnd
  BY <1>4, <1>8, <1>9
<1>11. ASSUME Dense(k)
       PROVE  runs[k][1] = LcnOf[k] /\ runBase = At(k - 1) /\ RunEnd = At(k)
  <2>1. k \in 0 .. Len(encoded) /\ Len(encoded) \in Nat
    BY <1>2, <1>11, RunTyped DEF Dense
  <2>2. k \in 1 .. Len(encoded) /\ k - 1 \in 0 .. Len(encoded)
    BY <1>3, <2>1
  <2>3. Dense(k - 1)
    BY <1>3, <1>11, <2>2 DEF Dense
  <2>4. runBase = At(k - 1)
    BY <1>2, <2>3 DEF Reached
  <2>5. runs[k] = <<LcnOf[k], encoded[k].length>>
    <3>1. Decoded(Len(encoded))
      BY <1>2 DEF AllDecoded
    <3>2. k \in 1 .. k
      BY <1>3
    <3>. QED  BY <1>11, <2>1, <3>1, <3>2 DEF Decoded
  <2>6. RunBytes(runs[k]) = encoded[k].length * ClusterSize
    BY <2>5 DEF RunBytes
  <2>7. At(k) = At(k - 1) + encoded[k].length * ClusterSize
    BY <1>2, <2>2, AtGrows
  <2>. QED  BY <1>9, <2>4, <2>5, <2>6, <2>7
<1>12. \A n \in 0 .. k - 1 : Dense(n) => At(n) <= runBase
  BY <1>2 DEF Reached
<1>13. ASSUME NEW n \in 0 .. k, Dense(n)  PROVE At(n) <= RunEnd
  <2>1. CASE n = k
    <3>1. At(k) = RunEnd
      BY <1>11, <1>13, <2>1
    <3>. QED  BY <1>10, <2>1, <3>1
  <2>2. CASE n # k
    <3>1. n \in 0 .. k - 1
      BY <1>3, <2>2
    <3>2. At(n) <= runBase /\ At(n) \in Nat
      BY <1>2, <1>12, <1>13, <3>1, AtGrows DEF Dense
    <3>. QED  BY <1>4, <1>10, <3>2
  <2>. QED  BY <2>1, <2>2
<1>. QED  BY <1>3, <1>4, <1>8, <1>9, <1>10, <1>11, <1>12, <1>13

\* What is left to show once a run is behind the read.
LEMMA RunBehind ==
    ASSUME FileInv, Reading, UNCHANGED <<encoded, runs, offset, len>>,
           k' = k + 1, runBase' = RunEnd, remaining' \in Nat, out' \in Seq(Int),
           Len(out') + remaining' = len', logicalPos' = offset' + Len(out'),
           RunEnd <= logicalPos' \/ remaining' = 0,
           Len(out') > 0 => logicalPos' <= RunEnd,
           \A j \in 1 .. Len(out') : \A p, b : p = offset + j - 1 /\ b = out'[j] => Right(p, b)
    PROVE  Reached'
<1>1. /\ k \in 1 .. Len(runs) /\ RunEnd \in Nat
      /\ Dense(k) => RunEnd = At(k)
      /\ \A n \in 0 .. k : Dense(n) => At(n) <= RunEnd
  BY RunAtHand
<1>2. Reached /\ runs \in Seq(Nat \X Lengths)
  BY DEF FileInv, Reading
<1>3. k \in Nat /\ k' - 1 = k /\ k' \in 1 .. Len(runs') + 1
  BY <1>1, <1>2
<1>4. \A n \in 0 .. k' - 1 : Dense(n)' => At(n)' <= runBase'
  <2>. SUFFICES ASSUME NEW n \in 0 .. k' - 1, Dense(n)'  PROVE At(n)' <= runBase'
    OBVIOUS
  <2>1. Dense(n) /\ At(n)' = At(n)
    BY SameList
  <2>2. n \in 0 .. k
    BY <1>3
  <2>. QED  BY <1>1, <2>1, <2>2
<1>5. \A n : n = k' - 1 /\ Dense(n)' => runBase' = At(n)'
  <2>. SUFFICES ASSUME NEW n, n = k' - 1, Dense(n)'  PROVE runBase' = At(n)'
    OBVIOUS
  <2>1. Dense(n) /\ At(n)' = At(n) /\ n = k
    BY <1>3, SameList
  <2>. QED  BY <1>1, <2>1
<1>6. \A j \in 1 .. Len(out') : \A p, b : p = offset' + j - 1 /\ b = out'[j] => Right(p, b)'
  <2>. SUFFICES ASSUME NEW j \in 1 .. Len(out'), NEW p, NEW b, p = offset' + j - 1, b = out'[j]
                PROVE  Right(p, b)'
    OBVIOUS
  <2>1. Right(p, b)
    OBVIOUS
  <2>. QED  BY <2>1, SameRight
<1>7. offset' \in Nat /\ len' \in Nat /\ runBase' \in Nat
  BY <1>1, <1>2 DEF Reached
<1>. QED  BY <1>3, <1>4, <1>5, <1>6, <1>7 DEF Reached

\* The range does not begin in this run, or is read.
LEMMA RunPassed ==
    ASSUME FileInv, PassRun
    PROVE  Reached'
<1>1. /\ Reading /\ ~ Overlaps /\ runBase' = RunEnd /\ k' = k + 1
      /\ UNCHANGED <<encoded, runs, offset, len, logicalPos, remaining, out>>
  BY DEF PassRun, list, asked
<1>2. Reached /\ remaining > 0
  BY <1>1 DEF FileInv, Reading
<1>3. runBase <= logicalPos /\ runBase \in Nat /\ logicalPos \in Nat /\ RunEnd \in Nat
      /\ RunEnd = runBase + RunBytes(runs[k]) /\ RunBytes(runs[k]) \in Nat
  BY <1>1, RunAtHand
<1>4. RunEnd <= logicalPos
  BY <1>1, <1>2, <1>3 DEF Overlaps, Reached
<1>5. Len(out) > 0 => logicalPos <= RunEnd
  BY <1>2, <1>3 DEF Reached
<1>6. /\ remaining' \in Nat /\ out' \in Seq(Int)
      /\ Len(out') + remaining' = len' /\ logicalPos' = offset' + Len(out')
      /\ \A j \in 1 .. Len(out') : \A p, b : p = offset + j - 1 /\ b = out'[j] => Right(p, b)
  BY <1>1, <1>2 DEF Reached
<1>. QED  BY <1>1, <1>4, <1>5, <1>6, RunBehind

\* The part of the range that lies in the run is read where the run says.
LEMMA RunRead ==
    ASSUME FileInv, ReadRun
    PROVE  Reached'
<1>. DEFINE new == [j \in 1 .. Take |-> DiskOffset + j - 1]
            N == Len(out)
<1>1. /\ Reading /\ Overlaps /\ out' = out \o new /\ logicalPos' = logicalPos + Take
      /\ remaining' = remaining - Take /\ runBase' = RunEnd /\ k' = k + 1
      /\ UNCHANGED <<encoded, runs, offset, len>>
  BY DEF ReadRun, list, asked
<1>2. Reached /\ remaining > 0 /\ remaining \in Nat
  BY <1>1 DEF FileInv, Reading, Reached
<1>3. /\ k \in 1 .. Len(runs) /\ runBase <= logicalPos /\ runBase \in Nat /\ logicalPos \in Nat
      /\ RunEnd = runBase + RunBytes(runs[k]) /\ RunBytes(runs[k]) \in Nat /\ RunEnd \in Nat
      /\ runs[k][1] * ClusterSize \in Nat
      /\ Dense(k) => runs[k][1] = LcnOf[k] /\ runBase = At(k - 1) /\ RunEnd = At(k)
      /\ \A n \in 0 .. k - 1 : Dense(n) => At(n) <= runBase
  BY <1>1, RunAtHand
<1>4. StartInRun = logicalPos - runBase /\ StartInRun \in Nat
  BY <1>3 DEF StartInRun
<1>5. logicalPos < RunEnd
  BY <1>1 DEF Overlaps
<1>6. /\ Take \in Nat /\ Take <= remaining /\ logicalPos + Take <= RunEnd
      /\ Take = remaining \/ logicalPos + Take = RunEnd
  <2>1. CASE remaining <= RunBytes(runs[k]) - StartInRun
    <3>1. Take = remaining
      BY <2>1 DEF Take
    <3>. QED  BY <1>2, <1>3, <1>4, <2>1, <3>1
  <2>2. CASE ~ (remaining <= RunBytes(runs[k]) - StartInRun)
    <3>1. Take = RunBytes(runs[k]) - StartInRun
      BY <2>2 DEF Take
    <3>. QED  BY <1>2, <1>3, <1>4, <1>5, <2>2, <3>1
  <2>. QED  BY <2>1, <2>2
<1>7. DiskOffset = runs[k][1] * ClusterSize + StartInRun /\ DiskOffset \in Nat
  BY <1>3, <1>4 DEF DiskOffset
<1>8. new \in Seq(Int) /\ Len(new) = Take /\ \A j \in 1 .. Take : new[j] = DiskOffset + j - 1
  <2>1. \A j \in 1 .. Take : DiskOffset + j - 1 \in Int
    BY <1>6, <1>7
  <2>. QED  BY <1>6, <2>1
<1>. HIDE DEF new
<1>9. /\ out \in Seq(Int) /\ N \in Nat /\ N + remaining = len /\ logicalPos = offset + N
      /\ offset \in Nat /\ len \in Nat
  BY <1>2 DEF Reached
<1>10. /\ out' \in Seq(Int) /\ Len(out') = N + Take
       /\ \A j \in 1 .. N : out'[j] = out[j]
       /\ \A j \in 1 .. N + Take : j \notin 1 .. N => out'[j] = new[j - N]
  <2>. HIDE DEF DiskOffset, Take, StartInRun
  <2>1. \A s, t \in Seq(Int) :
            /\ s \o t \in Seq(Int) /\ Len(s \o t) = Len(s) + Len(t)
            /\ \A j \in 1 .. Len(s) : (s \o t)[j] = s[j]
            /\ \A j \in 1 .. Len(s) + Len(t) : j \notin 1 .. Len(s) => (s \o t)[j] = t[j - Len(s)]
    OBVIOUS
  <2>. QED  BY <1>1, <1>8, <1>9, <2>1, Zenon
<1>11. ASSUME NEW i \in 1 .. Take, NEW p, p = offset + (N + i) - 1, NEW b, b = DiskOffset + i - 1
       PROVE  Right(p, b)
  <2>1. p \in Nat /\ i \in Nat /\ runBase <= p /\ p < RunEnd /\ p = logicalPos + i - 1
    BY <1>3, <1>6, <1>9, <1>11
  <2>2. ASSUME NEW r \in 1 .. Len(encoded), Dense(r), At(r - 1) <= p, p < At(r)
        PROVE  b = LcnOf[r] * ClusterSize + p - At(r - 1)
    <3>1. ListTyped /\ Len(encoded) \in Nat
      BY RunTyped DEF FileInv
    <3>2. /\ r \in Nat /\ r \in 0 .. Len(encoded) /\ r - 1 \in 0 .. Len(encoded) /\ k \in Nat
          /\ At(r) \in Nat /\ At(r - 1) \in Nat
      <4>1. r \in Nat /\ r \in 0 .. Len(encoded) /\ r - 1 \in 0 .. Len(encoded)
        BY <3>1
      <4>2. k \in Nat
        BY <1>3
      <4>. QED  BY <3>1, <4>1, <4>2, AtGrows
    <3>3. ASSUME r <= k - 1  PROVE FALSE
      <4>1. r \in 0 .. k - 1
        BY <3>2, <3>3
      <4>2. At(r) <= runBase
        BY <1>3, <2>2, <4>1
      <4>. QED  BY <1>3, <2>1, <2>2, <3>2, <4>2
    <3>4. r >= k
      BY <3>2, <3>3
    <3>5. Dense(k)
      BY <2>2, <3>2, <3>4 DEF Dense
    <3>6. ASSUME k <= r - 1  PROVE FALSE
      <4>1. k \in 0 .. Len(encoded)
        BY <3>5 DEF Dense
      <4>2. At(k) <= At(r - 1)
        BY <3>1, <3>2, <3>6, <4>1, AtGrows
      <4>. QED  BY <1>3, <2>1, <2>2, <3>2, <3>5, <4>2
    <3>7. r = k
      BY <3>2, <3>4, <3>6
    <3>8. DiskOffset = LcnOf[k] * ClusterSize + (logicalPos - At(k - 1))
      BY <1>3, <1>4, <1>7, <3>5
    <3>9. LcnOf[k] * ClusterSize \in Nat
      BY <1>3, <3>5
    <3>. HIDE DEF DiskOffset
    <3>10. ASSUME NEW x \in Nat, NEW y \in Nat, NEW c \in Nat, NEW q,
                  p = x + i - 1, q = c + (x - y) + i - 1
           PROVE  q = c + p - y
      BY <2>1, <3>10
    <3>11. At(k - 1) \in Nat /\ b = LcnOf[k] * ClusterSize + (logicalPos - At(k - 1)) + i - 1
      BY <1>11, <3>2, <3>7, <3>8
    <3>12. b = LcnOf[k] * ClusterSize + p - At(k - 1)
      BY <1>3, <2>1, <3>9, <3>10, <3>11
    <3>. QED  BY <3>7, <3>12
  <2>. QED  BY <2>2 DEF Right
<1>12. ASSUME NEW j \in 1 .. Len(out'), NEW p, NEW b, p = offset + j - 1, b = out'[j]
       PROVE  Right(p, b)
  <2>1. CASE j \in 1 .. N
    <3>1. b = out[j]
      BY <1>10, <1>12, <2>1
    <3>. QED  BY <1>2, <1>12, <2>1, <3>1 DEF Reached
  <2>2. CASE j \notin 1 .. N
    <3>1. j - N \in 1 .. Take /\ N + (j - N) = j /\ j \in 1 .. N + Take
      BY <1>6, <1>9, <1>10, <2>2
    <3>2. b = DiskOffset + (j - N) - 1
      BY <1>8, <1>10, <1>12, <2>2, <3>1
    <3>3. p = offset + (N + (j - N)) - 1
      BY <1>12, <3>1
    <3>. HIDE DEF N, DiskOffset, Take
    <3>. QED  BY <1>11, <3>1, <3>2, <3>3
  <2>. QED  BY <2>1, <2>2
<1>13. /\ remaining' \in Nat /\ Len(out') + remaining' = len' /\ logicalPos' = offset' + Len(out')
       /\ RunEnd <= logicalPos' \/ remaining' = 0
       /\ logicalPos' <= RunEnd
  <2>. HIDE DEF N
  <2>1. remaining - Take \in Nat /\ (N + Take) + (remaining - Take) = len
        /\ logicalPos + Take = offset + (N + Take)
        /\ (RunEnd <= logicalPos + Take \/ remaining - Take = 0)
    BY <1>2, <1>3, <1>6, <1>9
  <2>. QED  BY <1>1, <1>6, <1>10, <2>1
<1>. QED  BY <1>1, <1>10, <1>12, <1>13, RunBehind

\* A file without a hole is all before any.
LEMMA NoHoleIsDense ==
    ASSUME ListTyped, NoHole
    PROVE  \A n \in 0 .. Len(encoded) : Dense(n)
<1>1. Len(encoded) \in Nat /\ DOMAIN encoded = 1 .. Len(encoded)
  BY RunTyped
<1>. QED  BY <1>1 DEF NoHole, Dense

\* What no run has given is padded.
LEMMA RestPadded ==
    ASSUME FileInv, Pad
    PROVE  Answered'
<1>. DEFINE N == Len(out)
            L == Len(encoded)
            new == [j \in 1 .. len - N |-> Zero]
<1>1. /\ pc = "read" /\ (k > Len(runs) \/ remaining = 0) /\ out' = out \o new
      /\ UNCHANGED <<encoded, offset, len>>
  BY DEF Pad, list, asked
<1>2. ListTyped /\ AllDecoded /\ Reached /\ runs \in Seq(Nat \X Lengths)
  BY <1>1 DEF FileInv
<1>3. /\ out \in Seq(Int) /\ N \in Nat /\ remaining \in Nat /\ N + remaining = len
      /\ offset \in Nat /\ len \in Nat /\ logicalPos = offset + N /\ runBase \in Nat
      /\ k \in 1 .. Len(runs) + 1 /\ k \in Nat /\ Len(runs) \in Nat
      /\ runBase <= logicalPos \/ remaining = 0
      /\ N > 0 => logicalPos <= runBase
  BY <1>2 DEF Reached
<1>4. L \in Nat /\ L \in 0 .. L /\ Decoded(L)
  BY <1>2, RunTyped DEF AllDecoded
<1>5. new \in Seq(Int) /\ Len(new) = len - N /\ \A j \in 1 .. len - N : new[j] = Zero
  <2>1. len - N \in Nat /\ Zero \in Int
    BY <1>3 DEF Zero
  <2>. QED  BY <2>1
<1>. HIDE DEF new
<1>6. /\ out' \in Seq(Int) /\ Len(out') = len
      /\ \A j \in 1 .. N : out'[j] = out[j]
      /\ \A j \in 1 .. len : j \notin 1 .. N => out'[j] = Zero
  <2>1. \A s, t \in Seq(Int) :
            /\ s \o t \in Seq(Int) /\ Len(s \o t) = Len(s) + Len(t)
            /\ \A j \in 1 .. Len(s) : (s \o t)[j] = s[j]
            /\ \A j \in 1 .. Len(s) + Len(t) : j \notin 1 .. Len(s) => (s \o t)[j] = t[j - Len(s)]
    OBVIOUS
  <2>2. /\ out' \in Seq(Int) /\ Len(out') = N + Len(new)
        /\ \A j \in 1 .. N : out'[j] = out[j]
        /\ \A j \in 1 .. N + Len(new) : j \notin 1 .. N => out'[j] = new[j - N]
    BY <1>1, <1>3, <1>5, <2>1, Zenon
  <2>3. N + Len(new) = len /\ \A j \in 1 .. len : j \notin 1 .. N => j - N \in 1 .. len - N
    BY <1>3, <1>5
  <2>. HIDE DEF N
  <2>. QED  BY <1>5, <2>2, <2>3
<1>. HIDE DEF N, L
<1>7. ASSUME NEW j \in 1 .. len, NEW p, NEW b, p = offset + j - 1, b = out'[j]
      PROVE  Right(p, b) /\ (NoHole /\ At(L) <= p => b = Zero)
  <2>1. CASE j \in 1 .. N
    <3>1. Right(p, b)
      BY <1>2, <1>6, <1>7, <2>1 DEF Reached, N
    <3>2. ASSUME NoHole, At(L) <= p  PROVE FALSE
      <4>1. Dense(L) /\ \A n \in 0 .. L : Dense(n)
        BY <1>2, <1>4, <3>2, NoHoleIsDense DEF L
      <4>2. Len(runs) = L
        BY <1>4, <4>1 DEF Decoded
      <4>3. k - 1 \in 0 .. L /\ k - 1 <= L
        BY <1>3, <1>4, <4>2
      <4>4. runBase = At(k - 1)
        BY <1>2, <4>1, <4>3 DEF Reached
      <4>5. At(k - 1) <= At(L) /\ At(L) \in Nat
        BY <1>2, <1>4, <4>3, AtGrows DEF L
      <4>6. logicalPos <= runBase /\ p < logicalPos
        BY <1>3, <1>7, <2>1
      <4>. QED  BY <1>3, <1>7, <3>2, <4>4, <4>5, <4>6
    <3>. QED  BY <3>1, <3>2
  <2>2. CASE j \notin 1 .. N
    <3>1. b = Zero
      BY <1>6, <1>7, <2>2
    <3>2. N < j /\ remaining # 0
      BY <1>3, <1>7, <2>2
    <3>3. k - 1 = Len(runs) /\ runBase <= p /\ p \in Nat
      BY <1>1, <1>3, <1>7, <3>2
    <3>4. ASSUME NEW r \in 1 .. L, Dense(r), p < At(r)  PROVE FALSE
      <4>1. r \in 0 .. L /\ r \in Nat
        BY <1>4
      <4>2. r <= Len(runs)
        BY <1>4, <3>4, <4>1 DEF Decoded
      <4>3. r \in 0 .. k - 1
        BY <1>3, <3>3, <4>1, <4>2
      <4>4. At(r) <= runBase /\ At(r) \in Nat
        BY <1>2, <3>4, <4>1, <4>3, AtGrows DEF Reached, L
      <4>. QED  BY <1>3, <3>3, <3>4, <4>4
    <3>. QED  BY <3>1, <3>4 DEF Right, L
  <2>. QED  BY <2>1, <2>2
<1>8. ASSUME NEW j \in 1 .. len', NEW p, NEW b, p = offset' + j - 1, b = out'[j]
      PROVE  Right(p, b)' /\ (NoHole' => \A n : n = Len(encoded') /\ At(n)' <= p => b = Zero)
  <2>1. Right(p, b) /\ (NoHole /\ At(L) <= p => b = Zero)
    BY <1>1, <1>7, <1>8
  <2>2. Right(p, b)'
    BY <1>1, <2>1, SameRight
  <2>3. NoHole' <=> NoHole
    BY <1>1 DEF NoHole
  <2>4. \A n : At(n)' = At(n)
    BY <1>1, SameList
  <2>. QED  BY <1>1, <2>1, <2>2, <2>3, <2>4 DEF L
<1>. QED  BY <1>1, <1>3, <1>6, <1>8 DEF Answered

LEMMA SameAllDecoded ==
    ASSUME UNCHANGED <<encoded, runs>>, AllDecoded
    PROVE  AllDecoded'
<1>. SUFFICES ASSUME NEW n, n = Len(encoded')  PROVE Decoded(n)'
  BY DEF AllDecoded
<1>1. Decoded(n)
  BY DEF AllDecoded
<1>. QED  BY <1>1, SameDecoded

\* A record is read through a list that is all decoded.
LEMMA RecordBegins ==
    ASSUME FileInv, AllDecoded, NEW i \in Nat, StartRecord(i), UNCHANGED <<encoded, runs>>
    PROVE  FileInv'
<1>1. RecordSectors \in Nat
  BY RecordAssumption
<1>2. i * RecordSectors \in Nat
  BY <1>1
<1>3. /\ ListTyped /\ runs \in Seq(Nat \X Lengths) /\ ListTyped'
      /\ k' = 1 /\ pc' = "read" /\ offset' \in Nat /\ len' \in Nat
      /\ logicalPos' = offset' /\ remaining' = len' /\ runBase' = 0 /\ out' = <<>>
  BY <1>1, <1>2 DEF FileInv, ListTyped, StartRecord
<1>4. Reached'
  BY <1>3, ReadBegins
<1>5. AllDecoded'
  BY SameAllDecoded
<1>. QED  BY <1>3, <1>4, <1>5 DEF FileInv

LEMMA OnToNext ==
    ASSUME FileInv, AllDecoded, NEW i \in Nat, GoTo(i), UNCHANGED <<encoded, runs>>
    PROVE  FileInv'
<1>1. CASE StartRecord(i)
  BY <1>1, RecordBegins
<1>2. CASE pc' = "scanned"
  <2>1. ListTyped' /\ runs' \in Seq(Nat \X Lengths)
    BY DEF FileInv, ListTyped
  <2>2. AllDecoded'
    BY SameAllDecoded
  <2>. QED  BY <1>2, <2>1, <2>2 DEF FileInv
<1>. QED  BY <1>1, <1>2 DEF GoTo

\* A list decoded up to past its last run is all decoded.
LEMMA ListDecoded ==
    ASSUME ListTyped, DecodedTo, k > Len(encoded)
    PROVE  AllDecoded
<1>1. Len(encoded) \in Nat /\ k \in 1 .. Len(encoded) + 1
  BY RunTyped DEF DecodedTo
<1>2. k - 1 = Len(encoded)
  BY <1>1
<1>. QED  BY <1>2 DEF DecodedTo, AllDecoded

LEMMA FileUntouched ==
    ASSUME FileInv,
           UNCHANGED <<encoded, cut, lcn, runs, k, offset, len, runBase, logicalPos, remaining, out, pc,
                       reader>>
    PROVE  FileInv'
<1>1. \A n : (Decoded(n)' <=> Decoded(n)) /\ (Dense(n)' <=> Dense(n)) /\ At(n)' = At(n)
  BY SameDecoded, SameList
<1>2. LcnOf' = LcnOf
  BY SameSums
<1>3. \A p, b : Right(p, b)' <=> Right(p, b)
  BY SameRight
<1>4. DecodedTo => DecodedTo'
  BY <1>1, <1>2 DEF DecodedTo
<1>5. AllDecoded => AllDecoded'
  BY <1>1 DEF AllDecoded
<1>6. Reached => Reached'
  BY <1>1, <1>3 DEF Reached
<1>7. Answered => Answered'
  <2>1. NoHole' <=> NoHole
    BY DEF NoHole
  <2>. QED  BY <1>1, <1>3, <2>1 DEF Answered
<1>. QED  BY <1>4, <1>5, <1>6, <1>7 DEF FileInv, ListTyped

\* What Answered says of each byte is what the file's content is.
LEMMA AnswerIsContent ==
    ASSUME FileInv
    PROVE  ReadsUpToHole
<1>. SUFFICES ASSUME pc = "done"
              PROVE  /\ Len(out) = len
                     /\ \A j \in 1 .. len :
                           (offset + j - 1 < BytesBeforeHole \/ NoHole) =>
                               out[j] = FileByte(offset + j - 1)
  BY DEF ReadsUpToHole
<1>1. ListTyped /\ Answered
  BY DEF FileInv
<1>2. Len(encoded) \in Nat
  BY <1>1, RunTyped
<1>3. ASSUME NEW p \in Nat, NEW b, Right(p, b), NEW n, Dense(n), p < At(n)
      PROVE  b = FileByte(p)
  <2>1. PICK r \in 1 .. Len(encoded) : Dense(r) /\ At(r - 1) <= p /\ p < At(r)
    BY <1>1, <1>3, SomeRunHolds
  <2>2. FileByte(p) = LcnOf[r] * ClusterSize + p - At(r - 1)
    BY <1>1, <2>1, ByteOfRun
  <2>3. b = LcnOf[r] * ClusterSize + p - At(r - 1)
    BY <1>3, <2>1 DEF Right
  <2>. QED  BY <2>2, <2>3
<1>4. ASSUME NEW j \in 1 .. len, NEW p, NEW b, p = offset + j - 1, b = out[j],
             p < BytesBeforeHole \/ NoHole
      PROVE  b = FileByte(p)
  <2>1. p \in Nat /\ Right(p, b)
    <3>1. offset \in Nat /\ len \in Nat
      BY <1>1 DEF Answered
    <3>. QED  BY <1>1, <1>4, <3>1 DEF Answered
  <2>2. CASE p < BytesBeforeHole
    <3>1. PICK n : Dense(n) /\ BytesBeforeHole = At(n)
      BY <1>1, BeforeHole
    <3>. QED  BY <1>3, <2>1, <2>2, <3>1
  <2>3. CASE NoHole
    <3>1. Dense(Len(encoded)) /\ At(Len(encoded)) \in Nat
      BY <1>1, <1>2, <2>3, NoHoleIsDense, AtGrows
    <3>2. CASE p < At(Len(encoded))
      BY <1>3, <2>1, <3>1, <3>2
    <3>3. CASE ~ (p < At(Len(encoded)))
      <4>1. p >= At(Len(encoded)) /\ At(Len(encoded)) <= p
        BY <2>1, <3>1, <3>3
      <4>2. FileByte(p) = Zero
        BY <4>1 DEF FileByte, At
      <4>3. b = Zero
        BY <1>1, <1>4, <2>3, <4>1 DEF Answered
      <4>. QED  BY <4>2, <4>3
    <3>. QED  BY <3>2, <3>3
  <2>. QED  BY <1>4, <2>2, <2>3
<1>5. Len(out) = len
  BY <1>1 DEF Answered
<1>. QED  BY <1>4, <1>5

LEMMA FileInitInv == ScanInit => FileInv
<1>. SUFFICES ASSUME ScanInit  PROVE FileInv
  OBVIOUS
<1>1. <<>> \in [1 .. 0 -> EncodedRuns] /\ 0 \in 0 .. MaxEncoded
  BY RunListAssumption
<1>2. ListTyped
  BY <1>1 DEF ScanInit, ListTyped, Encodings
<1>. QED  BY <1>2 DEF ScanInit, FileInv

\* What parse_data_runs and read_at do.
LEMMA ReadOnKeeps ==
    ASSUME FileInv, ReadOn
    PROVE  FileInv'
<1>1. UNCHANGED <<reader, encoded>>
  BY DEF ReadOn, scanVars, DecodeRun, SkipSparse, DecodeTruncated, PassRun, ReadRun, ReadFails,
         Pad, StartRead, list
<1>2. ListTyped /\ ListTyped' /\ runs \in Seq(Nat \X Lengths)
  BY <1>1 DEF FileInv, ListTyped
<1>3. CASE DecodeRun
  <2>1. pc = "parse" /\ UNCHANGED <<runBase, out>> /\ pc' \in {"parse", "error"}
    BY <1>3 DEF DecodeRun, reading
  <2>2. runBase = 0 /\ out = <<>> /\ reader \notin {"bitmap", "scan"}
    BY <2>1 DEF FileInv
  <2>3. CASE pc' = "error"
    <3>1. runs' \in Seq(Nat \X Lengths)
      <4>1. lcn' < 0 => runs' = runs
        BY <1>3 DEF DecodeRun
      <4>2. ~ (lcn' < 0) => pc' = pc
        BY <1>3 DEF DecodeRun
      <4>. QED  BY <1>2, <2>1, <2>3, <4>1, <4>2
    <3>. QED  BY <1>1, <1>2, <2>2, <2>3, <3>1 DEF FileInv
  <2>4. CASE pc' # "error"
    <3>1. runs' \in Seq(Nat \X Lengths) /\ DecodedTo'
      BY <1>3, <2>4, RunDecoded
    <3>. QED  BY <1>1, <1>2, <2>1, <2>2, <2>4, <3>1 DEF FileInv
  <2>. QED  BY <2>3, <2>4
<1>4. CASE SkipSparse
  <2>1. pc = "parse" /\ pc' = "parse" /\ UNCHANGED <<runBase, out, runs>>
    BY <1>4 DEF SkipSparse, reading
  <2>2. runBase = 0 /\ out = <<>> /\ reader \notin {"bitmap", "scan"}
    BY <2>1 DEF FileInv
  <2>3. DecodedTo'
    BY <1>4, HoleSkipped
  <2>. QED  BY <1>1, <1>2, <2>1, <2>2, <2>3 DEF FileInv
<1>5. CASE DecodeTruncated
  <2>1. pc = "parse" /\ pc' = "error" /\ runs' = runs
    BY <1>5 DEF DecodeTruncated
  <2>2. reader \notin {"bitmap", "scan"}
    BY <2>1 DEF FileInv
  <2>. QED  BY <1>1, <1>2, <2>1, <2>2 DEF FileInv
<1>6. CASE ReadFails
  <2>1. pc = "read" /\ pc' = "error" /\ runs' = runs
    BY <1>6 DEF ReadFails, Reading
  <2>2. AllDecoded'
    BY <1>1, <2>1, SameAllDecoded DEF FileInv
  <2>. QED  BY <1>2, <2>1, <2>2 DEF FileInv
<1>7. CASE PassRun \/ ReadRun
  <2>1. pc = "read" /\ pc' = "read" /\ runs' = runs
    BY <1>7 DEF PassRun, ReadRun, Reading
  <2>2. AllDecoded'
    BY <1>1, <2>1, SameAllDecoded DEF FileInv
  <2>3. Reached'
    BY <1>7, RunPassed, RunRead
  <2>. QED  BY <1>2, <2>1, <2>2, <2>3 DEF FileInv
<1>8. CASE Pad
  <2>1. pc = "read" /\ pc' = "done" /\ runs' = runs
    BY <1>8 DEF Pad
  <2>2. AllDecoded'
    BY <1>1, <2>1, SameAllDecoded DEF FileInv
  <2>3. Answered'
    BY <1>8, RestPadded
  <2>. QED  BY <1>2, <2>1, <2>2, <2>3 DEF FileInv
<1>9. CASE StartRead
  <2>1. /\ pc = "parse" /\ pc' = "read" /\ runs' = runs /\ k > Len(encoded) /\ k' = 1
        /\ offset' \in 0 .. MaxAsked /\ len' \in 0 .. MaxAsked
        /\ logicalPos' = offset' /\ remaining' = len' /\ UNCHANGED <<runBase, out>>
    BY <1>9 DEF StartRead
  <2>2. runBase = 0 /\ out = <<>> /\ DecodedTo
    BY <2>1 DEF FileInv
  <2>3. AllDecoded
    BY <1>2, <2>1, <2>2, ListDecoded
  <2>4. AllDecoded'
    BY <1>1, <2>1, <2>3, SameAllDecoded
  <2>5. offset' \in Nat /\ len' \in Nat
    BY <2>1, RunListAssumption
  <2>6. Reached'
    BY <1>1, <1>2, <2>1, <2>2, <2>5, ReadBegins
  <2>. QED  BY <1>2, <2>1, <2>4, <2>6 DEF FileInv
<1>. QED  BY <1>3, <1>4, <1>5, <1>6, <1>7, <1>8, <1>9 DEF ReadOn

LEMMA FileNextInv ==
    ASSUME FileInv, ListInv, [ScanNext]_allVars
    PROVE  FileInv'
<1>1. CASE ReadOn
  BY <1>1, ReadOnKeeps
<1>2. CASE OpenFile
  <2>1. /\ pc = "open" /\ pc' = "parse" /\ encoded' \in Encodings /\ reader' = "file"
        /\ UNCHANGED <<lcn, runs, k, runBase, out>>
    BY <1>2 DEF OpenFile, reading
  <2>2. ListTyped' /\ runs \in Seq(Nat \X Lengths) /\ runBase = 0 /\ out = <<>> /\ Fresh'
    BY <2>1 DEF FileInv, ListTyped, Fresh
  <2>3. DecodedTo'
    BY <2>2, FreshListPrime
  <2>. QED  BY <2>1, <2>2, <2>3 DEF FileInv
<1>3. CASE ReadRecordZero
  <2>1. /\ pc = "open" /\ reader' = "boot" /\ UNCHANGED <<lcn, runs, k, runBase, out>>
        /\ \/ pc' \in {"panic", "failed"} /\ encoded' = encoded
           \/ pc' = "parse" /\ encoded' \in Encodings
    BY <1>3 DEF ReadRecordZero, reading, list
  <2>2. /\ ListTyped' /\ runs \in Seq(Nat \X Lengths) /\ runBase = 0 /\ out = <<>>
        /\ runs = <<>> /\ k = 1 /\ lcn = 0
    BY <2>1 DEF FileInv, ListTyped
  <2>3. DecodedTo'
    BY <2>1, <2>2, FreshListPrime DEF Fresh
  <2>. QED  BY <2>1, <2>2, <2>3 DEF FileInv
<1>4. CASE BootFails
  <2>1. pc = "error" /\ pc' = "failed" /\ UNCHANGED <<encoded, runs, reader>>
    BY <1>4 DEF BootFails, list, scanVars
  <2>2. ListTyped' /\ runs' \in Seq(Nat \X Lengths)
    BY <2>1 DEF FileInv, ListTyped
  <2>3. reader' \in {"bitmap", "scan"} => AllDecoded'
    BY <2>1, SameAllDecoded DEF FileInv
  <2>. QED  BY <2>1, <2>2, <2>3 DEF FileInv
<1>5. CASE OpenTable
  <2>1. /\ pc = "parse" /\ k > Len(encoded) /\ UNCHANGED <<encoded, runs>>
        /\ StartRecord(BitmapIndex) /\ BitmapIndex \in Nat
    BY <1>5, ScanAssumption DEF OpenTable, list
  <2>2. ListTyped /\ DecodedTo
    BY <2>1 DEF FileInv
  <2>3. AllDecoded
    BY <2>1, <2>2, ListDecoded
  <2>. QED  BY <2>1, <2>3, RecordBegins
<1>6. CASE ReadBitmapRecord
  <2>1. reader = "bitmap" /\ pc = "done" /\ UNCHANGED <<encoded, runs>>
    BY <1>6 DEF ReadBitmapRecord, list
  <2>2. AllDecoded /\ AllDecoded'
    BY <2>1, SameAllDecoded DEF FileInv
  <2>3. pc' \in {"panic", "failed"} \/ GoTo(0)
    BY <1>6 DEF ReadBitmapRecord
  <2>4. CASE GoTo(0)
    BY <2>1, <2>2, <2>4, OnToNext
  <2>5. CASE pc' \in {"panic", "failed"}
    <3>1. ListTyped' /\ runs' \in Seq(Nat \X Lengths)
      BY <2>1 DEF FileInv, ListTyped
    <3>. QED  BY <2>2, <2>5, <3>1 DEF FileInv
  <2>. QED  BY <2>3, <2>4, <2>5
<1>7. CASE SkipUnreadable \/ ScanRecord
  <2>1. reader = "scan" /\ UNCHANGED <<encoded, runs>>
    BY <1>7 DEF SkipUnreadable, ScanRecord, list
  <2>2. AllDecoded /\ AllDecoded'
    BY <2>1, SameAllDecoded DEF FileInv
  <2>3. pc' = "panic" \/ GoTo(index + 1)
    BY <1>7 DEF SkipUnreadable, ScanRecord
  <2>4. CASE GoTo(index + 1)
    <3>1. index + 1 \in Nat
      BY DEF ListInv
    <3>. QED  BY <2>1, <2>2, <2>4, <3>1, OnToNext
  <2>5. CASE pc' = "panic"
    <3>1. ListTyped' /\ runs' \in Seq(Nat \X Lengths)
      BY <2>1 DEF FileInv, ListTyped
    <3>. QED  BY <2>2, <2>5, <3>1 DEF FileInv
  <2>. QED  BY <2>3, <2>4, <2>5
<1>8. CASE ScanOver \/ UNCHANGED allVars
  <2>1. UNCHANGED <<encoded, cut, lcn, runs, k, offset, len, runBase, logicalPos, remaining, out, pc,
                    reader>>
    BY <1>8 DEF ScanOver, allVars, vars, scanVars, list, asked, reading
  <2>. QED  BY <2>1, FileUntouched
<1>. QED  BY <1>1, <1>2, <1>3, <1>4, <1>5, <1>6, <1>7, <1>8 DEF ScanNext

\* A read of a file, of $Bitmap or of a record gives what the runs say, up to
\* the first hole, however many runs it touches; and zeros past the end.
THEOREM ContentIsRead == ScanSpec => []ReadsUpToHole
<1>1. ScanInit => ListInv /\ FileInv
  BY ListInitInv, FileInitInv
<1>2. (ListInv /\ FileInv) /\ [ScanNext]_allVars => (ListInv /\ FileInv)'
  BY ListNextInv, FileNextInv
<1>3. ListInv /\ FileInv => ReadsUpToHole
  BY AnswerIsContent
<1>. QED  BY <1>1, <1>2, <1>3, PTL DEF ScanSpec
=============================================================================
