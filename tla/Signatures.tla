----------------------------- MODULE Signatures -----------------------------
(***************************************************************************)
(* File signatures and what the carver makes of one header match           *)
(* (restora-domain/src/carving/signatures.rs and carver.rs).  The source   *)
(* being carved is a function from byte offsets to bytes; a signature has  *)
(* a header, a footer (<<>> when it has none: find_first of an empty       *)
(* needle is None, so both take the fallback) and a cap on its extent.     *)
(***************************************************************************)
EXTENDS Integers, Sequences

CONSTANTS Bytes,     \* the alphabet of the source
          Size,      \* ByteSource::size()
          Sigs,      \* the names of the signatures
          Header, Footer, MaxSize,
          Overlap    \* max_header_len()

Offsets == 0 .. Size - 1
Images  == [Offsets -> Bytes]

\* The table SIGNATURES: headers are not empty and no extent cap is smaller
\* than its header.
ASSUME SignatureAssumption ==
    /\ Size \in Nat
    /\ Header \in [Sigs -> Seq(Bytes)]
    /\ Footer \in [Sigs -> Seq(Bytes)]
    /\ MaxSize \in [Sigs -> Nat]
    /\ \A s \in Sigs : 0 < Len(Header[s]) /\ Len(Header[s]) <= MaxSize[s]

\* The overlap is the length of the longest header.
ASSUME OverlapAssumption ==
    /\ Overlap \in Nat
    /\ \A s \in Sigs : Len(Header[s]) <= Overlap
    /\ Sigs # {} => \E s \in Sigs : Len(Header[s]) = Overlap
    /\ Sigs = {} => Overlap = 0

\* No header of the table is a prefix of another, so two signatures never
\* match at one offset and the order of the table does not matter.
ASSUME PrefixFreeAssumption ==
    \A s, t \in Sigs :
        s # t => \E i \in DOMAIN Header[s] \cap DOMAIN Header[t] : Header[s][i] # Header[t][i]

\* No footer of the table stands inside its header, short of the header's end.
ASSUME FooterAssumption ==
    \A s \in Sigs : \A i \in 0 .. Len(Header[s]) :
        Footer[s] # <<>> /\ i + Len(Footer[s]) < Len(Header[s]) =>
            \E j \in 1 .. Len(Footer[s]) : Header[s][i + j] # Footer[s][j]

\* needle stands in img at offset o.
Occurs(img, needle, o) ==
    /\ o + Len(needle) <= Size
    /\ \A i \in 1 .. Len(needle) : img[o + i - 1] = needle[i]

\* Every <<signature, offset>> whose header lies in img within from .. to - 1:
\* find_all over the table for the chunk that starts at from and ends before to.
HeadersWithin(img, from, to) ==
    {m \in Sigs \X Offsets :
        /\ from <= m[2]
        /\ m[2] + Len(Header[m[1]]) <= to
        /\ Occurs(img, Header[m[1]], m[2])}

\* Slip: the window is not clamped to the source.
WindowEndUnclamped(s, o) == o + MaxSize[s]

\* The end of the window resolve_extent reads for a header at o.
WindowEnd(s, o) == IF o + MaxSize[s] <= Size THEN o + MaxSize[s] ELSE Size

\* Where the footer of s stands inside that window.
FootersWithin(img, s, o) ==
    {e \in Offsets :
        /\ Footer[s] # <<>>
        /\ o <= e
        /\ e + Len(Footer[s]) <= WindowEnd(s, o)
        /\ Occurs(img, Footer[s], e)}

\* Slip: the extent runs to the last footer of the window.
ResolveToLastFooter(img, s, o) ==
    LET hits == FootersWithin(img, s, o)
    IN  IF hits # {}
        THEN LET last == CHOOSE e \in hits : \A f \in hits : f <= e
             IN  [sig |-> s, start |-> o, end |-> last + Len(Footer[s]), confidence |-> 85]
        ELSE [sig |-> s, start |-> o, end |-> WindowEnd(s, o), confidence |-> 30]

\* The extent carved for a header at o: up to and with the first footer
\* (confidence 85), else the whole window (confidence 30).
ResolveExtent(img, s, o) ==
    LET hits == FootersWithin(img, s, o)
    IN  IF hits # {}
        THEN LET first == CHOOSE e \in hits : \A f \in hits : e <= f
             IN  [sig |-> s, start |-> o, end |-> first + Len(Footer[s]), confidence |-> 85]
        ELSE [sig |-> s, start |-> o, end |-> WindowEnd(s, o), confidence |-> 30]

\* The files a scan that covered from .. to - 1 without a gap would report.
CarvedWithin(img, from, to) ==
    {ResolveExtent(img, m[1], m[2]) : m \in HeadersWithin(img, from, to)}
=============================================================================
