------------------------------- MODULE FatWalk -------------------------------
(***************************************************************************)
(* Fat32Parser::enumerate_deleted (fat32/fat32_parser.rs): the depth-first *)
(* walk of the live directory tree, each directory read by following its   *)
(* cluster chain (fat32/fat_table.rs).  The recursion of walk_directory is *)
(* a stack: a frame is a directory and the slots still to look at.         *)
(*                                                                         *)
(* Any volume is walked, well formed or not: chains may loop, cross and    *)
(* run into free or bad clusters, directories may hold their ancestors,    *)
(* and clusters may lie outside the image.                                 *)
(***************************************************************************)
EXTENDS Naturals, Sequences, SequencesExt, FiniteSets

CONSTANTS LastCluster,      \* clusters are 2 .. LastCluster; the next is off the image
          SlotsPerCluster,  \* directory slots in a cluster
          MaxChainClusters  \* MAX_CHAIN_CLUSTERS

ASSUME FatAssumption ==
    /\ LastCluster \in Nat \ {0, 1}
    /\ SlotsPerCluster \in Nat \ {0}
    /\ MaxChainClusters \in Nat \ {0}

Clusters == 2 .. LastCluster
Outside == LastCluster + 1
Addressed == Clusters \union {Outside}   \* what an entry may name
Root == 2
ChainEnds == 0     \* a free or bad entry, or one from END_OF_CHAIN_MIN on

\* parse_entry's answer for a slot.  A live file, a "." or ".." entry, a long
\* name and a volume label are all passed over: they are a Skip.
SubdirectoryAt(c) == [kind |-> "dir", first |-> c]
Slots == [kind : {"end", "skip", "deleted"}]
         \union {SubdirectoryAt(c) : c \in Addressed}

VARIABLES fat,      \* cluster -> FAT entry
          content,  \* cluster -> its slots, when read as a directory
          dirs,     \* what reading the directory at each cluster gives
          stack,    \* the calls of walk_directory in progress
          visited,  \* visited_dirs
          found,    \* out: each deleted entry's path and place in its directory
          pc        \* "walk", then "done" or "error"

volume == <<fat, content, dirs>>
vars == <<volume, stack, visited, found, pc>>

\* Slip: a directory is its first cluster.
FirstClusterOnly(c) == <<c>>

\* Whether follow_chain goes on after the clusters s: not at an end, at a free
\* or a bad entry, at a cluster it has been to, or at the cap.  It stops at a
\* cluster off the image too: reading the directory fails there.
GoesOn(s) == /\ Len(s) < MaxChainClusters
             /\ Last(s) \in Clusters
             /\ fat[Last(s)] \in Addressed
             /\ ~Contains(s, fat[Last(s)])

\* The clusters follow_chain visits from c: it has stopped when it has been to
\* as many as there are.
Chain(c) ==
    LET upTo[n \in 0 .. LastCluster] ==
            IF n = 0 THEN <<c>>
            ELSE LET s == upTo[n - 1]
                 IN  IF GoesOn(s) THEN Append(s, fat[Last(s)]) ELSE s
    IN  upTo[LastCluster]

\* read_directory_bytes: every slot of the chain, or an error.
ReadDirectory(c) ==
    LET chain == Chain(c)
        ok == ~Contains(chain, Outside)
    IN  [ok |-> ok,
         slots |-> IF ok THEN FlattenSeq([i \in DOMAIN chain |-> content[chain[i]]]) ELSE <<>>]

Frame(c) == [dir |-> c, at |-> 1]
Top == stack[Len(stack)]
SlotsOf(c) == dirs[c].slots
Slot == SlotsOf(Top.dir)[Top.at]
AtSlot == pc = "walk" /\ stack # <<>> /\ Top.at <= Len(SlotsOf(Top.dir))
NextSlot == [stack EXCEPT ![Len(stack)].at = @ + 1]
\* Slip: the names between the root and the directory are left out.
ShortPath == IF Len(stack) = 1 THEN <<Root>> ELSE <<Root, Top.dir>>

Path == [i \in DOMAIN stack |-> stack[i].dir]

Init == /\ fat \in [Clusters -> Addressed \union {ChainEnds}]
        /\ content \in [Clusters -> [1 .. SlotsPerCluster -> Slots]]
        /\ dirs = [c \in Addressed |-> ReadDirectory(c)]
        /\ stack = <<>> /\ visited = {} /\ found = <<>>
        /\ pc = "start"

\* Slip: the directory is not marked as visited.
EnterUnmarked(c, below) ==
    /\ UNCHANGED visited
    /\ IF dirs[c].ok
       THEN stack' = Append(below, Frame(c)) /\ pc' = "walk" /\ UNCHANGED found
       ELSE stack' = <<>> /\ pc' = "error" /\ found' = <<>>

\* walk_directory(c), called over the frames below: it reads the directory,
\* or its error goes up through every call and out with what was found.
Enter(c, below) ==
    /\ visited' = visited \union {c}
    /\ IF dirs[c].ok
       THEN stack' = Append(below, Frame(c)) /\ pc' = "walk" /\ UNCHANGED found
       ELSE stack' = <<>> /\ pc' = "error" /\ found' = <<>>

EnterRoot ==
    /\ pc = "start"
    /\ Enter(Root, <<>>)
    /\ UNCHANGED volume

PassSlot ==
    /\ AtSlot /\ Slot.kind = "skip"
    /\ stack' = NextSlot
    /\ UNCHANGED <<volume, visited, found, pc>>

FindDeleted ==
    /\ AtSlot /\ Slot.kind = "deleted"
    /\ found' = Append(found, [path |-> Path, at |-> Top.at])
    /\ stack' = NextSlot
    /\ UNCHANGED <<volume, visited, pc>>

EnterSubdirectory ==
    /\ AtSlot /\ Slot.kind = "dir" /\ Slot.first \notin visited
    /\ Enter(Slot.first, NextSlot)
    /\ UNCHANGED volume

\* Slip: the walk does not get past a directory it has been to.
StayAtVisited ==
    /\ AtSlot /\ Slot.kind = "dir" /\ Slot.first \in visited
    /\ UNCHANGED vars

PassVisited ==
    /\ AtSlot /\ Slot.kind = "dir" /\ Slot.first \in visited
    /\ stack' = NextSlot
    /\ UNCHANGED <<volume, visited, found, pc>>

\* Slip: only the directories of the current path count as visited.
LeaveAndForget ==
    /\ pc = "walk" /\ stack # <<>>
    /\ ~(AtSlot /\ Slot.kind # "end")
    /\ stack' = Front(stack)
    /\ visited' = visited \ {Top.dir}
    /\ UNCHANGED <<volume, found, pc>>

LeaveDirectory ==
    /\ pc = "walk" /\ stack # <<>>
    /\ ~(AtSlot /\ Slot.kind # "end")
    /\ stack' = Front(stack)
    /\ UNCHANGED <<volume, visited, found, pc>>

Finish ==
    /\ pc = "walk" /\ stack = <<>>
    /\ pc' = "done"
    /\ UNCHANGED <<volume, stack, visited, found>>

Ended == pc \in {"done", "error"} /\ UNCHANGED vars

Next == \/ EnterRoot \/ PassSlot \/ FindDeleted \/ EnterSubdirectory
        \/ PassVisited \/ LeaveDirectory \/ Finish \/ Ended

Spec == Init /\ [][Next]_vars /\ WF_vars(Next)

-----------------------------------------------------------------------------
\* Slots of a directory that are in use: those before its end marker.
Live(c) == LET slots == SlotsOf(c)
           IN  {i \in DOMAIN slots : \A j \in 1 .. i : slots[j].kind # "end"}

Subdirectories(c) ==
    {SlotsOf(c)[i].first : i \in {j \in Live(c) : SlotsOf(c)[j].kind = "dir"}}

\* What a cluster leads to, by way of others or at once: the least set that
\* holds it and, with a cluster, those that this one leads to.
LedTo(from, leads) ==
    {c \in Addressed :
        \A S \in SUBSET Addressed : from \in S /\ (\A d \in S : leads[d] \subseteq S) => c \in S}

\* The live tree: every directory the root leads to.
Tree == LedTo(Root, [c \in Addressed |-> Subdirectories(c)])

\* Reading a directory gives slots or an error, and an error off the image.
DirectoriesRead ==
    \A c \in Addressed :
        dirs[c].slots \in Seq(Slots) /\ (dirs[c].ok => c \in Clusters)

TypeOK ==
    /\ fat \in [Clusters -> Addressed \union {ChainEnds}]
    /\ content \in [Clusters -> [1 .. SlotsPerCluster -> Slots]]
    /\ DirectoriesRead
    /\ visited \subseteq Addressed
    /\ \A i \in DOMAIN stack :
          stack[i].dir \in visited /\ stack[i].at \in 1 .. Len(SlotsOf(stack[i].dir)) + 1
    /\ pc \in {"start", "walk", "done", "error"}

\* A walk that succeeds finds the deleted entries of every directory of the
\* live tree, "deleted files anywhere in the tree", and each of them once,
\* even if several directories lead to the same one.
FindsEachDeletedOnce ==
    pc = "done" =>
        LET places == [n \in DOMAIN found |-> <<Last(found[n].path), found[n].at>>]
        IN  /\ {places[n] : n \in DOMAIN places} =
                   UNION {{<<c, i>> : i \in {j \in Live(c) : SlotsOf(c)[j].kind = "deleted"}}
                              : c \in Tree}
            /\ \A m, n \in DOMAIN places : m # n => places[m] # places[n]

\* From the root, each directory holding the next, none twice.
LeadsThere(path) ==
    /\ path[1] = Root
    /\ \A i \in 1 .. Len(path) - 1 : path[i + 1] \in Subdirectories(path[i])
    /\ IsInjective(path)

\* The path in an entry's name is one that leads to it.
PathsLeadThere == \A n \in DOMAIN found : LeadsThere(found[n].path)

\* The recursion is never deeper than the volume has clusters, whatever the
\* directories hold.
DepthBounded == Len(stack) <= Cardinality(Clusters)

\* The clusters a directory is made of: those its FAT chain leads to.
Linked(c) ==
    LedTo(c, [d \in Addressed |-> IF d \in Clusters THEN {fat[d]} \ {ChainEnds} ELSE {}])

\* A walk that succeeds read every directory of the live tree whole: each
\* cluster its chain leads to once, and no chain that leaves the image.  The
\* walk fails, and with it all that it had found, only for a directory of the
\* live tree that cannot be read so: nothing else on the volume brings it down.
DirectoryIsWhole ==
    /\ pc = "done" =>
          \A c \in Tree :
              /\ Linked(c) \subseteq Clusters
              /\ Len(SlotsOf(c)) = SlotsPerCluster * Cardinality(Linked(c))
    /\ pc = "error" => \E c \in Tree : Outside \in Linked(c)

\* The walk ends, however corrupt the volume.
WalkEnds == <>(pc \in {"done", "error"})
=============================================================================
