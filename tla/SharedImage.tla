----------------------------- MODULE SharedImage -----------------------------
(***************************************************************************)
(* Two wipes of one image at the same time.  The window's wipe button      *)
(* stays enabled while a wipe runs (desktop/frontend/index.html 419-449),  *)
(* and wipe-free-space of the CLI may run beside the window or beside      *)
(* itself; each job opens the image for itself and nothing locks it.       *)
(*                                                                         *)
(* Both jobs are WipeJob's.  They share the volume and the image, and each *)
(* has its own loops; the pattern is the same.  The second one's variables *)
(* are those that begin with other.  As before, a third program may        *)
(* allocate clusters.                                                      *)
(***************************************************************************)
EXTENDS WipeJob

VARIABLES otherCluster, otherRunStart, otherRanges,
          otherPc, otherAssumeSsd, otherVerify,
          otherRangeIndex, otherPass, otherOffset,
          otherBytesWritten, otherFound, otherRuns, otherLiveAtOpen,
          crossed  \* history: has the second job written since the first opened?

Other == INSTANCE WipeJob WITH
            cluster <- otherCluster, runStart <- otherRunStart, ranges <- otherRanges,
            pc <- otherPc, assumeSsd <- otherAssumeSsd, verify <- otherVerify,
            rangeIndex <- otherRangeIndex, pass <- otherPass, offset <- otherOffset,
            bytesWritten <- otherBytesWritten, found <- otherFound, runs <- otherRuns,
            liveAtOpen <- otherLiveAtOpen

firstVars == <<loopVars, pc, assumeSsd, verify, loopPosition, bytesWritten, found, runs, liveAtOpen>>
otherVars == <<otherCluster, otherRunStart, otherRanges, otherPc, otherAssumeSsd, otherVerify,
               otherRangeIndex, otherPass, otherOffset, otherBytesWritten, otherFound,
               otherRuns, otherLiveAtOpen>>
sharedVars == <<vars, otherVars, crossed>>

SharedInit == Init /\ Other!Init /\ crossed = FALSE

\* A step of the first job, or its end by the death of its process, or its
\* repetition: crossed starts again when it opens the image.
FirstStep == /\ JobStep \/ Crash \/ RunAgain
             /\ crossed' = (crossed /\ pc # "start")
             /\ UNCHANGED otherVars

OtherStep == /\ Other!JobStep \/ Other!Crash \/ Other!RunAgain
             /\ crossed' = (crossed \/ layer' # layer)
             /\ UNCHANGED firstVars

ThirdStep == Allocate /\ UNCHANGED <<otherVars, crossed>>

SharedNext == FirstStep \/ OtherStep \/ ThirdStep

SharedSpec == SharedInit /\ [][SharedNext]_sharedVars

-----------------------------------------------------------------------------
\* Clusters that a job could take for free when it opened the image, and
\* nobody has allocated since.
FreeThroughout(atOpen) == {c \in Clusters \ (atOpen \union live) : ReadsFree(c)}

\* A wipe that returned Ok leaves nothing of what was in free space, whatever
\* a second wipe of the image has done meanwhile or does later, dies or fails
\* at; and once both have returned Ok every free byte carries the last pass.
WipedTogether ==
    /\ pc = "done" => \A c \in FreeThroughout(liveAtOpen) : \A b \in ClusterBytes(c) : layer[b] # 0
    /\ otherPc = "done" =>
          \A c \in FreeThroughout(otherLiveAtOpen) : \A b \in ClusterBytes(c) : layer[b] # 0
    /\ pc = "done" /\ otherPc = "done" =>
          \A c \in FreeThroughout(liveAtOpen \union otherLiveAtOpen) :
              \A b \in ClusterBytes(c) : layer[b] = Len(Passes)

\* Each wipe spares what was live when it opened the image, whatever the other
\* one and the third program do meanwhile: a step of the first job overwrites
\* no cluster that was live when it began.  The second job is just alike.
SparesLive ==
    [][FirstStep =>
          \A c \in liveAtOpen : \A b \in ClusterBytes(c) : layer'[b] \in {0, layer[b]}]_sharedVars

\* A wipe that runs while no other writes verifies as clean, also when another
\* one of the image died or failed half way before.
VerifiedCleanAlone == ~crossed => VerifiedClean
=============================================================================
