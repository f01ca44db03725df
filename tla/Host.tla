-------------------------------- MODULE Host --------------------------------
(* The modules of the host together: its state files, the commands and the    *)
(* lists of a window, the host processes, the pipe; and what they promise.     *)
EXTENDS StateStores, Commands, Paging, HostLife, Sessions

(* The databases as files, and the pipe, each step of either.                  *)
StoresAndPipe == StSpec /\ SsSpec

(* The types of the five parts, and what they rely on among themselves: the    *)
(* old pair of stores survives a restore, receipts end, a saved edit is held   *)
(* by the host and an answer is true, a page shown is the page asked for, the  *)
(* merged history is the timeline and nothing of it is skipped, a report is    *)
(* whole, a shutdown is quiet, a host that works can be found, and a retry     *)
(* after the promised time is not refused again.                               *)
HostSound ==
    /\ StTypeOK /\ CmTypeOK /\ PgTypeOK /\ HsTypeOK /\ SsTypeOK
    /\ OldPairSurvives
    /\ ReceiptsEnd /\ SavedIsHeld /\ AnswersAreTrue
    /\ ShownIsPlace /\ MergeIsTimeline /\ NothingSkipped /\ PagesAdvance /\ ExportIsWhole
    /\ ShutdownIsQuiet /\ HostIsFindable /\ SeekersCleanUp
    /\ RetryIsExact

(* The host opens its two stores only as one pair, and changes neither before  *)
(* both are backed up; a session lives as long as its client uses it, and a    *)
(* client is turned away only when all places are really taken.                *)
HostStepsAreSound == OpensOnePair /\ BackedUpBeforeChange /\ SessionsFollowUse /\ CapacityIsReal
=============================================================================
