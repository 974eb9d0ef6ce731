----------------------------- MODULE MCMblkDesc -----------------------------
(***************************************************************************)
(* The region map of an mblock file with a KVS reader's block descriptor:  *)
(* mblk_mmap finds an mbid through mblock_file_find, i.e. the key of its   *)
(* block is not in a free region.  Allocs and frees of the region map run  *)
(* between the reader's calls.                                             *)
(***************************************************************************)
EXTENDS RegionMap

CONSTANTS WlenPages, RaPages, SizeBits, MmapMayFail, MunmapMayFail, MadviseMayFail

VARIABLES md, adv

\* mblock_file_find fails for the mbid whose block key is in a free region.
MD == INSTANCE MblkDesc WITH unfound <- FreeKeys(rgns), Mbids <- Keys

allvars == <<vars, md, adv>>

MCInit == Init /\ MD!Init

MCNext ==
    \/ Next /\ UNCHANGED <<md, adv>>
    \/ MD!Next /\ UNCHANGED vars

MCSpec == MCInit /\ [][MCNext]_allvars

\* adv is written by madvise steps and read by no guard; MadviseExact reads
\* the adv' of each step.
MCView == <<vars, md>>

MadviseExact == MD!MadviseExact
=============================================================================
