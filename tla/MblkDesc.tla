------------------------------ MODULE MblkDesc ------------------------------
(***************************************************************************)
(* The block descriptor of a KVS reader (src/lib/cn/kvs_mblk_desc.c): a    *)
(* memory map of a committed mblock with the page counts and read-ahead    *)
(* of its properties, and the madvise of a page range in chunks.           *)
(*                                                                         *)
(* mpool_mblock_props_get, mpool_mblock_mmap and _munmap are outside src/; *)
(* props_get reaches mblock_file_find; the composing model supplies the    *)
(* mbids it does not find as the state `unfound`.  The properties of a     *)
(* found block (written pages, read-ahead pages) are chosen from small     *)
(* sets.  size_t arithmetic is modular over SizeBits bits.  A madvise     *)
(* call advises a range or fails; which one fails, when calls may fail, is *)
(* a choice.                                                               *)
(***************************************************************************)
EXTENDS Integers, Sequences, SequencesExt

CONSTANTS
    Mbids,           \* the mbids callers map
    WlenPages,       \* mpr_write_len / PAGE_SIZE of a found block
    RaPages,         \* mpr_ra_pages of a found block
    SizeBits,        \* width of size_t in the model
    MmapMayFail,     \* may mpool_mblock_mmap fail?
    MunmapMayFail,   \* may mpool_mblock_munmap fail?
    MadviseMayFail   \* may madvise(2) fail on a mapped range?

VARIABLES
    md,    \* struct kvs_mblk_desc: map_base set?, mbid, wlen_pages, ra_pages
    adv,   \* the last mblk_madvise_pages: its arguments, error and madvise calls
    unfound  \* the mbids mpool_mblock_props_get does not find (not changed here)

mdvars == <<md, adv>>

SizeT == 0..(2^SizeBits - 1)
Add(a, b) == (a + b) % 2^SizeBits
Sub(a, b) == (a - b) % 2^SizeBits
MinOf(a, b) == IF a < b THEN a ELSE b

Advices  == {"MADV_WILLNEED", "MADV_DONTNEED"}
NoDesc   == [base |-> FALSE, mbid |-> 0, wlen |-> 0, ra |-> 0]

Found(m) == m \notin unfound

\* The madvise calls of the loop from pg to pg_end in chunks of ra pages.
RECURSIVE Chunks(_, _, _)
Chunks(pg, pgEnd, ra) ==
    IF pg >= pgEnd THEN <<>>
    ELSE LET chunk == MinOf(pgEnd - pg, ra)
         IN  <<[pg |-> pg, len |-> chunk]>> \o Chunks(pg + chunk, pgEnd, ra)

\* Variant for mutation checking: the count is not clipped.
ClipCountNone(pg, cnt, wlen) == cnt

\* The count clipped to the written pages: if (pg + pg_cnt > wlen_pages).
ClipCount(pg, cnt, wlen) == IF Add(pg, cnt) > wlen THEN Sub(wlen, pg) ELSE cnt

Result(pg, cnt, advice, err, calls) ==
    [pg |-> pg, cnt |-> cnt, advice |-> advice, wlen |-> md.wlen, ra |-> md.ra,
     err |-> err, calls |-> calls]

Init ==
    /\ md = NoDesc
    /\ adv = Result(0, 0, "MADV_DONTNEED", "none", <<>>)

(***************************************************************************)
(* mblk_mmap: props_get (ENOENT for an mbid the file does not find), then  *)
(* mmap; only when both succeed are the descriptor's fields written.       *)
(***************************************************************************)
MblkMmap(m) ==
    /\ \/ /\ ~Found(m)
          /\ UNCHANGED md
       \/ /\ Found(m) /\ MmapMayFail
          /\ UNCHANGED md
       \/ /\ Found(m)
          /\ \E w \in WlenPages, r \in RaPages :
                md' = [base |-> TRUE, mbid |-> m, wlen |-> w, ra |-> r]
    /\ UNCHANGED adv

\* mblk_munmap: with a base, unmap and clear the base unless that failed.
MblkMunmap ==
    /\ md.base
    /\ \/ md' = [md EXCEPT !.base = FALSE]
       \/ MunmapMayFail /\ UNCHANGED md
    /\ UNCHANGED adv

(***************************************************************************)
(* mblk_madvise_pages(pg, pg_cnt, advice): EINVAL for pg beyond the        *)
(* written pages; clip the count; nothing for an empty range or no read-   *)
(* ahead; else advise the range in chunks of ra_pages (WILLNEED) or of    *)
(* the whole count, returning errno at the first call that fails.  On a   *)
(* descriptor without a map, the first call is on an unmapped address     *)
(* and fails.  The descriptor is not changed.                              *)
(***************************************************************************)
MblkMadvisePages(pg, cnt, advice) ==
    LET n     == ClipCount(pg, cnt, md.wlen)
        ra    == IF advice = "MADV_WILLNEED" THEN md.ra ELSE n
        calls == Chunks(pg, Add(pg, n), ra)
        fails == IF ~md.base THEN {1}
                 ELSE IF MadviseMayFail THEN 1..Len(calls) ELSE {}
    IN  /\ IF pg >= md.wlen
           THEN adv' = Result(pg, cnt, advice, "EINVAL", <<>>)
           ELSE IF n = 0 \/ ra = 0 \/ calls = <<>>
           THEN adv' = Result(pg, cnt, advice, "OK", <<>>)
           ELSE \/ md.base /\ adv' = Result(pg, cnt, advice, "OK", calls)
                \/ \E i \in fails :
                      adv' = Result(pg, cnt, advice, "EFAULT", SubSeq(calls, 1, i))
        /\ UNCHANGED md

Next ==
    \/ \E m \in Mbids : MblkMmap(m)
    \/ MblkMunmap
    \/ \E pg, cnt \in SizeT, advice \in Advices : MblkMadvisePages(pg, cnt, advice)

-----------------------------------------------------------------------------
\* The pages a list of madvise calls covers.
Covered(calls) == UNION {c.pg..(c.pg + c.len - 1) : c \in Range(calls)}

(***************************************************************************)
(* Spec 4.E on mblk_madvise_pages: it fails with EINVAL exactly when pg is *)
(* not below the written pages; when it returns 0 for a request that does  *)
(* not wrap size_t, its madvise calls advise, in order and without gaps or *)
(* overlaps, exactly the pages from pg up to the clipped end, in chunks of *)
(* at most ra_pages for WILLNEED, the last alone shorter (except that no   *)
(* read-ahead means no advice).                                            *)
(***************************************************************************)
MadviseExact ==
    [][LET a     == adv'
           end   == MinOf(a.pg + a.cnt, a.wlen)
           limit == IF a.advice = "MADV_WILLNEED" THEN a.ra ELSE end - a.pg
       IN  /\ a.err # "none" => ((a.err = "EINVAL") = (a.pg >= a.wlen))
           /\ a.err = "OK" /\ a.pg < a.wlen /\ a.pg + a.cnt < 2^SizeBits
              /\ ~(a.advice = "MADV_WILLNEED" /\ a.ra = 0)
              => /\ Covered(a.calls) = a.pg..(end - 1)
                 /\ \A i \in 1..(Len(a.calls) - 1) :
                       /\ a.calls[i].pg + a.calls[i].len = a.calls[i + 1].pg
                       /\ a.calls[i].len = limit
                 /\ \A i \in DOMAIN a.calls : 0 < a.calls[i].len /\ a.calls[i].len <= limit
      ]_mdvars
====
