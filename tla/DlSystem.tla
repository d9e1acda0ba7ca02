---------------------------- MODULE DlSystem ----------------------------
(***************************************************************************)
(* malloc.c: memory from and back to the operating system.  The answers of *)
(* the system to one call are chosen beforehand, in os:                    *)
(*   os.brk    MORECORE grants memory,                                     *)
(*   os.base   where MMAP or MREMAP puts a region (NULL: it fails),        *)
(*   os.unmap  MUNMAP, MREMAP to a smaller size and MORECORE(-n) succeed.  *)
(***************************************************************************)
EXTENDS DlHeap

CONSTANTS
    Space,           \* bound: size of the address space, a multiple of Granularity
    MmapThreshold,   \* mparams.mmap_threshold
    ReleaseRate      \* MAX_RELEASE_CHECK_RATE

MAX_SIZE_T == 2 * Space  \* larger than any size

Pages == {n * Granularity : n \in 0..(Space \div Granularity - 1)}

Answers == [brk : BOOLEAN, base : Pages \union {NULL}, unmap : BOOLEAN]

(* The regions that m has from the system: <<base, size>>. *)
Region(m, p) == <<p - m.mapped[p].offset, m.mapped[p].size + m.mapped[p].offset + MMAP_FOOT_PAD>>

Regions(m) == {<<m.segs[i].base, m.segs[i].size>> : i \in DOMAIN m.segs}
              \union {Region(m, p) : p \in DOMAIN m.mapped} \union m.foreign

Disjoint(r, q) == r[1] + r[2] <= q[1] \/ q[1] + q[2] <= r[1]

IsVacant(m, base, n) ==
    /\ base # NULL /\ base >= 0 /\ base + n <= Space
    /\ \A r \in Regions(m) : Disjoint(<<base, n>>, r)

Grow(m, n) ==
    [m EXCEPT !.footprint = @ + n,
              !.max_footprint = IF m.footprint + n > @ THEN m.footprint + n ELSE @]

WithinLimit(m, n) == m.footprint_limit = 0 \/ m.footprint + n <= m.footprint_limit

----------------------------------------------------------------------------
(* Directly mapped chunks. *)

mmap_size(nb) == granularity_align(nb + 4)

mmap_alloc(m, nb, os) ==
    LET mmsize == mmap_size(nb)
    IN  IF WithinLimit(m, mmsize) /\ IsVacant(m, os.base, mmsize)
        THEN Returns([Grow(m, mmsize) EXCEPT
                         !.mapped = With(@, os.base, [offset |-> 0, size |-> mmsize - MMAP_FOOT_PAD])],
                     os.base)
        ELSE Returns(m, NULL)

Unmap(m, p) == [m EXCEPT !.mapped = Restrict(@, DOMAIN @ \ {p})]

(* A chunk that is big enough and not too big stays; others are remapped, at os.base if *)
(* they may move.                                                                       *)
mmap_resize(m, p, nb, can_move, os) ==
    LET old == m.mapped[p]
        region == Region(m, p)
        newmmsize == mmap_size(nb)
        cp == IF can_move THEN os.base ELSE region[1]
        newp == cp + old.offset
    IN  CASE is_small(nb) -> Returns(m, NULL)
          [] ~is_small(nb) /\ old.size > nb /\ old.size - nb <= 2 * Granularity -> Returns(m, p)
          [] ~is_small(nb) /\ ~(old.size > nb /\ old.size - nb <= 2 * Granularity) ->
                 IF os.unmap /\ IsVacant(Unmap(m, p), cp, newmmsize)
                 THEN Returns([Grow(m, newmmsize - region[2]) EXCEPT
                                  !.mapped = With(Unmap(m, p).mapped, newp,
                                      [offset |-> old.offset,
                                       size |-> newmmsize - old.offset - MMAP_FOOT_PAD])],
                              newp)
                 ELSE Returns(m, NULL)

(* mutant: the region is counted as gone although MUNMAP failed *)
UnmapChunkAlways(m, p, os) ==
    IF os.unmap THEN [Unmap(m, p) EXCEPT !.footprint = @ - Region(m, p)[2]]
    ELSE [Unmap(m, p) EXCEPT !.foreign = @ \union {Region(m, p)}, !.lost = @ + Region(m, p)[2],
                             !.footprint = @ - Region(m, p)[2]]

(* free of a mapped chunk; if MUNMAP fails the region stays and is still counted. *)
UnmapChunk(m, p, os) ==
    IF os.unmap THEN [Unmap(m, p) EXCEPT !.footprint = @ - Region(m, p)[2]]
    ELSE [Unmap(m, p) EXCEPT !.foreign = @ \union {Region(m, p)}, !.lost = @ + Region(m, p)[2]]

----------------------------------------------------------------------------
(* Segments. *)

Segment(base, n, flag, rec) == [base |-> base, size |-> n, flag |-> flag, rec |-> rec]

(* The record of the segment of the old top goes behind the rest of the old top, or over  *)
(* it if that is too small to be a chunk; up to the end of the segment follow fenceposts. *)
RecordPlace(m, oldsp) ==
    LET asp == oldsp.base + oldsp.size - SegmentSize - 2
    IN  IF asp < m.top + MIN_CHUNK_SIZE THEN m.top ELSE asp

WriteRecord(m, csp, old_end) ==
    set_head(set_size_and_pinuse_of_inuse_chunk(m, csp, SegmentSize),
             csp + SegmentSize, old_end - csp - SegmentSize, TRUE, TRUE)

PushSegment(m, tbase, tsize, flag, csp) ==
    [m EXCEPT !.segs = <<Segment(tbase, tsize, flag, m.segs[1].rec)>> \o [@ EXCEPT ![1].rec = csp]]

(* The rest of the old top becomes an ordinary free chunk. *)
KeepOldTop(m, p, s) ==
    IF s = 0 THEN m ELSE insert_chunk(set_free_with_pinuse(m, p, s, p + s), p, s)

AddSegmentAt(m, tbase, tsize, flag, csp, old_end) ==
    KeepOldTop(WriteRecord(PushSegment(init_top(m, tbase, tsize - TOP_FOOT_SIZE), tbase, tsize, flag, csp),
                           csp, old_end),
               m.top, csp - m.top)

AddSegmentAfter(m, tbase, tsize, flag, oldsp) ==
    AddSegmentAt(m, tbase, tsize, flag, RecordPlace(m, oldsp), oldsp.base + oldsp.size)

add_segment(m, tbase, tsize, flag) ==
    AddSegmentAfter(m, tbase, tsize, flag, m.segs[segment_holding(m, m.top)])

(* Take nb at the start of new memory in front of a segment, and join the rest with the *)
(* first chunk of the old one.                                                          *)
prepend_alloc(m, newbase, oldbase, nb) ==
    LET q == newbase + nb
        qsize == oldbase - q
        a == set_size_and_pinuse_of_inuse_chunk(m, newbase, nb)
        nsize == chunksize(m, oldbase)
    IN  CASE oldbase = m.top -> Returns(set_top(a, q, m.topsize + qsize), newbase)
          [] oldbase # m.top /\ oldbase = m.dv ->
                 Returns(set_dv(set_size_and_pinuse_of_free_chunk(a, q, m.dvsize + qsize), q,
                                m.dvsize + qsize), newbase)
          [] oldbase \notin {m.top, m.dv} /\ ~cinuse(m, oldbase) ->
                 Returns(insert_chunk(set_free_with_pinuse(unlink_chunk(a, oldbase, nsize), q,
                                                           qsize + nsize, oldbase + nsize),
                                      q, qsize + nsize), newbase)
          [] OTHER -> Returns(insert_chunk(set_free_with_pinuse(a, q, qsize, oldbase), q, qsize), newbase)

(* MORECORE(n): the memory behind the break, if it is free. *)
Morecore(m, n, os) ==
    IF os.brk /\ m.brk + n <= Space /\ \A r \in Regions(m) : Disjoint(<<m.brk, n>>, r)
    THEN [m |-> [m EXCEPT !.brk = @ + n], base |-> m.brk] ELSE [m |-> m, base |-> NULL]

Memory(m, tbase, tsize, flag) == [m |-> m, tbase |-> tbase, tsize |-> tsize, flag |-> flag]

NoMemory(m) == Memory(m, NULL, 0, "sbrk")

(* A call that fails ends the contiguous path for good. *)
DisableContiguous(m) == NoMemory([m EXCEPT !.contiguous = FALSE])

(* 1. MORECORE that extends the segment of top; memory elsewhere is used, too, after a  *)
(* second call if it is too short.                                                      *)
SecondMorecore(m, nb, ssize, got, os) ==
    LET more == Morecore(got.m, granularity_align(nb + SYS_ALLOC_PADDING - ssize), os)
    IN  IF more.base = NULL THEN DisableContiguous(m)
        ELSE Memory(more.m, got.base, granularity_align(nb + SYS_ALLOC_PADDING), "sbrk")

FromMorecore(m, nb, ssize, got, os) ==
    LET extends == m.top = NULL \/ LET sp == m.segs[segment_holding(m, m.top)]
                                   IN  got.base = sp.base + sp.size
    IN  IF got.base = NULL THEN DisableContiguous(m)
        ELSE IF extends \/ ssize >= nb + SYS_ALLOC_PADDING THEN Memory(got.m, got.base, ssize, "sbrk")
        ELSE SecondMorecore(m, nb, ssize, got, os)

MorecoreOf(m, nb, ssize, os) == FromMorecore(m, nb, ssize, Morecore(m, ssize, os), os)

MorecoreContiguous(m, nb, os) ==
    MorecoreOf(m, nb, granularity_align((IF m.top = NULL THEN nb ELSE nb - m.topsize) + SYS_ALLOC_PADDING), os)

(* 2. MMAP; 3. MORECORE anywhere. *)
OtherMemory(r1, asize, os) ==
    IF r1.tbase # NULL THEN r1
    ELSE IF IsVacant(r1.m, os.base, asize) THEN Memory(r1.m, os.base, asize, "mmap")
    ELSE LET r3 == Morecore(r1.m, asize, os) IN Memory(r3.m, r3.base, asize, "sbrk")

GetMemory(m, nb, os) ==
    OtherMemory(IF m.contiguous THEN MorecoreContiguous(m, nb, os) ELSE NoMemory(m),
                granularity_align(nb + SYS_ALLOC_PADDING), os)

(* The first segment of gm. *)
FirstSegment(m, g) ==
    init_top([m EXCEPT !.segs = <<Segment(g.tbase, g.tsize, g.flag, m.self)>>,
                       !.release_checks = ReleaseRate], g.tbase, g.tsize - TOP_FOOT_SIZE)

CanAppend(m, sp, g) ==
    sp.base + sp.size = g.tbase /\ sp.flag = g.flag /\ segment_holds(sp, m.top)

CanPrepend(sp, g) == sp.base = g.tbase + g.tsize /\ sp.flag = g.flag

(* Use the memory g: append to the segment of top, put it in front of a segment, or add *)
(* a segment; then take nb from top.                                                    *)
UseMemory(m, nb, g) ==
    LET FromTop(x) == IF nb < x.topsize THEN UseTop(x, nb) ELSE Returns(x, NULL)
        append == {i \in DOMAIN m.segs : CanAppend(m, m.segs[i], g)}
        before == {i \in DOMAIN m.segs : CanPrepend(m.segs[i], g)}
        i == Min(before)
        extended == [m EXCEPT !.segs[Min(append)].size = @ + g.tsize]
    IN  CASE m.top = NULL -> FromTop(FirstSegment(m, g))
          [] m.top # NULL /\ append # {} -> FromTop(init_top(extended, m.top, m.topsize + g.tsize))
          [] m.top # NULL /\ append = {} /\ before # {} ->
                 prepend_alloc([m EXCEPT !.segs[i].base = g.tbase, !.segs[i].size = @ + g.tsize],
                               g.tbase, m.segs[i].base, nb)
          [] OTHER -> FromTop(add_segment(m, g.tbase, g.tsize, g.flag))

UseIfAny(g, nb) ==
    IF g.tbase = NULL THEN Returns(g.m, NULL) ELSE UseMemory(Grow(g.m, g.tsize), nb, g)

(* A large request is mapped directly, if that works. *)
SegmentUnlessMapped(m, nb, os, mapped) ==
    IF mapped.p # NULL THEN mapped
    ELSE IF WithinLimit(m, granularity_align(nb + SYS_ALLOC_PADDING)) THEN UseIfAny(GetMemory(m, nb, os), nb)
    ELSE Returns(m, NULL)

sys_alloc(m, nb, os) ==
    SegmentUnlessMapped(m, nb, os, IF m.use_mmap /\ nb >= MmapThreshold /\ m.topsize # 0
                                   THEN mmap_alloc(m, nb, os) ELSE Returns(m, NULL))

(* A small request tries its own bin, dv, a larger smallbin and the trees, in this order; *)
(* a large one the trees and dv; both then top, and then the system.                      *)
dlmalloc(m, nb, os) ==
    LET larger == {s \in smallmap(m) : s > nb}
    IN  CASE is_small(nb) /\ nb \in smallmap(m)                    -> UseSmallBin(m, nb, nb)
          [] is_small(nb) /\ nb \notin smallmap(m) /\ nb > m.dvsize /\ larger # {}
                                                                   -> UseSmallBin(m, Min(larger), nb)
          [] is_small(nb) /\ nb \notin smallmap(m) /\ nb > m.dvsize /\ larger = {}
                /\ treemap(m) # {}                                 -> tmalloc_small(m, nb)
          [] ~is_small(nb) /\ UseTree(m, nb)                       -> tmalloc_large(m, nb)
          [] OTHER -> IF nb <= m.dvsize THEN UseDv(m, nb)
                      ELSE IF nb < m.topsize THEN UseTop(m, nb)
                      ELSE sys_alloc(m, nb, os)

----------------------------------------------------------------------------
(* Memory that goes back. *)

Forget(m, base, n) ==
    [m EXCEPT !.head = Fill(@, base, base + n - 1), !.foot = Fill(@, base, base + n - 1)]

(* mutant: a segment whose first chunk is free is taken to be unused *)
IsUnusedAtFront(m, sp) == sp.flag = "mmap" /\ ~cinuse(m, sp.base) /\ m.head[sp.base].p

(* Segments, other than the current one, that are one free chunk. *)
IsUnused(m, sp) ==
    /\ sp.flag = "mmap"
    /\ ~cinuse(m, sp.base) /\ m.head[sp.base].p
    /\ chunksize(m, sp.base) >= sp.size - TOP_FOOT_SIZE

ReleaseSegment(m, sp, os) ==
    LET unlinked == IF sp.base = m.dv THEN set_dv(m, NULL, 0)
                    ELSE unlink_chunk(m, sp.base, chunksize(m, sp.base))
    IN  IF os.unmap
        THEN [Forget(unlinked, sp.base, sp.size) EXCEPT
                 !.footprint = @ - sp.size, !.segs = SelectSeq(@, LAMBDA x : x # sp)]
        ELSE insert_large_chunk(unlinked, sp.base, chunksize(m, sp.base))

release_unused_segments(m, os) ==
    LET released == FoldLeft(LAMBDA x, sp : IF IsUnused(x, sp) THEN ReleaseSegment(x, sp, os) ELSE x,
                             m, Tail(m.segs))
        nsegs == Len(m.segs) - 1
    IN  [released EXCEPT !.release_checks = IF nsegs > ReleaseRate THEN nsegs ELSE ReleaseRate]

(* The part of top that sys_trim gives back, in units of Granularity, keeping one. *)
TrimExtra(m, pad) ==
    ((m.topsize - pad + Granularity - 1) \div Granularity - 1) * Granularity

CanTrim(m, sp, extra, os) ==
    CASE sp.flag = "mmap" -> sp.size >= extra /\ ~has_segment_link(m, sp) /\ os.unmap
      [] sp.flag = "sbrk" -> m.brk = sp.base + sp.size /\ os.unmap
      [] OTHER            -> FALSE

ShrinkTop(m, i, extra) ==
    LET sp == m.segs[i]
        shrunk == [Forget(m, sp.base + sp.size - extra, extra) EXCEPT
                      !.segs[i].size = @ - extra,
                      !.footprint = @ - extra,
                      !.brk = IF sp.flag = "sbrk" THEN @ - extra ELSE @]
    IN  init_top(shrunk, m.top, m.topsize - extra)

TrimTop(m, i, extra, os) ==
    IF extra > 0 /\ CanTrim(m, m.segs[i], extra, os) THEN ShrinkTop(m, i, extra) ELSE m

TrimBy(m, pad, os) ==
    IF m.topsize > pad THEN TrimTop(m, segment_holding(m, m.top), TrimExtra(m, pad), os) ELSE m

(* Nothing was released: do not try again. *)
StopTrimming(m, released) ==
    IF released.footprint = m.footprint /\ released.topsize > released.trim_check
    THEN [released EXCEPT !.trim_check = MAX_SIZE_T] ELSE released

sys_trim(m, pad, os) ==
    IF m.top = NULL THEN m
    ELSE StopTrimming(m, release_unused_segments(TrimBy(m, pad + TOP_FOOT_SIZE, os), os))

should_trim(m) == m.topsize > m.trim_check
=============================================================================
