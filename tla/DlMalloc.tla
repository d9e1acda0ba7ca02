---------------------------- MODULE DlMalloc ----------------------------
(***************************************************************************)
(* malloc.c: the public routines on one malloc_state, the global one or an *)
(* mspace, called by a program that frees only what it was given.  A       *)
(* routine holds the lock of m while it runs and is one step;              *)
(* independent_calloc and independent_comalloc take it twice, and          *)
(* change the mmap flag without it: they are three steps.                  *)
(***************************************************************************)
EXTENDS DlSystem

CONSTANTS
    Threads,         \* threads of the program
    Sizes,           \* padded sizes of requests, in units
    Alignments,      \* alignments for memalign, powers of two, in units
    Bulks,           \* lists of sizes for independent_comalloc
    Limits,          \* arguments of set_footprint_limit, MAX_SIZE_T for none
    TrimThreshold,   \* mparams.trim_threshold
    Capacities,      \* arguments of create_mspace
    OsAnswers,       \* the answers of the system that may happen
    MaxLive,         \* bound: blocks in use
    MaxForeign,      \* bound: regions in other hands
    MaxCalls         \* bound: calls of the program

ASSUME DlAssumption ==
    /\ Granularity \in Nat \ {0} /\ Space \in Nat /\ Space % Granularity = 0
    /\ OsAnswers \subseteq Answers
    /\ \A s \in Sizes : s >= MIN_CHUNK_SIZE

VARIABLES
    kind,   \* "gm" the global space, "mspace" one made by create_mspace, "none"
    m,      \* the malloc_state
    live,   \* blocks the program holds: chunk -> padded size it asked for
    ia,     \* per thread: where it is in ialloc
    calls   \* calls so far

vars == <<kind, m, live, ia, calls>>

Idle == [at |-> "idle"]

(* What gm is before the first call; an mspace starts from it as well. *)
ZeroState ==
    [head |-> <<>>, foot |-> <<>>, bin |-> <<>>, dv |-> NULL, dvsize |-> 0, top |-> NULL,
     topsize |-> 0, trim_check |-> 0, trim_threshold |-> TrimThreshold, segs |-> <<>>,
     self |-> NULL, mapped |-> <<>>, foreign |-> {}, lost |-> 0, brk |-> 0, contiguous |-> TRUE,
     use_mmap |-> TRUE, footprint |-> 0, max_footprint |-> 0, footprint_limit |-> 0,
     release_checks |-> 0]

Init ==
    /\ kind \in {"gm", "none"}
    /\ m = ZeroState
    /\ live = <<>>
    /\ ia = [t \in Threads |-> Idle]
    /\ calls = 0

----------------------------------------------------------------------------
(* Spaces. *)

(* The malloc_state is the first chunk of its own first segment. *)
init_user_mstate(x, tbase, tsize, flag) ==
    LET fresh == [ZeroState EXCEPT
                     !.segs = <<Segment(tbase, tsize, flag, tbase)>>, !.self = tbase,
                     !.footprint = tsize, !.max_footprint = tsize, !.contiguous = FALSE,
                     !.release_checks = ReleaseRate, !.foreign = x.foreign, !.brk = x.brk]
        mn == tbase + MStateSize
    IN  init_top(set_size_and_pinuse_of_inuse_chunk(fresh, tbase, MStateSize), mn,
                 tsize - MStateSize - TOP_FOOT_SIZE)

create_mspace ==
    \E capacity \in Capacities, os \in OsAnswers :
        LET tsize == granularity_align(IF capacity = 0 THEN Granularity
                                       ELSE capacity + TOP_FOOT_SIZE + MStateSize)
        IN  /\ kind = "none"
            /\ IsVacant(m, os.base, tsize)
            /\ m' = init_user_mstate(m, os.base, tsize, "mmap")
            /\ kind' = "mspace"
            /\ UNCHANGED <<live, ia>>

(* The base is memory of the program. *)
create_mspace_with_base ==
    \E capacity \in Capacities, os \in OsAnswers :
        /\ kind = "none"
        /\ capacity > MStateSize + TOP_FOOT_SIZE
        /\ IsVacant(m, os.base, capacity)
        /\ m' = init_user_mstate(m, os.base, capacity, "ext")
        /\ kind' = "mspace"
        /\ UNCHANGED <<live, ia>>

(* Segments that were mapped go back if MUNMAP works; the rest is nobody's. *)
destroy_mspace ==
    \E os \in OsAnswers :
        LET freed == {<<m.segs[i].base, m.segs[i].size>> :
                         i \in {j \in DOMAIN m.segs : os.unmap /\ m.segs[j].flag = "mmap"}}
            external == {<<m.segs[i].base, m.segs[i].size>> :
                         i \in {j \in DOMAIN m.segs : m.segs[j].flag = "ext"}}
        IN  /\ kind = "mspace"
            /\ \A t \in Threads : ia[t] = Idle
            /\ m' = [ZeroState EXCEPT !.foreign = Regions(m) \ (freed \union external), !.brk = m.brk]
            /\ live' = <<>>
            /\ kind' = "none"
            /\ UNCHANGED ia

----------------------------------------------------------------------------
(* What the routines do to m. *)

CountRelease(x) == [x EXCEPT !.release_checks = @ - 1]

ReleaseIfDue(x, os) == IF x.release_checks = 0 THEN release_unused_segments(x, os) ELSE x

TrimIfDue(x, os) == IF should_trim(x) THEN sys_trim(x, 0, os) ELSE x

AfterFree(c, os) ==
    CASE c.end = "top"   -> TrimIfDue(c.m, os)
      [] c.end = "large" -> ReleaseIfDue(CountRelease(c.m), os)
      [] OTHER           -> c.m

internal_free(x, p, os) ==
    IF is_mmapped(x, p) THEN UnmapChunk(x, p, os) ELSE AfterFree(Consolidate(x, p, chunksize(x, p)), os)

(* Make the chunk at p, grown by the free chunk behind it of size s, nb long. *)
GrowInto(x, p, nb, s) ==
    LET size == chunksize(x, p) + s
    IN  IF size - nb < MIN_CHUNK_SIZE THEN set_inuse(x, p, size)
        ELSE Shrink(set_inuse(x, p, size), p, nb)

GrowIntoDv(x, p, nb) ==
    LET size == chunksize(x, p) + x.dvsize
        dsize == size - nb
    IN  IF dsize < MIN_CHUNK_SIZE THEN set_dv(set_inuse(x, p, size), NULL, 0)
        ELSE set_dv(set_free_with_pinuse(set_inuse(x, p, nb), p + nb, dsize, p + size), p + nb, dsize)

GrowIntoTop(x, p, nb) ==
    set_top(set_inuse(x, p, nb), p + nb, chunksize(x, p) + x.topsize - nb)

try_realloc_chunk(x, p, nb, can_move, os) ==
    LET oldsize == chunksize(x, p)
        next == p + oldsize
        nextsize == chunksize(x, next)
        Result(possible, y) == IF possible THEN Returns(y, p) ELSE Returns(x, NULL)
    IN  CASE is_mmapped(x, p) -> mmap_resize(x, p, nb, can_move, os)
          [] ~is_mmapped(x, p) /\ oldsize >= nb ->
                 Returns(IF oldsize - nb >= MIN_CHUNK_SIZE THEN Shrink(x, p, nb) ELSE x, p)
          [] ~is_mmapped(x, p) /\ oldsize < nb /\ next = x.top ->
                 Result(oldsize + x.topsize > nb, GrowIntoTop(x, p, nb))
          [] ~is_mmapped(x, p) /\ oldsize < nb /\ next # x.top /\ next = x.dv ->
                 Result(oldsize + x.dvsize >= nb, GrowIntoDv(x, p, nb))
          [] OTHER -> Result(~cinuse(x, next) /\ oldsize + nextsize >= nb,
                             GrowInto(unlink_chunk(x, next, nextsize), p, nb, nextsize))

(* realloc that cannot extend the block allocates, copies and frees. *)
FreeOld(r, p, os) == IF r.p = NULL THEN r ELSE Returns(internal_free(r.m, p, os), r.p)

MoveUnlessDone(x, tried, p, nb, os) ==
    IF tried.p # NULL THEN tried ELSE FreeOld(dlmalloc(x, nb, os), p, os)

dlrealloc(x, p, nb, os) == MoveUnlessDone(x, try_realloc_chunk(x, p, nb, TRUE, os), p, nb, os)

(* mem, at p + 1, is to be a multiple of alignment: the chunk before the aligned spot goes *)
(* back, and so does what is left behind the block.                                        *)
AlignedSpot(p, alignment) ==
    LET br == ((p + alignment) \div alignment) * alignment - 1
    IN  IF br - p >= MIN_CHUNK_SIZE THEN br ELSE br + alignment

GiveBackLeader(x, p, pos) ==
    LET lead == pos - p
    IN  IF is_mmapped(x, p)
        THEN [x EXCEPT !.mapped = With(Unmap(x, p).mapped, pos,
                                       [offset |-> x.mapped[p].offset + lead, size |-> x.mapped[p].size - lead])]
        ELSE dispose_chunk(set_inuse(set_inuse(x, pos, chunksize(x, p) - lead), p, lead), p, lead)

GiveBackTrailer(x, p, nb) ==
    IF ~is_mmapped(x, p) /\ chunksize(x, p) > nb + MIN_CHUNK_SIZE THEN Shrink(x, p, nb) ELSE x

CutOut(r, pos, nb) ==
    Returns(GiveBackTrailer(IF pos = r.p THEN r.m ELSE GiveBackLeader(r.m, r.p, pos), pos, nb), pos)

Align(r, alignment, nb) ==
    IF r.p = NULL THEN r
    ELSE CutOut(r, IF (r.p + 1) % alignment = 0 THEN r.p ELSE AlignedSpot(r.p, alignment), nb)

internal_memalign(x, alignment, nb, os) ==
    Align(dlmalloc(x, nb + alignment + MIN_CHUNK_SIZE, os), alignment, nb)

(* Two neighbours that are freed one after the other are joined first. *)
DisposeAll(x, ps, os) ==
    FoldLeft(LAMBDA acc, p :
                 LET start == IF acc.joined = NULL THEN p ELSE acc.joined
                     size == chunksize(acc.m, start)
                     i == CHOOSE j \in DOMAIN ps : ps[j] = p
                     next == start + size
                 IN  IF is_mmapped(acc.m, start) THEN [m |-> UnmapChunk(acc.m, start, os), joined |-> NULL]
                     ELSE IF i < Len(ps) /\ ps[i + 1] = next
                     THEN [m |-> set_inuse(acc.m, start, size + chunksize(acc.m, next)), joined |-> start]
                     ELSE [m |-> dispose_chunk(acc.m, start, size), joined |-> NULL],
             [m |-> x, joined |-> NULL], ps).m

internal_bulk_free(x, ps, os) == TrimIfDue(DisposeAll(x, ps, os), os)

----------------------------------------------------------------------------
(* The calls of a program.  live follows what it was given. *)

Ready(t) == kind # "none" /\ ia[t] = Idle

Drop(f, ps) == Restrict(f, DOMAIN f \ ps)

MayHold(n) == Cardinality(DOMAIN live) + n <= MaxLive

(* The program gives up the blocks in old and, unless the call fails, gets one for nb. *)
Give(r, old, nb) ==
    /\ m' = r.m
    /\ live' = IF r.p = NULL THEN live ELSE With(Drop(live, old), r.p, nb)
    /\ UNCHANGED <<kind, ia>>

malloc(t) ==
    \E nb \in Sizes, os \in OsAnswers :
        Ready(t) /\ MayHold(1) /\ Give(dlmalloc(m, nb, os), {}, nb)

free(t) ==
    \E p \in DOMAIN live, os \in OsAnswers :
        /\ Ready(t)
        /\ m' = internal_free(m, p, os)
        /\ live' = Drop(live, {p})
        /\ UNCHANGED <<kind, ia>>

realloc(t) ==
    \E p \in DOMAIN live, nb \in Sizes, os \in OsAnswers :
        Ready(t) /\ Give(dlrealloc(m, p, nb, os), {p}, nb)

realloc_in_place(t) ==
    \E p \in DOMAIN live, nb \in Sizes, os \in OsAnswers :
        Ready(t) /\ Give(try_realloc_chunk(m, p, nb, FALSE, os), {}, nb)

memalign(t) ==
    \E nb \in Sizes, alignment \in Alignments, os \in OsAnswers :
        Ready(t) /\ MayHold(1) /\ Give(internal_memalign(m, alignment, nb, os), {}, nb)

bulk_free(t) ==
    \E p, q \in DOMAIN live, os \in OsAnswers :
        /\ Ready(t)
        /\ p # q
        /\ m' = internal_bulk_free(m, <<p, q>>, os)
        /\ live' = Drop(live, {p, q})
        /\ UNCHANGED <<kind, ia>>

(* ialloc: switch direct mapping off, without the lock; allocate everything at once; cut. *)
ArraySize(bulk) == IF Len(bulk) < 4 THEN 2 ELSE (Len(bulk) + 2) \div 2

Contents(bulk) == FoldLeft(LAMBDA a, s : a + s, 0, bulk)

ialloc(t) ==
    \E bulk \in Bulks :
        /\ Ready(t) /\ MayHold(Len(bulk) + 1)
        /\ ia' = [ia EXCEPT ![t] = [at |-> "malloc", bulk |-> bulk, was_enabled |-> m.use_mmap]]
        /\ m' = [m EXCEPT !.use_mmap = FALSE]
        /\ UNCHANGED <<kind, live>>

EnableAgain(t, r) ==
    /\ m' = [r.m EXCEPT !.use_mmap = @ \/ ia[t].was_enabled]
    /\ ia' = [ia EXCEPT ![t] = IF r.p = NULL THEN Idle ELSE [at |-> "split", bulk |-> @.bulk, p |-> r.p]]
    /\ UNCHANGED <<kind, live>>

ialloc_malloc(t) ==
    \E os \in OsAnswers :
        /\ ia[t].at = "malloc"
        /\ EnableAgain(t, dlmalloc(m, Contents(ia[t].bulk) + ArraySize(ia[t].bulk), os))

(* The pointer array, behind the elements, gets what is left over. *)
Elements(p, bulk) ==
    LET all == Append(bulk, ArraySize(bulk))
        Place(i) == p + Contents(SubSeq(bulk, 1, i - 1))
    IN  [q \in {Place(i) : i \in DOMAIN all} |-> all[CHOOSE i \in DOMAIN all : Place(i) = q]]

SplitElements(x, p, bulk) ==
    LET c == p + Contents(bulk)
        withArray == set_size_and_pinuse_of_inuse_chunk(x, c, chunksize(x, p) - Contents(bulk))
    IN  FoldSet(LAMBDA q, y : set_size_and_pinuse_of_inuse_chunk(y, q, Elements(p, bulk)[q]),
                withArray, DOMAIN Elements(p, bulk) \ {c})

ialloc_split(t) ==
    /\ ia[t].at = "split"
    /\ ~is_mmapped(m, ia[t].p)
    /\ m' = SplitElements(m, ia[t].p, ia[t].bulk)
    /\ live' = live @@ Elements(ia[t].p, ia[t].bulk)
    /\ ia' = [ia EXCEPT ![t] = Idle]
    /\ UNCHANGED kind

malloc_trim(t) ==
    \E pad \in {0, Granularity}, os \in OsAnswers :
        /\ Ready(t)
        /\ m' = sys_trim(m, pad, os)
        /\ UNCHANGED <<kind, live, ia>>

set_footprint_limit(t) ==
    \E bytes \in Limits :
        /\ Ready(t)
        /\ m' = [m EXCEPT !.footprint_limit = IF bytes = MAX_SIZE_T THEN 0 ELSE granularity_align(bytes)]
        /\ UNCHANGED <<kind, live, ia>>

(* The name is that of the flag off: large chunks are then part of the segments. *)
mspace_track_large_chunks(t) ==
    \E enable \in BOOLEAN :
        /\ Ready(t) /\ kind = "mspace"
        /\ m' = [m EXCEPT !.use_mmap = ~enable]
        /\ UNCHANGED <<kind, live, ia>>

(* Another user of sbrk in the process moves the break. *)
ForeignSbrk ==
    /\ Cardinality(m.foreign) < MaxForeign
    /\ IsVacant(m, m.brk, Granularity)
    /\ m' = [m EXCEPT !.foreign = @ \union {<<m.brk, Granularity>>}, !.brk = @ + Granularity]
    /\ UNCHANGED <<kind, live, ia>>

Counted == calls < MaxCalls /\ calls' = calls + 1

Next ==
    \/ Counted /\ create_mspace
    \/ Counted /\ create_mspace_with_base
    \/ Counted /\ destroy_mspace
    \/ Counted /\ ForeignSbrk
    \/ \E t \in Threads :
          \/ Counted /\ malloc(t)
          \/ Counted /\ free(t)
          \/ Counted /\ realloc(t)
          \/ Counted /\ realloc_in_place(t)
          \/ Counted /\ memalign(t)
          \/ Counted /\ bulk_free(t)
          \/ Counted /\ ialloc(t)
          \/ Counted /\ ialloc_malloc(t)
          \/ Counted /\ ialloc_split(t)
          \/ Counted /\ malloc_trim(t)
          \/ Counted /\ set_footprint_limit(t)
          \/ Counted /\ mspace_track_large_chunks(t)

Spec == Init /\ [][Next]_vars

----------------------------------------------------------------------------
(* Properties. *)

ChunksOf(sp) == {p \in DOMAIN m.head : segment_holds(sp, p)}

FakeChunks == IF m.top = NULL THEN {} ELSE {m.top + m.topsize}

IsFree(p) == ~cinuse(m, p) /\ p \notin FakeChunks \union {m.top}

Records == {m.segs[i].rec : i \in DOMAIN m.segs} \ {NULL}

Fences == {p + SegmentSize : p \in Records \ {m.self}}

(* Walking a segment from its base, chunk by chunk, ends at its end and meets every head:   *)
(* no routine leaves a hole, an overlap or a head of a chunk that has been swallowed.  Each *)
(* head knows whether the chunk before it is in use, the foot of a free chunk has its size, *)
(* no two free chunks are neighbours, and top reaches to the end of its segment             *)
(* (traverse_and_check, do_check_top_chunk, do_check_inuse_chunk, do_check_free_chunk).     *)
ChunksTile ==
    /\ DOMAIN m.head = UNION {ChunksOf(m.segs[i]) : i \in DOMAIN m.segs}
    /\ \A i \in DOMAIN m.segs :
          LET sp == m.segs[i]
              end == sp.base + sp.size
          IN  /\ sp.base \in DOMAIN m.head /\ m.head[sp.base].p
              /\ segment_holds(sp, m.top) => m.topsize = end - m.top - TOP_FOOT_SIZE
              /\ \A p \in ChunksOf(sp) :
                    LET next == p + chunksize(m, p)
                    IN  /\ next > p
                        /\ next # end => /\ next \in ChunksOf(sp)
                                         /\ m.head[next].p = cinuse(m, p)
                        /\ IsFree(p) => /\ m.foot[next] = chunksize(m, p)
                                        /\ m.head[p].p /\ cinuse(m, next)

(* Every free chunk can be found again: it is dv, or it is once in the bin of its size;   *)
(* and what the bins and dv hold is free (bin_find, do_check_smallbin, do_check_treebin). *)
FreeChunksListed ==
    /\ m.dv # NULL => m.dv \in DOMAIN m.head /\ IsFree(m.dv) /\ chunksize(m, m.dv) = m.dvsize
    /\ m.dv = NULL => m.dvsize = 0
    /\ \A s \in DOMAIN m.bin :
          /\ IsInjective(m.bin[s])
          /\ \A p \in Range(m.bin[s]) :
                p \in DOMAIN m.head /\ IsFree(p) /\ chunksize(m, p) = s /\ p # m.dv
    /\ \A p \in DOMAIN m.head :
          IsFree(p) => p = m.dv \/ (chunksize(m, p) \in DOMAIN m.bin /\ p \in Range(m.bin[chunksize(m, p)]))

(* What do_check_malloc_state checks: the chunks tile the segments and the free ones can  *)
(* be found.                                                                              *)
HeapConsistent == ChunksTile /\ FreeChunksListed

(* A block that the program holds stays a chunk in use, at least as large as it asked for, *)
(* whatever else is allocated, moved, cut, trimmed or released; and every chunk in use is  *)
(* such a block, a record of the allocator or an aggregate that ialloc is about to cut:    *)
(* nothing leaks.                                                                          *)
BlocksKept ==
    LET pending == {ia[t].p : t \in {u \in Threads : ia[u].at = "split"}}
        inuse == {p \in DOMAIN m.head : cinuse(m, p)}
    IN  /\ inuse \union DOMAIN m.mapped = DOMAIN live \union pending \union Records \union Fences
        /\ \A p \in DOMAIN live :
              live[p] <= (IF is_mmapped(m, p) THEN m.mapped[p].size - 1 ELSE chunksize(m, p))
        /\ (DOMAIN live \union pending) \intersect (Records \union Fences) = {}

RegionSize(r) == r[2]

(* What the space counts as its footprint is what it has from the system: its segments,   *)
(* its mapped chunks and the regions that MUNMAP refused to take back.  The regions never *)
(* overlap, and the record of a segment lies in that segment, so that it can be read when *)
(* the segment is given back (release_unused_segments asserts it).                        *)
FootprintExact ==
    LET own == Regions(m) \ m.foreign
    IN  /\ m.footprint = FoldSet(LAMBDA r, a : a + RegionSize(r), 0, own) + m.lost
        /\ m.footprint <= m.max_footprint
        /\ \A r, q \in Regions(m) : r # q => Disjoint(r, q)
        /\ \A i \in DOMAIN m.segs \ {1} : segment_holds(m.segs[i], m.segs[i].rec)

(* "If the argument is less than or equal to the current malloc_footprint, then all future *)
(* allocations that require additional system memory will fail" (the comment on            *)
(* malloc_set_footprint_limit).                                                            *)
LimitHolds ==
    [][m'.footprint > m.footprint /\ kind' = kind =>
           m'.footprint_limit = 0 \/ m'.footprint <= m'.footprint_limit]_vars

(* assert(!is_mmapped(p)) in ialloc: the aggregate that is about to be cut is part of a    *)
(* segment, because direct mapping was switched off for its allocation.                    *)
AggregateNotMapped ==
    \A t \in Threads : ia[t].at = "split" => ~is_mmapped(m, ia[t].p)
=============================================================================
