---------------------------- MODULE DlHeap ----------------------------
(***************************************************************************)
(* malloc.c: the structures of one malloc_state m (the global gm or an     *)
(* mspace) and the routines that carve, join and list chunks.              *)
(*                                                                         *)
(* Addresses and sizes are in units of MALLOC_ALIGNMENT, for a 64-bit      *)
(* build without FOOTERS: MIN_CHUNK_SIZE, TOP_FOOT_SIZE and the paddings   *)
(* have their real values, a request is the padded size nb of its chunk.   *)
(* The routines are functions on the record m; a routine that allocates    *)
(* returns [m, p], p = NULL for failure.  The bit maps and the trees of    *)
(* the treebins are abstracted to the list of the chunks of each size, in  *)
(* the order in which the code takes them.                                 *)
(***************************************************************************)
EXTENDS Integers, Sequences, FiniteSets, FiniteSetsExt, SequencesExt, Functions

CONSTANTS
    Granularity,    \* mparams.granularity and page_size
    MinLargeSize,   \* MIN_LARGE_SIZE: smaller chunks are kept in smallbins
    MStateSize      \* pad_request(sizeof(struct malloc_state))

NULL == -1

MIN_CHUNK_SIZE == 2
SegmentSize == 3                               \* pad_request(sizeof(struct malloc_segment))
TOP_FOOT_SIZE == SegmentSize + MIN_CHUNK_SIZE
SYS_ALLOC_PADDING == TOP_FOOT_SIZE + 1
MMAP_FOOT_PAD == 2

granularity_align(n) == ((n + Granularity - 1) \div Granularity) * Granularity

is_small(s) == s < MinLargeSize

Returns(m, p) == [m |-> m, p |-> p]

----------------------------------------------------------------------------
(* Heads and feet.  m.head[p] is the head of the chunk at p, m.foot[p] its prev_foot   *)
(* where the chunk before it is free; what becomes the inside of a chunk is forgotten, *)
(* and the foot of a chunk that is in use belongs to its user.                         *)

Fill(f, lo, hi) == Restrict(f, DOMAIN f \ (lo..hi))

NoHead == [size |-> 0, c |-> FALSE, p |-> FALSE]

HeadOf(m, p) == IF p \in DOMAIN m.head THEN m.head[p] ELSE NoHead

With(f, x, v) == [y \in DOMAIN f \union {x} |-> IF y = x THEN v ELSE f[y]]

set_head(m, p, s, c, pinuse) ==
    [m EXCEPT !.head = With(Fill(@, p + 1, p + s - 1), p, [size |-> s, c |-> c, p |-> pinuse]),
              !.foot = Fill(@, p + 1, IF c THEN p + s ELSE p + s - 1)]

set_pinuse(m, p, b) == [m EXCEPT !.head = With(@, p, [HeadOf(m, p) EXCEPT !.p = b])]

set_inuse(m, p, s) == set_pinuse(set_head(m, p, s, TRUE, HeadOf(m, p).p), p + s, TRUE)

set_inuse_and_pinuse(m, p, s) == set_pinuse(set_head(m, p, s, TRUE, TRUE), p + s, TRUE)

set_size_and_pinuse_of_inuse_chunk(m, p, s) == set_head(m, p, s, TRUE, TRUE)

set_size_and_pinuse_of_free_chunk(m, p, s) ==
    [set_head(m, p, s, FALSE, TRUE) EXCEPT !.foot = With(@, p + s, s)]

set_free_with_pinuse(m, p, s, n) ==
    set_size_and_pinuse_of_free_chunk(set_pinuse(m, n, FALSE), p, s)

chunksize(m, p) == m.head[p].size

cinuse(m, p) == m.head[p].c

is_mmapped(m, p) == p \in DOMAIN m.mapped

----------------------------------------------------------------------------
(* Bins.  A smallbin is used last in, first out; among equals a tree gives first the *)
(* chunk that is its node and then the one that has been longest in its ring.        *)

insert_small_chunk(m, p, s) ==
    [m EXCEPT !.bin = With(@, s, <<p>> \o (IF s \in DOMAIN m.bin THEN m.bin[s] ELSE <<>>))]

insert_large_chunk(m, p, s) ==
    [m EXCEPT !.bin = With(@, s, (IF s \in DOMAIN m.bin THEN m.bin[s] ELSE <<>>) \o <<p>>)]

insert_chunk(m, p, s) ==
    IF is_small(s) THEN insert_small_chunk(m, p, s) ELSE insert_large_chunk(m, p, s)

unlink_chunk(m, p, s) ==
    LET rest == SelectSeq(m.bin[s], LAMBDA x : x # p)
    IN  [m EXCEPT !.bin = IF rest = <<>> THEN Restrict(@, DOMAIN @ \ {s}) ELSE With(@, s, rest)]

smallmap(m) == {s \in DOMAIN m.bin : is_small(s)}

treemap(m) == {s \in DOMAIN m.bin : ~is_small(s)}

set_dv(m, p, s) == [m EXCEPT !.dv = p, !.dvsize = s]

replace_dv(m, p, s) ==
    set_dv(IF m.dvsize # 0 THEN insert_small_chunk(m, m.dv, m.dvsize) ELSE m, p, s)

set_top(m, p, s) == set_head([m EXCEPT !.top = p, !.topsize = s], p, s, FALSE, TRUE)

(* The fake chunk behind top holds TOP_FOOT_SIZE and is never in use. *)
init_top(m, p, s) ==
    set_head([set_top(m, p, s) EXCEPT !.trim_check = m.trim_threshold],
             p + s, TOP_FOOT_SIZE, FALSE, FALSE)

segment_holds(sp, a) == a >= sp.base /\ a < sp.base + sp.size

segment_holding(m, a) == CHOOSE i \in DOMAIN m.segs : segment_holds(m.segs[i], a)

(* A record of a segment, or the malloc_state, lies inside sp. *)
has_segment_link(m, sp) == \E i \in DOMAIN m.segs : segment_holds(sp, m.segs[i].rec)

----------------------------------------------------------------------------
(* Allocation from the free chunks. *)

(* Cut nb off chunk p of size s, which is in no bin; Keep is what happens to the rest. *)
Split(m, p, s, nb, Keep(_, _, _)) ==
    IF s - nb < MIN_CHUNK_SIZE
    THEN Returns(set_inuse_and_pinuse(m, p, s), p)
    ELSE LET cut == set_size_and_pinuse_of_inuse_chunk(m, p, nb)
             rest == set_size_and_pinuse_of_free_chunk(cut, p + nb, s - nb)
         IN  Returns(Keep(rest, p + nb, s - nb), p)

unlink_first_small_chunk(m, s) == unlink_chunk(m, m.bin[s][1], s)

(* The smallest chunk of a treebin, for a small request: the rest is the new dv. *)
tmalloc_small(m, nb) ==
    LET s == Min(treemap(m))
        v == m.bin[s][1]
    IN  Split(unlink_chunk(m, v, s), v, s, nb, replace_dv)

(* The best fit of the treebins, unless dv fits better: the rest goes to a bin. *)
BestFit(m, nb) == {s \in treemap(m) : s >= nb}

DvFitsBetter(m, nb, s) == m.dvsize >= nb /\ s - nb >= m.dvsize - nb

UseTree(m, nb) == BestFit(m, nb) # {} /\ ~DvFitsBetter(m, nb, Min(BestFit(m, nb)))

tmalloc_large(m, nb) ==
    LET s == Min(BestFit(m, nb))
        v == m.bin[s][1]
    IN  Split(unlink_chunk(m, v, s), v, s, nb, insert_chunk)

(* The rest of a small chunk becomes dv, too. *)
UseSmallBin(m, s, nb) ==
    LET p == m.bin[s][1]
    IN  Split(unlink_first_small_chunk(m, s), p, s, nb, replace_dv)

UseDv(m, nb) == Split(set_dv(m, NULL, 0), m.dv, m.dvsize, nb, set_dv)

UseTop(m, nb) ==
    LET p == m.top
    IN  Returns(set_size_and_pinuse_of_inuse_chunk(set_top(m, p + nb, m.topsize - nb), p, nb), p)

----------------------------------------------------------------------------
(* Joining.  free and dispose_chunk join a chunk with its free neighbours; After is *)
(* what free does besides: [top |-> trim, bin |-> release].                          *)

(* mutant: a chunk is not joined with a free chunk before it *)
JoinBackwardNot(m, p, s) == [m |-> m, p |-> p, s |-> s, done |-> FALSE]

JoinBackward(m, p, s) ==
    LET prevsize == m.foot[p]
        prev == p - prevsize
        next == m.head[p + s]
    IN  CASE m.head[p].p -> [m |-> m, p |-> p, s |-> s, done |-> FALSE]
          [] ~m.head[p].p /\ prev # m.dv ->
                 [m |-> unlink_chunk(m, prev, prevsize), p |-> prev, s |-> s + prevsize,
                  done |-> FALSE]
          [] ~m.head[p].p /\ prev = m.dv ->
                 IF next.c /\ next.p
                 THEN [m |-> set_free_with_pinuse([m EXCEPT !.dvsize = s + prevsize], prev,
                                                  s + prevsize, p + s),
                       p |-> prev, s |-> s + prevsize, done |-> TRUE]
                 ELSE [m |-> m, p |-> prev, s |-> s + prevsize, done |-> FALSE]

(* The chunk at p, of size s, is not in use any more and is joined with the one behind. *)
JoinForward(m, p, s) ==
    LET next == p + s
        nsize == chunksize(m, next)
        joined == set_size_and_pinuse_of_free_chunk(unlink_chunk(m, next, nsize), p, s + nsize)
    IN  CASE next = m.top ->
                 [m |-> set_top(IF p = m.dv THEN set_dv(m, NULL, 0) ELSE m, p, s + m.topsize),
                  end |-> "top"]
          [] next # m.top /\ next = m.dv ->
                 [m |-> set_dv(set_size_and_pinuse_of_free_chunk(m, p, s + m.dvsize), p, s + m.dvsize),
                  end |-> "dv"]
          [] next \notin {m.top, m.dv} /\ ~cinuse(m, next) ->
                 IF p = m.dv THEN [m |-> [joined EXCEPT !.dvsize = s + nsize], end |-> "dv"]
                 ELSE [m |-> insert_chunk(joined, p, s + nsize),
                       end |-> IF is_small(s + nsize) THEN "small" ELSE "large"]
          [] OTHER ->
                 [m |-> insert_chunk(set_free_with_pinuse(m, p, s, next), p, s),
                  end |-> IF is_small(s) THEN "small" ELSE "large"]

ThenForward(b) == IF b.done THEN [m |-> b.m, end |-> "dv"] ELSE JoinForward(b.m, b.p, b.s)

Consolidate(m, p, s) == ThenForward(JoinBackward(m, p, s))

dispose_chunk(m, p, s) == Consolidate(m, p, s).m

(* Keep nb of the chunk at p and dispose of the rest. *)
Shrink(m, p, nb) ==
    LET rest == chunksize(m, p) - nb
    IN  dispose_chunk(set_inuse(set_inuse(m, p, nb), p + nb, rest), p + nb, rest)
=============================================================================
