-------------------------------- MODULE Gaps --------------------------------
(***************************************************************************)
(* Ranges and lists of gaps: lib/ngtcp2_range.c, and the walk over a gap   *)
(* list that ngtcp2_gaptr_push (acknowledged bytes) and ngtcp2_rob_push    *)
(* (received bytes) have in common.                                        *)
(***************************************************************************)
EXTENDS Integers, Sequences, SequencesExt, FiniteSetsExt

range(b, e) == [begin |-> b, end |-> e]
range_len(r) == r.end - r.begin

range_intersect(a, b) ==
    LET begin == Max({a.begin, b.begin})
        end   == Min({a.end, b.end})
    IN  IF begin < end THEN range(begin, end) ELSE range(0, 0)

\* The parts of a left and right of b, which lies within a.
range_cut(a, b) ==
    LET part(r) == IF range_len(r) > 0 THEN << r >> ELSE << >>
    IN  part(range(a.begin, b.begin)) \o part(range(b.end, a.end))

range_not_after(a, b) == a.end <= b.end

\* Mutant of GapStep: the walk ends at the first gap the range touches.
GapStepOnce(q, acc, g) ==
    LET m    == range_intersect(q, g)
        rest == IF range_len(m) = 0 THEN << g >> ELSE range_cut(g, m)
    IN  IF acc.done THEN [acc EXCEPT !.gap = Append(@, g)]
        ELSE [gap |-> acc.gap \o rest, done |-> range_len(m) > 0]

\* One gap g of the walk with range q: the part of g within q goes, what is
\* left of it stays.  The walk ends behind the gap that reaches the end of q;
\* the gaps after it stay as they are.
GapStep(q, acc, g) ==
    LET m    == range_intersect(q, g)
        rest == IF range_len(m) = 0 THEN << g >> ELSE range_cut(g, m)
    IN  IF acc.done THEN [acc EXCEPT !.gap = Append(@, g)]
        ELSE [ gap  |-> acc.gap \o rest,
               done |-> rest # << >> /\ range_not_after(q, Last(rest)) ]

gaptr_init(infinity) == << range(0, infinity) >>

gaptr_push(gap, offset, len) ==
    FoldLeft(LAMBDA acc, g : GapStep(range(offset, offset + len), acc, g),
             [gap |-> << >>, done |-> FALSE], gap).gap

gaptr_first_gap_offset(gap) == gap[1].begin
=============================================================================
