------------------------------ MODULE Chunker ------------------------------
(***************************************************************************)
(* chunk_transcript of app/chunking.py: one call, one loop iteration per   *)
(* step.  A segment is its token count and the token counts of its words;  *)
(* the two are independent, because a tokenizer need not be additive.      *)
(*                                                                         *)
(* A piece is a run of words of one segment.  Windows and chunks are ranges*)
(* of pieces, and `upto` counts the tokens of the pieces before: the tokens*)
(* of a range are a difference, as n_tokens is a sum.                      *)
(***************************************************************************)
EXTENDS Integers, Sequences

CONSTANTS
    Transcripts,        \* the inputs: sequences of Segments
    MaxTokens,          \* max_tokens
    OverlapTokens       \* overlap_tokens

\* A segment: its tokens, and those of each of its words.
Segments == [size : Nat, words : Seq(Nat)]

\* The ValueError of chunk_transcript rules the other limits out.
ASSUME ChunkerAssumption ==
    /\ MaxTokens \in Nat \ {0}
    /\ OverlapTokens \in Nat
    /\ OverlapTokens < MaxTokens
    /\ Transcripts \subseteq Seq(Segments)

VARIABLES
    segments,   \* the transcript
    s,          \* the segment to prepare next
    cut,        \* words of segment s: piece begun at `from`, `next` to look at
    pieces,     \* prepared: [seg, from, to, upto]
    i,          \* the piece to pack next
    first,      \* the window is first..i-1
    load,       \* window_tokens
    chunks,     \* [first, last, size]
    done

vars == <<segments, s, cut, pieces, i, first, load, chunks, done>>
packing == <<i, first, load, chunks, done>>

Whole == [from |-> 1, next |-> 1, running |-> 0]

Init ==
    /\ segments \in Transcripts
    /\ s = 1
    /\ cut = Whole
    /\ pieces = <<>>
    /\ i = 1 /\ first = 1 /\ load = 0
    /\ chunks = <<>>
    /\ done = FALSE

\* Tokens of the first k pieces of p, and of the prepared pieces a..b.
Upto(p, k) == IF k = 0 THEN 0 ELSE p[k].upto
Tokens(a, b) == Upto(pieces, b) - Upto(pieces, a - 1)

WordSize(n) == IF n = 0 THEN 1 ELSE n

-----------------------------------------------------------------------------
(* _prepare and _split_oversized. *)

Piece(from, to, size) ==
    [seg |-> s, from |-> from, to |-> to, upto |-> Upto(pieces, Len(pieces)) + size]

NextSegment == s' = s + 1 /\ cut' = Whole

\* Mutated: the segment behind a blank one is passed over with it.
DropBlankAndNext ==
    /\ s <= Len(segments)
    /\ segments[s].words = <<>>
    /\ s' = s + 2 /\ cut' = Whole
    /\ UNCHANGED <<segments, pieces, packing>>

DropBlank ==
    /\ s <= Len(segments)
    /\ segments[s].words = <<>>
    /\ NextSegment
    /\ UNCHANGED <<segments, pieces, packing>>

\* A segment that fits, and a single word whatever its size.
FitsWhole(seg) == seg.size <= MaxTokens \/ Len(seg.words) = 1

KeepSegment ==
    /\ s <= Len(segments)
    /\ segments[s].words # <<>> /\ FitsWhole(segments[s])
    /\ pieces' = Append(pieces, Piece(1, Len(segments[s].words), segments[s].size))
    /\ NextSegment
    /\ UNCHANGED <<segments, packing>>

Splits == s <= Len(segments) /\ segments[s].words # <<>> /\ ~FitsWhole(segments[s])

\* Mutated: the word that does not fit is dropped with the cut.
SplitWordDropping ==
    /\ Splits
    /\ cut.next <= Len(segments[s].words)
    /\ LET n == WordSize(segments[s].words[cut.next])
       IN IF cut.running > 0 /\ cut.running + n > MaxTokens
            THEN /\ pieces' = Append(pieces, Piece(cut.from, cut.next - 1, cut.running))
                 /\ cut' = [from |-> cut.next + 1, next |-> cut.next + 1, running |-> 0]
            ELSE /\ cut' = [cut EXCEPT !.next = @ + 1, !.running = @ + n]
                 /\ UNCHANGED pieces
    /\ UNCHANGED <<segments, s, packing>>

\* One word: cut before it if it does not fit.
SplitWord ==
    /\ Splits
    /\ cut.next <= Len(segments[s].words)
    /\ LET n == WordSize(segments[s].words[cut.next])
       IN IF cut.running > 0 /\ cut.running + n > MaxTokens
            THEN /\ pieces' = Append(pieces, Piece(cut.from, cut.next - 1, cut.running))
                 /\ cut' = [from |-> cut.next, next |-> cut.next + 1, running |-> n]
            ELSE /\ cut' = [cut EXCEPT !.next = @ + 1, !.running = @ + n]
                 /\ UNCHANGED pieces
    /\ UNCHANGED <<segments, s, packing>>

SplitRest ==
    /\ Splits
    /\ cut.next > Len(segments[s].words)
    /\ pieces' = Append(pieces, Piece(cut.from, Len(segments[s].words), cut.running))
    /\ NextSegment
    /\ UNCHANGED <<segments, packing>>

-----------------------------------------------------------------------------
(* The packing loop and _carry_overlap. *)

\* Mutated: the whole window may be carried.
CarryWhole(a, b) ==
    CHOOSE k \in a..(b + 1) :
        /\ \A j \in k..b : Tokens(j, b) <= OverlapTokens
        /\ k > a => Tokens(k - 1, b) > OverlapTokens

\* Mutated: an overlap of exactly the limit is not carried.
CarryStrict(a, b) ==
    CHOOSE k \in (a + 1)..(b + 1) :
        /\ \A j \in k..b : Tokens(j, b) < OverlapTokens
        /\ k > a + 1 => Tokens(k - 1, b) >= OverlapTokens

\* Where the next window starts: from the end of a..b backwards, until a piece
\* does not fit the overlap; the first piece of the window is always dropped.
Carry(a, b) ==
    IF OverlapTokens = 0 THEN b + 1
    ELSE CHOOSE k \in (a + 1)..(b + 1) :
             /\ \A j \in k..b : Tokens(j, b) <= OverlapTokens
             /\ k > a + 1 => Tokens(k - 1, b) > OverlapTokens

Emitted == Append(chunks, [first |-> first, last |-> i - 1, size |-> load])

\* Mutated: the piece that comes next is not counted.
FullLate == first < i /\ load > MaxTokens

\* The window is not empty and the next piece does not fit.
Full == first < i /\ load + Tokens(i, i) > MaxTokens

Packs == s > Len(segments) /\ i <= Len(pieces)

PackPiece ==
    /\ Packs /\ ~Full
    /\ load' = load + Tokens(i, i)
    /\ i' = i + 1
    /\ UNCHANGED <<segments, s, cut, pieces, first, chunks, done>>

\* Emit the window, carry its tail, and append the piece whether it fits or not.
EmitAndPack ==
    /\ Packs /\ Full
    /\ chunks' = Emitted
    /\ first' = Carry(first, i - 1)
    /\ load' = Tokens(first', i - 1) + Tokens(i, i)
    /\ i' = i + 1
    /\ UNCHANGED <<segments, s, cut, pieces, done>>

Finish ==
    /\ s > Len(segments) /\ i > Len(pieces) /\ ~done
    /\ chunks' = IF first < i THEN Emitted ELSE chunks
    /\ done' = TRUE
    /\ UNCHANGED <<segments, s, cut, pieces, i, first, load>>

\* The call has returned; whatever else stops is a deadlock.
Returned == done /\ UNCHANGED vars

Next ==
    \/ DropBlank \/ KeepSegment \/ SplitWord \/ SplitRest
    \/ PackPiece \/ EmitAndPack \/ Finish \/ Returned

Spec == Init /\ [][Next]_vars

-----------------------------------------------------------------------------
(* Properties. *)

Pieces == [seg : Nat, from : Nat, to : Nat, upto : Nat]
Chunks == [first : Nat, last : Nat, size : Nat]

\* Type invariant of the loops.
TypeOK ==
    /\ segments \in Seq(Segments)
    /\ s \in 1..(Len(segments) + 1)
    /\ cut \in [from : Nat \ {0}, next : Nat \ {0}, running : Nat]
    /\ pieces \in Seq(Pieces)
    /\ i \in 1..(Len(pieces) + 1)
    /\ first \in 1..i
    /\ load \in Nat
    /\ chunks \in Seq(Chunks)
    /\ done \in BOOLEAN

\* Segments a..b have no words.
Silent(a, b) == \A k \in a..b : segments[k].words = <<>>

\* Piece q starts where piece p ends: the next word of the segment, or the
\* first of the next segment that has words.
Follows(q, p) ==
    \/ q.seg = p.seg /\ q.from = p.to + 1
    \/ /\ p.seg < q.seg /\ q.from = 1 /\ p.to = Len(segments[p.seg].words)
       /\ Silent(p.seg + 1, q.seg - 1)

\* Splitting loses no word and repeats none: the pieces are the words of the
\* transcript in their order, and all of them in the end.
PiecesTile ==
    /\ \A k \in 1..Len(pieces) : pieces[k].from <= pieces[k].to
    /\ \A k \in 1..(Len(pieces) - 1) : Follows(pieces[k + 1], pieces[k])
    /\ pieces # <<>> => pieces[1].from = 1 /\ Silent(1, pieces[1].seg - 1)
    /\ done => IF pieces = <<>> THEN Silent(1, Len(segments))
               ELSE LET z == pieces[Len(pieces)]
                    IN /\ z.to = Len(segments[z.seg].words)
                       /\ Silent(z.seg + 1, Len(segments))

\* Each chunk starts after the start of the one before and no later than right
\* behind its end, and ends after it.
Advances(c, d) ==
    /\ c.first < d.first /\ d.first <= c.last + 1
    /\ c.last < d.last

\* Nothing is lost between chunks and every chunk brings something new; the
\* first one starts with the first piece, and the last one ends with the last.
ChunksAdvance ==
    /\ \A k \in 1..Len(chunks) : chunks[k].first <= chunks[k].last
    /\ \A k \in 1..(Len(chunks) - 1) : Advances(chunks[k], chunks[k + 1])
    /\ chunks # <<>> => chunks[1].first = 1
    /\ done => IF chunks = <<>> THEN pieces = <<>>
                                ELSE chunks[Len(chunks)].last = Len(pieces)

\* A piece larger than max_tokens is a single word.
PieceFits(k) == Tokens(k, k) <= MaxTokens \/ pieces[k].from = pieces[k].to

\* The size of a chunk is that of its pieces, and it exceeds max_tokens only in
\* two ways: by a single word that is larger, or by one piece behind an overlap
\* that is no larger than overlap_tokens.
WithinBudget ==
    \A k \in 1..Len(chunks) :
        LET c == chunks[k]
        IN /\ c.size = Tokens(c.first, c.last)
           /\ c.size > MaxTokens =>
                Tokens(c.first, c.last - 1) <= OverlapTokens /\ PieceFits(c.last)

\* The overlap of chunk c with a chunk that starts at f fits, and one piece more
\* would not, short of all of c.
LongestOverlap(c, f) ==
    /\ Tokens(f, c.last) <= OverlapTokens
    /\ (OverlapTokens > 0 /\ f > c.first + 1) => Tokens(f - 1, c.last) > OverlapTokens

\* What two chunks share is as long as overlap_tokens allows without repeating
\* a chunk.
OverlapIsLongest ==
    \A k \in 1..(Len(chunks) - 1) : LongestOverlap(chunks[k], chunks[k + 1].first)

=============================================================================
