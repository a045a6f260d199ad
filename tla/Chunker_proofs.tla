--------------------------- MODULE Chunker_proofs ---------------------------
(* Proofs about chunk_transcript and about the ingestion that calls it, for  *)
(* every transcript, every limit and every size of the batches.              *)
EXTENDS ChromaIngest, OrderedDict_proofs

\* Token counts accumulate.
Mono == \A a, b \in 0..Len(pieces) : a <= b => Upto(pieces, a) <= Upto(pieces, b)

\* Packing starts when the segments are prepared.
Phases ==
    /\ s <= Len(segments) => i = 1 /\ first = 1 /\ load = 0 /\ chunks = <<>> /\ ~done
    /\ done => i > Len(pieces)

\* How far the splitting of segment s has come.
Cutting ==
    /\ cut.running = 0 => cut = Whole
    /\ cut.running > 0 => cut.from < cut.next /\ Splits
    /\ cut.running > MaxTokens => cut.next = cut.from + 1
    /\ Splits => cut.next <= Len(segments[s].words) + 1

PiecesFit == \A k \in 1..Len(pieces) : PieceFits(k)

\* The window is counted, and over the limit only by its last piece.
Window ==
    /\ load = Tokens(first, i - 1)
    /\ (first < i /\ load > MaxTokens) => Tokens(first, i - 2) <= OverlapTokens

\* The window begins as the next chunk should, and is not empty behind a chunk.
Following ==
    ~done =>
      IF chunks = <<>> THEN first = 1
      ELSE LET c == chunks[Len(chunks)]
           IN /\ c.first < first /\ first <= c.last + 1 /\ c.last < i - 1
              /\ LongestOverlap(c, first)

ChunksBehind == \A k \in 1..Len(chunks) : chunks[k].first \in 1..chunks[k].last /\ chunks[k].last < i

Inv ==
    /\ TypeOK /\ Mono /\ Phases /\ Cutting /\ PiecesFit /\ Window /\ Following
    /\ ChunksBehind /\ ChunksAdvance /\ WithinBudget /\ OverlapIsLongest

-----------------------------------------------------------------------------

LEMMA InitInv == Init => Inv
<1> SUFFICES ASSUME Init PROVE Inv
  OBVIOUS
<1> USE ChunkerAssumption DEF ChunkerAssumption, Init
<1>1. TypeOK
  <2>1. segments \in Seq(Segments)
    OBVIOUS
  <2>2. cut \in [from : Nat \ {0}, next : Nat \ {0}, running : Nat]
    BY DEF Whole
  <2>3. Len(segments) \in Nat /\ Len(pieces) = 0 /\ pieces \in Seq(Pieces) /\ chunks \in Seq(Chunks)
    BY <2>1
  <2>4. s \in 1..(Len(segments) + 1) /\ i \in 1..(Len(pieces) + 1) /\ first \in 1..i /\ load \in Nat
    BY <2>3
  <2>5. done \in BOOLEAN
    OBVIOUS
  <2> QED
    BY <2>1, <2>2, <2>3, <2>4, <2>5, Zenon DEF TypeOK
<1>2. Mono
  BY DEF Mono, Upto
<1>3. Window
  BY DEF Window, Tokens, Upto
<1>4. Phases /\ Cutting /\ PiecesFit /\ Following /\ ChunksBehind
  BY DEF Phases, Cutting, Whole, PiecesFit, Following, ChunksBehind, Splits
<1>5. ChunksAdvance /\ WithinBudget /\ OverlapIsLongest
  BY DEF ChunksAdvance, WithinBudget, OverlapIsLongest
<1> QED
  BY <1>1, <1>2, <1>3, <1>4, <1>5 DEF Inv

LEMMA UptoIsNat ==
    ASSUME TypeOK
    PROVE  \A k \in 0..Len(pieces) : Upto(pieces, k) \in Nat
<1> SUFFICES ASSUME NEW k \in 0..Len(pieces) PROVE Upto(pieces, k) \in Nat
  OBVIOUS
<1>1. k # 0 => pieces[k] \in Pieces
  BY DEF TypeOK
<1> QED
  BY <1>1 DEF Upto, Pieces

\* The loop of _carry_overlap: it stops, and where it stops is what its
\* condition says.
LEMMA CarryProperties ==
    ASSUME TypeOK, Mono, NEW a \in 1..Len(pieces), NEW b \in a..Len(pieces)
    PROVE  /\ Carry(a, b) \in (a + 1)..(b + 1)
           /\ Tokens(Carry(a, b), b) <= OverlapTokens
           /\ (OverlapTokens > 0 /\ Carry(a, b) > a + 1) =>
                 Tokens(Carry(a, b) - 1, b) > OverlapTokens
<1> USE ChunkerAssumption DEF ChunkerAssumption
<1>u. \A k \in 0..Len(pieces) : Upto(pieces, k) \in Nat
  BY UptoIsNat
<1>1. CASE OverlapTokens = 0
  BY <1>1, <1>u DEF Carry, Tokens
<1>2. CASE OverlapTokens # 0
  <2> DEFINE fits == {k \in (a + 1)..(b + 1) : Tokens(k, b) <= OverlapTokens}
  <2>1. b + 1 \in fits
    BY <1>u DEF Tokens
  <2>2. PICK m \in fits : \A k \in fits : m <= k
    <3>1. fits \subseteq Nat /\ fits # {}
      BY <2>1
    <3> HIDE DEF fits
    <3> QED
      BY <3>1, LeastNatural
  <2>3. \A j \in m..b : Tokens(j, b) <= OverlapTokens
    <3> SUFFICES ASSUME NEW j \in m..b PROVE Tokens(j, b) <= OverlapTokens
      OBVIOUS
    <3>1. Upto(pieces, m - 1) <= Upto(pieces, j - 1)
      BY DEF Mono
    <3>2. Upto(pieces, m - 1) \in Nat /\ Upto(pieces, j - 1) \in Nat /\ Upto(pieces, b) \in Nat
      BY <1>u
    <3> QED
      BY <3>1, <3>2 DEF Tokens
  <2>4. m > a + 1 => Tokens(m - 1, b) > OverlapTokens
    <3> SUFFICES ASSUME m > a + 1 PROVE Tokens(m - 1, b) > OverlapTokens
      OBVIOUS
    <3>1. m - 1 \in (a + 1)..(b + 1) /\ m - 1 \notin fits
      BY <2>2
    <3>2. Tokens(m - 1, b) \in Int
      BY <1>u, <3>1 DEF Tokens
    <3> QED
      BY <3>1, <3>2
  <2> DEFINE Good(k) == /\ \A j \in k..b : Tokens(j, b) <= OverlapTokens
                        /\ k > a + 1 => Tokens(k - 1, b) > OverlapTokens
  <2>5. \E k \in (a + 1)..(b + 1) : Good(k)
    BY <2>3, <2>4
  <2>6. Carry(a, b) = CHOOSE k \in (a + 1)..(b + 1) : Good(k)
    BY <1>2 DEF Carry
  <2>7. Carry(a, b) \in (a + 1)..(b + 1) /\ Good(Carry(a, b))
    <3> HIDE DEF Good
    <3> QED
      BY <2>5, <2>6
  <2>8. Tokens(b + 1, b) = 0
    BY <1>u DEF Tokens
  <2> QED
    BY <2>7, <2>8
<1> QED
  BY <1>1, <1>2

-----------------------------------------------------------------------------
(* Preparing: the packing has not begun. *)

\* What the packing loop will find, while the segments are being prepared.
Packable == Mono /\ PiecesFit /\ Window /\ Following /\ ChunksBehind
            /\ ChunksAdvance /\ WithinBudget /\ OverlapIsLongest

\* Nothing is said of chunks before there are any.
LEMMA NothingPacked ==
    ASSUME TypeOK, s <= Len(segments), Phases
    PROVE  Window /\ Following /\ ChunksBehind /\ ChunksAdvance /\ WithinBudget /\ OverlapIsLongest
<1>1. i = 1 /\ first = 1 /\ load = 0 /\ chunks = <<>> /\ ~done /\ Upto(pieces, 0) = 0
  BY DEF Phases, Upto
<1> QED
  BY <1>1 DEF Window, Following, ChunksBehind, ChunksAdvance, WithinBudget, OverlapIsLongest, Tokens

\* A piece is appended and the packing waits.
LEMMA AppendPiece ==
    ASSUME Inv, s <= Len(segments), UNCHANGED packing,
           NEW from \in Nat, NEW to \in Nat, NEW n \in Nat,
           pieces' = Append(pieces, Piece(from, to, n)),
           n <= MaxTokens \/ from = to
    PROVE  /\ pieces' \in Seq(Pieces) /\ Len(pieces') = Len(pieces) + 1
           /\ Packable'
<1> USE DEF Inv
<1> DEFINE p == Piece(from, to, n)
<1>0. p \in Pieces /\ p.upto = Upto(pieces, Len(pieces)) + n /\ p.from = from /\ p.to = to
  <2>1. Len(pieces) \in Nat /\ s \in Nat
    BY DEF TypeOK
  <2>2. Upto(pieces, Len(pieces)) \in Nat
    BY <2>1, UptoIsNat
  <2> QED
    BY <2>1, <2>2 DEF Piece, Pieces
<1>1. /\ pieces' \in Seq(Pieces) /\ Len(pieces') = Len(pieces) + 1
      /\ \A k \in 1..Len(pieces) : pieces'[k] = pieces[k]
      /\ pieces'[Len(pieces) + 1] = p
  BY <1>0 DEF TypeOK
<1>l. Len(pieces) \in Nat /\ \A k \in 0..Len(pieces) : Upto(pieces, k) \in Nat
  BY UptoIsNat DEF TypeOK
<1>2. /\ \A k \in 0..Len(pieces) : Upto(pieces', k) = Upto(pieces, k)
      /\ Upto(pieces', Len(pieces) + 1) = Upto(pieces, Len(pieces)) + n
  BY <1>0, <1>1, <1>l DEF Upto
<1>3. Mono'
  <2> SUFFICES ASSUME NEW a \in 0..(Len(pieces) + 1), NEW b \in 0..(Len(pieces) + 1), a <= b
               PROVE  Upto(pieces', a) <= Upto(pieces', b)
    BY <1>1 DEF Mono
  <2>2. CASE b <= Len(pieces)
    BY <1>2, <1>l, <2>2 DEF Mono
  <2>3. CASE b = Len(pieces) + 1 /\ a <= Len(pieces)
    <3>1. Upto(pieces, a) <= Upto(pieces, Len(pieces))
      BY <1>l, <2>3 DEF Mono
    <3> QED
      BY <1>2, <1>l, <2>3, <3>1
  <2>4. CASE b = Len(pieces) + 1 /\ a = Len(pieces) + 1
    BY <1>2, <1>l, <2>4
  <2> QED
    BY <1>l, <2>2, <2>3, <2>4
<1>4. PiecesFit'
  <2> SUFFICES ASSUME NEW k \in 1..(Len(pieces) + 1) PROVE PieceFits(k)'
    BY <1>1 DEF PiecesFit
  <2>1. CASE k <= Len(pieces)
    <3>0. k \in 0..Len(pieces) /\ k - 1 \in 0..Len(pieces)
      BY <1>l, <2>1
    <3>1. Tokens(k, k)' = Tokens(k, k)
      <4>1. Upto(pieces', k) = Upto(pieces, k) /\ Upto(pieces', k - 1) = Upto(pieces, k - 1)
        BY <1>2, <3>0
      <4> QED
        BY <4>1 DEF Tokens
    <3> QED
      BY <1>1, <2>1, <3>1 DEF PiecesFit, PieceFits
  <2>2. CASE k = Len(pieces) + 1
    <3>1. Tokens(k, k)' = n
      <4>1. Upto(pieces', k) = Upto(pieces, k - 1) + n /\ Upto(pieces', k - 1) = Upto(pieces, k - 1)
        BY <1>2, <1>l, <2>2
      <4>2. Upto(pieces, k - 1) \in Nat
        BY <1>l, <2>2
      <4> QED
        BY <4>1, <4>2 DEF Tokens
    <3> QED
      BY <1>0, <1>1, <2>2, <3>1 DEF PieceFits
  <2> QED
    BY <1>l, <2>1, <2>2
<1>5. /\ i' = 1 /\ first' = 1 /\ load' = 0 /\ chunks' = <<>> /\ ~done' /\ Upto(pieces', 0) = 0
  BY DEF Phases, Upto, packing
<1>6. (Window /\ Following /\ ChunksBehind /\ ChunksAdvance /\ WithinBudget /\ OverlapIsLongest)'
  BY <1>5 DEF Window, Following, ChunksBehind, ChunksAdvance, WithinBudget, OverlapIsLongest, Tokens
<1> QED
  BY <1>1, <1>3, <1>4, <1>6 DEF Packable

\* Without a new piece, nothing changes for the packing loop.
LEMMA SamePieces ==
    ASSUME Inv, UNCHANGED <<pieces, packing>>
    PROVE  Packable'
BY DEF Packable, Inv, packing, Mono, PiecesFit, PieceFits, Window, Following, ChunksBehind,
       ChunksAdvance, WithinBudget, OverlapIsLongest, LongestOverlap, Tokens, Upto

\* The splitting starts afresh with the next segment.
LEMMA NextSegmentInv ==
    ASSUME TypeOK, s <= Len(segments), NextSegment, Phases, UNCHANGED <<segments, packing>>
    PROVE  /\ segments' \in Seq(Segments) /\ s' \in 1..(Len(segments') + 1)
           /\ cut' \in [from : Nat \ {0}, next : Nat \ {0}, running : Nat]
           /\ Phases' /\ Cutting'
<1>1. cut' = [from |-> 1, next |-> 1, running |-> 0] /\ s' = s + 1 /\ segments' = segments
  BY DEF NextSegment, Whole
<1>2. Phases'
  BY <1>1 DEF Phases, packing, TypeOK
<1>3. Cutting'
  <2>1. Splits' => segments'[s'].words \in Seq(Nat)
    <3> SUFFICES ASSUME Splits' PROVE segments'[s'].words \in Seq(Nat)
      OBVIOUS
    <3>1. s' \in 1..Len(segments')
      BY <1>1 DEF TypeOK, Splits
    <3>2. segments'[s'] \in Segments
      BY <1>1, <3>1 DEF TypeOK
    <3> QED
      BY <3>2 DEF Segments
  <2>2. Splits' => 1 <= Len(segments'[s'].words) + 1
    BY <2>1
  <2> QED
    BY <1>1, <2>2, ChunkerAssumption DEF Cutting, Whole, ChunkerAssumption
<1> QED
  BY <1>1, <1>2, <1>3 DEF TypeOK


\* What every preparing step must show.
LEMMA PrepareInv ==
    ASSUME Inv, s <= Len(segments), UNCHANGED packing,
           segments' \in Seq(Segments), s' \in 1..(Len(segments') + 1),
           cut' \in [from : Nat \ {0}, next : Nat \ {0}, running : Nat],
           pieces' \in Seq(Pieces), Len(pieces') >= Len(pieces),
           Phases', Cutting', Packable'
    PROVE  Inv'
<1>1. i' \in 1..(Len(pieces') + 1)
  BY DEF packing, Inv, TypeOK
<1>2. first' \in 1..i' /\ load' \in Nat /\ chunks' \in Seq(Chunks)
  BY DEF packing, Inv, TypeOK
<1>3. done' \in BOOLEAN
  BY DEF packing, Inv, TypeOK
<1>4. TypeOK'
  BY <1>1, <1>2, <1>3, Zenon DEF TypeOK
<1> QED
  BY <1>4, Zenon DEF Inv, Packable

LEMMA SegmentTyped ==
    ASSUME TypeOK, s <= Len(segments)
    PROVE  /\ segments[s].size \in Nat
           /\ segments[s].words \in Seq(Nat) /\ Len(segments[s].words) \in Nat
           /\ \A k \in 1..Len(segments[s].words) : segments[s].words[k] \in Nat
           /\ segments[s].words # <<>> => Len(segments[s].words) >= 1
<1>1. segments[s] \in Segments
  BY DEF TypeOK
<1>2. segments[s].size \in Nat /\ segments[s].words \in Seq(Nat)
  BY <1>1 DEF Segments
<1> QED
  BY <1>2

LEMMA DropBlankInv ==
    ASSUME Inv, DropBlank
    PROVE  Inv'
<1> USE DEF DropBlank, Inv
<1>1. Packable'
  BY SamePieces
<1> QED
  BY <1>1, NextSegmentInv, PrepareInv DEF TypeOK

LEMMA KeepSegmentInv ==
    ASSUME Inv, KeepSegment
    PROVE  Inv'
<1> USE DEF KeepSegment, Inv
<1>1. /\ pieces' \in Seq(Pieces) /\ Len(pieces') = Len(pieces) + 1
      /\ Packable'
  <2>1. segments[s].size <= MaxTokens \/ 1 = Len(segments[s].words)
    BY DEF FitsWhole
  <2> QED
    BY <2>1, AppendPiece, SegmentTyped
<1>2. Len(pieces) \in Nat
  BY DEF TypeOK
<1> QED
  BY <1>1, <1>2, NextSegmentInv, PrepareInv

LEMMA SplitRestInv ==
    ASSUME Inv, SplitRest
    PROVE  Inv'
<1> USE DEF SplitRest, Inv
<1>1. s <= Len(segments)
  BY DEF Splits
<1>2. cut.from \in Nat /\ cut.next \in Nat /\ cut.running \in Nat
  BY DEF TypeOK
<1>3. cut.running <= MaxTokens \/ cut.from = Len(segments[s].words)
  BY <1>1, <1>2, SegmentTyped, ChunkerAssumption DEF Cutting, ChunkerAssumption
<1>4. /\ pieces' \in Seq(Pieces) /\ Len(pieces') = Len(pieces) + 1
      /\ Packable'
  BY <1>1, <1>2, <1>3, SegmentTyped, AppendPiece
<1>5. Len(pieces) \in Nat
  BY DEF TypeOK
<1> QED
  BY <1>1, <1>4, <1>5, NextSegmentInv, PrepareInv

LEMMA SplitWordInv ==
    ASSUME Inv, SplitWord
    PROVE  Inv'
<1> USE DEF SplitWord, Inv
<1> DEFINE n == WordSize(segments[s].words[cut.next])
<1>1. s <= Len(segments)
  BY DEF Splits
<1>2. /\ cut.from \in Nat \ {0} /\ cut.next \in Nat \ {0} /\ cut.running \in Nat
      /\ cut = [from |-> cut.from, next |-> cut.next, running |-> cut.running]
  BY DEF TypeOK
<1>3. n \in Nat /\ n >= 1 /\ Len(segments[s].words) \in Nat /\ Len(pieces) \in Nat
  <2>1. cut.next \in 1..Len(segments[s].words)
    BY <1>1, <1>2, SegmentTyped
  <2>2. segments[s].words[cut.next] \in Nat /\ Len(segments[s].words) \in Nat
    BY <1>1, <2>1, SegmentTyped
  <2>3. Len(pieces) \in Nat
    BY DEF TypeOK
  <2> QED
    BY <2>2, <2>3 DEF WordSize
<1>4. Phases' /\ Splits' /\ s' \in 1..(Len(segments') + 1) /\ segments' \in Seq(Segments)
  BY <1>1 DEF Phases, packing, Splits, FitsWhole, TypeOK
<1> HIDE DEF n
<1>5. CASE cut.running > 0 /\ cut.running + n > MaxTokens
  <2>1. /\ pieces' = Append(pieces, Piece(cut.from, cut.next - 1, cut.running))
        /\ cut' = [from |-> cut.next, next |-> cut.next + 1, running |-> n]
    BY <1>5 DEF n
  <2>2. cut.running <= MaxTokens \/ cut.from = cut.next - 1
    BY <1>2, ChunkerAssumption DEF Cutting, ChunkerAssumption
  <2>3. /\ pieces' \in Seq(Pieces) /\ Len(pieces') = Len(pieces) + 1
        /\ Packable'
    <3>1. cut.from \in Nat /\ cut.next - 1 \in Nat /\ cut.running \in Nat
      BY <1>2
    <3>2. UNCHANGED packing
      OBVIOUS
    <3> HIDE DEF SplitWord, Inv
    <3> QED
      BY <1>1, <2>1, <2>2, <3>1, <3>2, AppendPiece
  <2>4. Cutting'
    BY <1>2, <1>3, <1>4, <2>1 DEF Cutting
  <2>5. cut' \in [from : Nat \ {0}, next : Nat \ {0}, running : Nat]
    BY <1>2, <1>3, <2>1
  <2>6. Len(pieces') >= Len(pieces)
    BY <1>3, <2>3
  <2> QED
    BY <1>1, <1>4, <2>3, <2>4, <2>5, <2>6, PrepareInv
<1>6. CASE ~(cut.running > 0 /\ cut.running + n > MaxTokens)
  <2>1. /\ pieces' = pieces
        /\ cut' = [cut EXCEPT !.next = @ + 1, !.running = @ + n]
    BY <1>6 DEF n
  <2>2. Packable'
    BY <2>1, SamePieces
  <2>3. cut' = [from |-> cut.from, next |-> cut.next + 1, running |-> cut.running + n]
    BY <1>2, <2>1
  <2>4. Cutting'
    <3>1. /\ cut.running = 0 => cut.next = cut.from
          /\ cut.running > 0 => cut.from < cut.next
          /\ cut.next <= Len(segments[s].words) /\ segments' = segments /\ s' = s
      BY DEF Cutting, Whole
    <3>2. /\ cut'.from = cut.from /\ cut'.next = cut.next + 1
          /\ cut'.running = cut.running + n /\ cut'.running > 0
      BY <1>2, <1>3, <2>3
    <3>3. cut'.from < cut'.next /\ cut'.next <= Len(segments'[s'].words) + 1
      BY <1>2, <1>3, <3>1, <3>2
    <3>4. cut'.running > MaxTokens => cut'.next = cut'.from + 1
      BY <1>2, <1>3, <1>6, <3>1, <3>2
    <3> QED
      BY <1>2, <1>4, <3>2, <3>3, <3>4 DEF Cutting
  <2>5. cut' \in [from : Nat \ {0}, next : Nat \ {0}, running : Nat]
    BY <1>2, <1>3, <2>3
  <2>6. pieces' \in Seq(Pieces) /\ Len(pieces') >= Len(pieces)
    BY <1>3, <2>1 DEF TypeOK
  <2> QED
    BY <1>1, <1>4, <2>2, <2>4, <2>5, <2>6, PrepareInv
<1> QED
  BY <1>5, <1>6

-----------------------------------------------------------------------------
(* Packing. *)

\* Facts about the pieces that every packing step uses.
LEMMA TokensCount ==
    ASSUME TypeOK, Mono
    PROVE  /\ Len(pieces) \in Nat /\ i \in Nat /\ first \in 1..i /\ i <= Len(pieces) + 1
           /\ Len(chunks) \in Nat
           /\ \A a \in 1..(Len(pieces) + 1), b \in 0..Len(pieces) : Tokens(a, b) \in Int
           /\ \A a \in 1..Len(pieces) : Tokens(a, a) \in Nat
           /\ \A a \in 1..(Len(pieces) + 1) : Tokens(a, a - 1) = 0
           /\ \A a, b \in 1..Len(pieces) : Tokens(a, b) = Tokens(a, b - 1) + Tokens(b, b)
<1>1. Len(pieces) \in Nat /\ \A k \in 0..Len(pieces) : Upto(pieces, k) \in Nat
  BY UptoIsNat DEF TypeOK
<1>2. i \in Nat /\ first \in 1..i /\ i <= Len(pieces) + 1 /\ Len(chunks) \in Nat
  BY DEF TypeOK
<1>3. \A a \in 1..(Len(pieces) + 1), b \in 0..Len(pieces) : Tokens(a, b) \in Int
  BY <1>1 DEF Tokens
<1>4. \A a \in 1..Len(pieces) : Tokens(a, a) \in Nat
  <2> SUFFICES ASSUME NEW a \in 1..Len(pieces) PROVE Tokens(a, a) \in Nat
    OBVIOUS
  <2>1. Upto(pieces, a - 1) <= Upto(pieces, a)
    BY <1>1 DEF Mono
  <2> QED
    BY <1>1, <2>1 DEF Tokens
<1>5. \A a \in 1..(Len(pieces) + 1) : Tokens(a, a - 1) = 0
  BY <1>1 DEF Tokens
<1>6. \A a, b \in 1..Len(pieces) : Tokens(a, b) = Tokens(a, b - 1) + Tokens(b, b)
  BY <1>1 DEF Tokens
<1> QED
  BY <1>1, <1>2, <1>3, <1>4, <1>5, <1>6

LEMMA ChunkTyped ==
    ASSUME TypeOK
    PROVE  /\ \A k \in 1..Len(chunks) : /\ chunks[k].first \in Nat /\ chunks[k].last \in Nat
                                        /\ chunks[k].size \in Nat
           /\ chunks # <<>> => Len(chunks) \in 1..Len(chunks)
<1>1. \A k \in 1..Len(chunks) : chunks[k] \in Chunks
  BY DEF TypeOK
<1>2. chunks # <<>> => Len(chunks) \in 1..Len(chunks)
  BY DEF TypeOK
<1> QED
  BY <1>1, <1>2 DEF Chunks

\* The prepared pieces do not change while they are packed.
LEMMA PiecesStay ==
    ASSUME Inv, s > Len(segments), UNCHANGED <<segments, s, cut, pieces>>
    PROVE  /\ Mono' /\ Cutting' /\ PiecesFit'
           /\ s' > Len(segments')
           /\ segments' \in Seq(Segments) /\ s' \in 1..(Len(segments') + 1)
           /\ cut' \in [from : Nat \ {0}, next : Nat \ {0}, running : Nat]
           /\ pieces' \in Seq(Pieces)
<1>1. Mono' /\ PiecesFit'
  BY DEF Inv, Mono, PiecesFit, PieceFits, Tokens, Upto
<1>2. Cutting'
  BY DEF Inv, Cutting, Splits, Whole, FitsWhole
<1> QED
  BY <1>1, <1>2 DEF Inv, TypeOK

LEMMA PackPieceInv ==
    ASSUME Inv, PackPiece
    PROVE  Inv'
<1> USE DEF PackPiece, Packs, Inv
<1>1. /\ Mono' /\ Cutting' /\ PiecesFit' /\ s' > Len(segments')
      /\ segments' \in Seq(Segments) /\ s' \in 1..(Len(segments') + 1)
      /\ cut' \in [from : Nat \ {0}, next : Nat \ {0}, running : Nat]
      /\ pieces' \in Seq(Pieces)
  BY PiecesStay
<1>2. ~done
  BY DEF Phases, TypeOK
<1>3. /\ i \in 1..Len(pieces) /\ first \in 1..i /\ Len(pieces) \in Nat
      /\ i' = i + 1 /\ first' = first /\ chunks' = chunks /\ pieces' = pieces /\ done' = done
      /\ load \in Nat /\ Tokens(i, i) \in Nat /\ load' = load + Tokens(i, i)
  BY TokensCount DEF TypeOK
<1>4. TypeOK'
  <2>1. i' \in 1..(Len(pieces') + 1) /\ first' \in 1..i' /\ load' \in Nat
    BY <1>3
  <2>2. chunks' \in Seq(Chunks) /\ done' \in BOOLEAN
    BY <1>3 DEF TypeOK
  <2> QED
    BY <1>1, <2>1, <2>2, Zenon DEF TypeOK
<1>5. Phases'
  BY <1>1, <1>2, <1>3 DEF Phases, TypeOK
<1>6. Window'
  <2>1. load' = Tokens(first, i)
    <3>1. first \in 1..Len(pieces) /\ load = Tokens(first, i - 1)
      BY <1>3 DEF Window
    <3>2. Tokens(first, i) = Tokens(first, i - 1) + Tokens(i, i)
      BY <1>3, <3>1, TokensCount
    <3> QED
      BY <1>3, <3>1, <3>2
  <2>2. load' > MaxTokens => Tokens(first, i - 1) <= OverlapTokens
    <3>1. CASE first = i
      BY <3>1, <1>3, TokensCount, ChunkerAssumption DEF ChunkerAssumption
    <3>2. CASE first < i
      BY <3>2, <1>3, TokensCount, ChunkerAssumption DEF Full, ChunkerAssumption
    <3> QED
      BY <3>1, <3>2, <1>3
  <2>3. i' - 1 = i /\ i' - 2 = i - 1
    BY <1>3
  <2> QED
    BY <1>3, <2>1, <2>2, <2>3 DEF Window, Tokens
<1>7. Following'
  <2>1. \A c, f : LongestOverlap(c, f) => LongestOverlap(c, f)'
    BY <1>3 DEF LongestOverlap, Tokens
  <2>2. chunks # <<>> => chunks[Len(chunks)].last \in Nat
    BY ChunkTyped, TokensCount
  <2> QED
    BY <1>2, <1>3, <2>1, <2>2 DEF Following
<1>8. ChunksBehind'
  BY <1>3, ChunkTyped DEF ChunksBehind
<1>9. ChunksAdvance' /\ WithinBudget' /\ OverlapIsLongest'
  BY <1>2, <1>3 DEF ChunksAdvance, Advances, WithinBudget, OverlapIsLongest,
                    LongestOverlap, PieceFits, Tokens
<1> QED
  BY <1>1, <1>4, <1>5, <1>6, <1>7, <1>8, <1>9, Zenon DEF Inv

\* What _build_chunk appends goes on where the chunks before it end.
LEMMA EmitProperties ==
    ASSUME Inv, first < i, ~done
    PROVE  /\ Emitted \in Seq(Chunks) /\ Len(Emitted) = Len(chunks) + 1
           /\ Emitted[Len(Emitted)] = [first |-> first, last |-> i - 1, size |-> load]
           /\ Emitted[1].first = 1
           /\ \A k \in 1..Len(Emitted) : Emitted[k].first \in 1..Emitted[k].last /\ Emitted[k].last < i
           /\ \A k \in 1..(Len(Emitted) - 1) : /\ Advances(Emitted[k], Emitted[k + 1])
                                               /\ LongestOverlap(Emitted[k], Emitted[k + 1].first)
           /\ \A k \in 1..Len(Emitted) :
                LET c == Emitted[k]
                IN /\ c.size = Tokens(c.first, c.last)
                   /\ c.size > MaxTokens =>
                        Tokens(c.first, c.last - 1) <= OverlapTokens /\ PieceFits(c.last)
<1> USE DEF Inv
<1> DEFINE e == [first |-> first, last |-> i - 1, size |-> load]
           n == Len(chunks)
<1>1. /\ n \in Nat /\ i \in Nat /\ first \in 1..(i - 1) /\ i - 1 \in 1..Len(pieces)
      /\ load \in Nat
  BY TokensCount DEF TypeOK
<1>2. e \in Chunks /\ e.first = first /\ e.last = i - 1 /\ e.size = load
  BY <1>1 DEF Chunks
<1>3. /\ Emitted \in Seq(Chunks) /\ Len(Emitted) = n + 1 /\ Emitted[n + 1] = e
      /\ \A k \in 1..n : Emitted[k] = chunks[k]
  BY <1>2 DEF Emitted, TypeOK
<1> HIDE DEF e, n
<1>4. n = 0 <=> chunks = <<>>
  BY DEF TypeOK, n
<1>5. n # 0 => /\ n \in 1..n /\ chunks[n].first < first /\ first <= chunks[n].last + 1
               /\ chunks[n].last < i - 1 /\ LongestOverlap(chunks[n], first)
  BY <1>1, <1>4 DEF Following, n
<1>6. Emitted[1].first = 1
  BY <1>1, <1>2, <1>3, <1>4 DEF Following, ChunksAdvance, n
<1>7. \A k \in 1..(n + 1) : Emitted[k].first \in 1..Emitted[k].last /\ Emitted[k].last < i
  BY <1>1, <1>2, <1>3 DEF ChunksBehind, n
<1>8. ASSUME NEW k \in 1..n
      PROVE  /\ Advances(Emitted[k], Emitted[k + 1])
             /\ LongestOverlap(Emitted[k], Emitted[k + 1].first)
  <2>1. CASE k = n
    BY <1>1, <1>2, <1>3, <1>5, <2>1 DEF Advances
  <2>2. CASE k # n
    <3>1. k \in 1..(n - 1) /\ k + 1 \in 1..n
      BY <1>1, <2>2
    <3>2. Emitted[k] = chunks[k] /\ Emitted[k + 1] = chunks[k + 1]
      BY <1>3, <3>1
    <3> QED
      BY <3>1, <3>2 DEF ChunksAdvance, OverlapIsLongest, n
  <2> QED
    BY <2>1, <2>2
<1>9. /\ e.size = Tokens(e.first, e.last)
      /\ e.size > MaxTokens => Tokens(e.first, e.last - 1) <= OverlapTokens /\ PieceFits(e.last)
  <2>1. load = Tokens(first, i - 1) /\ (load > MaxTokens => Tokens(first, i - 2) <= OverlapTokens)
    BY DEF Window
  <2>2. PieceFits(i - 1)
    BY <1>1 DEF PiecesFit
  <2>3. i - 1 - 1 = i - 2
    BY <1>1
  <2> QED
    BY <1>2, <2>1, <2>2, <2>3
<1>10. ASSUME NEW k \in 1..(n + 1)
       PROVE  LET c == Emitted[k]
              IN /\ c.size = Tokens(c.first, c.last)
                 /\ c.size > MaxTokens =>
                      Tokens(c.first, c.last - 1) <= OverlapTokens /\ PieceFits(c.last)
  <2>1. CASE k = n + 1
    BY <1>3, <1>9, <2>1
  <2>2. CASE k # n + 1
    <3>1. k \in 1..n /\ Emitted[k] = chunks[k]
      BY <1>1, <1>3, <2>2
    <3> QED
      BY <3>1 DEF WithinBudget, n
  <2> QED
    BY <2>1, <2>2
<1>11. Len(Emitted) - 1 = n /\ Len(Emitted) = n + 1
  BY <1>1, <1>3
<1>12. Emitted[Len(Emitted)] = [first |-> first, last |-> i - 1, size |-> load]
  BY <1>3 DEF e
<1> QED
  BY <1>3, <1>6, <1>7, <1>8, <1>10, <1>11, <1>12 DEF n

LEMMA EmitAndPackInv ==
    ASSUME Inv, EmitAndPack
    PROVE  Inv'
<1> USE DEF EmitAndPack, Packs, Inv
<1>1. /\ Mono' /\ Cutting' /\ PiecesFit' /\ s' > Len(segments')
      /\ segments' \in Seq(Segments) /\ s' \in 1..(Len(segments') + 1)
      /\ cut' \in [from : Nat \ {0}, next : Nat \ {0}, running : Nat]
      /\ pieces' \in Seq(Pieces)
  BY PiecesStay
<1>2. ~done /\ ~done'
  BY DEF Phases, TypeOK
<1>3. /\ i \in 1..Len(pieces) /\ i - 1 \in 1..Len(pieces) /\ first \in 1..(i - 1)
      /\ Len(pieces) \in Nat /\ i' = i + 1 /\ pieces' = pieces /\ Tokens(i, i) \in Nat
      /\ first \in 1..Len(pieces) /\ i - 1 \in first..Len(pieces)
  BY TokensCount DEF TypeOK, Full
<1>4. /\ first' \in (first + 1)..i
      /\ Tokens(first', i - 1) <= OverlapTokens
      /\ (OverlapTokens > 0 /\ first' > first + 1) => Tokens(first' - 1, i - 1) > OverlapTokens
  BY <1>3, CarryProperties
<1>5. load' = Tokens(first', i)
  <2>1. first' \in 1..Len(pieces)
    BY <1>3, <1>4
  <2> QED
    BY <1>3, <2>1, TokensCount
<1>6. load' \in Nat
  <2>1. Upto(pieces, first' - 1) <= Upto(pieces, i)
    BY <1>3, <1>4 DEF Mono
  <2>2. Upto(pieces, first' - 1) \in Nat /\ Upto(pieces, i) \in Nat
    BY <1>3, <1>4, UptoIsNat
  <2> QED
    BY <1>5, <2>1, <2>2 DEF Tokens
<1>7. TypeOK'
  <2>1. i' \in 1..(Len(pieces') + 1) /\ first' \in 1..i'
    BY <1>3, <1>4
  <2>2. chunks' \in Seq(Chunks) /\ done' \in BOOLEAN
    BY <1>2, <1>3, EmitProperties DEF TypeOK
  <2> QED
    BY <1>1, <1>6, <2>1, <2>2, Zenon DEF TypeOK
<1>8. Phases'
  BY <1>1, <1>2 DEF Phases, TypeOK
<1>9. Window'
  <2>1. i' - 1 = i /\ i' - 2 = i - 1
    BY <1>3
  <2> QED
    BY <1>3, <1>4, <1>5, <2>1 DEF Window, Tokens
<1> DEFINE e == [first |-> first, last |-> i - 1, size |-> load]
<1>10. /\ Len(chunks') = Len(chunks) + 1 /\ Len(chunks) \in Nat
       /\ chunks'[Len(chunks')] = e /\ chunks' # <<>>
  BY <1>2, <1>3, EmitProperties, TokensCount
<1>11. Following'
  <2>1. LongestOverlap(e, first')
    BY <1>4 DEF LongestOverlap
  <2>3. e.first < first' /\ first' <= e.last + 1 /\ e.last < i' - 1
    BY <1>3, <1>4
  <2> QED
    BY <1>4, <1>10, <2>1, <2>3, <1>3 DEF Following, LongestOverlap, Tokens
<1>12. ChunksBehind' /\ OverlapIsLongest' /\ ChunksAdvance' /\ WithinBudget'
  <2>1. first < i
    BY <1>3
  <2>2. ChunksBehind'
    <3>1. chunks' \in Seq(Chunks)
      BY <1>7 DEF TypeOK
    <3>2. \A k \in 1..Len(chunks') : chunks'[k] \in Chunks
      BY <3>1
    <3>3. \A k \in 1..Len(chunks') : chunks'[k].last \in Nat
      BY <3>2 DEF Chunks
    <3>4. \A k \in 1..Len(chunks') : chunks'[k].first \in 1..chunks'[k].last /\ chunks'[k].last < i
      BY <1>2, <2>1, EmitProperties
    <3> HIDE DEF EmitAndPack, Inv
    <3> QED
      BY <1>3, <3>3, <3>4 DEF ChunksBehind
  <2>3. OverlapIsLongest'
    BY <1>2, <1>3, <2>1, EmitProperties DEF OverlapIsLongest, LongestOverlap, Tokens
  <2>4. ChunksAdvance'
    BY <1>2, <2>1, EmitProperties DEF ChunksAdvance, Advances
  <2>5. WithinBudget'
    BY <1>2, <1>3, <2>1, EmitProperties DEF WithinBudget, PieceFits, Tokens
  <2> QED
    BY <2>2, <2>3, <2>4, <2>5
<1> QED
  BY <1>1, <1>7, <1>8, <1>9, <1>11, <1>12, Zenon DEF Inv

LEMMA FinishInv ==
    ASSUME Inv, Finish
    PROVE  Inv'
<1> USE DEF Finish, Inv
<1>1. /\ Mono' /\ Cutting' /\ PiecesFit' /\ s' > Len(segments')
      /\ segments' \in Seq(Segments) /\ s' \in 1..(Len(segments') + 1)
      /\ cut' \in [from : Nat \ {0}, next : Nat \ {0}, running : Nat]
      /\ pieces' \in Seq(Pieces)
  BY PiecesStay
<1>2. /\ i = Len(pieces) + 1 /\ first \in 1..i /\ Len(pieces) \in Nat
      /\ i' = i /\ first' = first /\ load' = load /\ pieces' = pieces /\ done'
  BY TokensCount DEF TypeOK
<1>3. Phases'
  BY <1>1, <1>2 DEF Phases, TypeOK
<1>4. Window' /\ Following'
  BY <1>2 DEF Window, Following, Tokens
<1>5. CASE first < i
  <2>1. chunks' = Emitted
    BY <1>5
  <2>2. TypeOK'
    <3>1. chunks' \in Seq(Chunks)
      BY <1>5, <2>1, EmitProperties
    <3>2. i' \in 1..(Len(pieces') + 1) /\ first' \in 1..i' /\ load' \in Nat
      BY <1>2 DEF TypeOK
    <3>3. done' \in BOOLEAN
      OBVIOUS
    <3> QED
      BY <1>1, <3>1, <3>2, <3>3, Zenon DEF TypeOK
  <2>3. ChunksBehind'
    BY <1>2, <1>5, <2>1, EmitProperties DEF ChunksBehind
  <2>4. OverlapIsLongest'
    BY <1>2, <1>5, <2>1, EmitProperties DEF OverlapIsLongest, LongestOverlap, Tokens
  <2>5. WithinBudget'
    BY <1>2, <1>5, <2>1, EmitProperties DEF WithinBudget, PieceFits, Tokens
  <2>6. ChunksAdvance'
    <3>1. /\ Len(chunks') = Len(chunks) + 1 /\ Len(chunks) \in Nat
          /\ chunks'[Len(chunks')].last = Len(pieces')
      BY <1>2, <1>5, <2>1, EmitProperties, TokensCount
    <3>2. /\ \A k \in 1..Len(chunks') : chunks'[k].first \in 1..chunks'[k].last
          /\ \A k \in 1..(Len(chunks') - 1) : Advances(chunks'[k], chunks'[k + 1])
          /\ chunks'[1].first = 1
      BY <1>5, <2>1, EmitProperties
    <3>3. chunks' # <<>>
      BY <3>1
    <3>4. \A k \in 1..Len(chunks') : chunks'[k].first <= chunks'[k].last
      BY <3>2
    <3> HIDE DEF Finish, Inv
    <3> QED
      BY <3>1, <3>2, <3>3, <3>4 DEF ChunksAdvance, Advances
  <2> QED
    BY <1>1, <1>3, <1>4, <2>2, <2>3, <2>4, <2>5, <2>6, Zenon DEF Inv
<1>6. CASE ~(first < i)
  <2>1. chunks' = chunks
    BY <1>6
  <2>2. TypeOK'
    <3>1. i' \in 1..(Len(pieces') + 1) /\ first' \in 1..i' /\ load' \in Nat /\ chunks' \in Seq(Chunks)
      BY <1>2, <2>1 DEF TypeOK
    <3>2. done' \in BOOLEAN
      OBVIOUS
    <3> QED
      BY <1>1, <3>1, <3>2, Zenon DEF TypeOK
  <2>3. chunks = <<>> /\ Len(pieces) = 0
    BY <1>2, <1>6, ChunkTyped DEF Following
  <2>4. pieces = <<>>
    BY <2>3 DEF TypeOK
  <2>5. ChunksAdvance' /\ ChunksBehind' /\ OverlapIsLongest' /\ WithinBudget'
    BY <1>2, <2>1, <2>3, <2>4 DEF ChunksAdvance, ChunksBehind, OverlapIsLongest, WithinBudget
  <2> QED
    BY <1>1, <1>3, <1>4, <2>2, <2>5, Zenon DEF Inv
<1> QED
  BY <1>5, <1>6

LEMMA StutterInv ==
    ASSUME Inv, UNCHANGED vars
    PROVE  Inv'
BY DEF vars, Inv, TypeOK, Mono, Phases, Cutting, Splits, Whole, FitsWhole, PiecesFit,
       PieceFits, Window, Following, ChunksBehind, ChunksAdvance, Advances, WithinBudget,
       OverlapIsLongest, LongestOverlap, Tokens, Upto

LEMMA NextInv == Inv /\ [Next]_vars => Inv'
BY DropBlankInv, KeepSegmentInv, SplitWordInv, SplitRestInv, PackPieceInv,
   EmitAndPackInv, FinishInv, StutterInv DEF Next, Returned

-----------------------------------------------------------------------------

\* The loops keep their invariant.
THEOREM InvHolds == Spec => []Inv
BY InitInv, NextInv, PTL DEF Spec

\* The loops of chunk_transcript stay well typed.
THEOREM ChunkerTypeCorrect == Spec => []TypeOK
<1>1. Inv => TypeOK
  BY DEF Inv
<1> QED
  BY <1>1, InvHolds, PTL

\* Every chunk continues the one before it, brings something new, and the last
\* one ends with the transcript.
THEOREM ChunksAlwaysAdvance == Spec => []ChunksAdvance
<1>1. Inv => ChunksAdvance
  BY DEF Inv
<1> QED
  BY <1>1, InvHolds, PTL

\* A chunk is over max_tokens only by a word too large for it, or by one piece
\* behind its overlap.
THEOREM BudgetIsKept == Spec => []WithinBudget
<1>1. Inv => WithinBudget
  BY DEF Inv
<1> QED
  BY <1>1, InvHolds, PTL

\* The overlap is as long as overlap_tokens allows.
THEOREM OverlapIsAlwaysLongest == Spec => []OverlapIsLongest
<1>1. Inv => OverlapIsLongest
  BY DEF Inv
<1> QED
  BY <1>1, InvHolds, PTL

-----------------------------------------------------------------------------
(* The pieces are the words of the transcript. *)

\* The pieces end where the splitting goes on.
Behind ==
    IF pieces = <<>> THEN cut.from = 1 /\ Silent(1, s - 1)
    ELSE LET z == pieces[Len(pieces)]
         IN IF cut.from > 1 THEN z.seg = s /\ z.to = cut.from - 1
            ELSE /\ z.seg \in 1..(s - 1)
                 /\ z.to = Len(segments[z.seg].words)
                 /\ Silent(z.seg + 1, s - 1)

TileInv == Inv /\ Behind /\ PiecesTile

\* A piece that begins where the splitting goes on follows the one before.
LEMMA AppendTile ==
    ASSUME TileInv, s <= Len(segments), UNCHANGED <<segments, packing>>,
           NEW to \in Nat, cut.from <= to, NEW n \in Nat,
           pieces' = Append(pieces, Piece(cut.from, to, n))
    PROVE  /\ PiecesTile'
           /\ pieces' # <<>> /\ pieces'[Len(pieces')].seg = s /\ pieces'[Len(pieces')].to = to
<1> USE DEF TileInv, Inv
<1> DEFINE p == Piece(cut.from, to, n)
           l == Len(pieces)
<1>0. p.seg = s /\ p.from = cut.from /\ p.to = to
  BY DEF Piece
<1>1. /\ l \in Nat /\ Len(pieces') = l + 1 /\ pieces'[l + 1] = p /\ pieces' # <<>>
      /\ \A k \in 1..l : pieces'[k] = pieces[k]
      /\ l = 0 <=> pieces = <<>>
  BY DEF TypeOK
<1> HIDE DEF p, l
<1>2. \A k \in 1..(l + 1) : pieces'[k].from <= pieces'[k].to
  BY <1>0, <1>1 DEF PiecesTile, l
<1>3. cut.from \in Nat \ {0} /\ s \in Nat
  BY DEF TypeOK
<1>4. ASSUME NEW k \in 1..l
      PROVE  Follows(pieces'[k + 1], pieces'[k])
  <2>1. CASE k < l
    <3>1. pieces'[k + 1] = pieces[k + 1] /\ pieces'[k] = pieces[k] /\ k \in 1..(l - 1)
      BY <1>1, <2>1
    <3>2. Follows(pieces[k + 1], pieces[k])
      BY <3>1 DEF PiecesTile, l
    <3> QED
      BY <3>1, <3>2 DEF Follows
  <2>2. CASE k = l
    <3>1. pieces # <<>> /\ pieces'[k + 1] = p /\ pieces'[k] = pieces[Len(pieces)]
      BY <1>1, <2>2 DEF l
    <3>2. CASE cut.from > 1
      BY <1>0, <1>3, <3>1, <3>2 DEF Behind, Follows
    <3>3. CASE cut.from = 1
      BY <1>0, <1>3, <3>1, <3>3 DEF Behind, Follows
    <3>4. cut.from > 1 \/ cut.from = 1
      BY <1>3
    <3> QED
      BY <3>2, <3>3, <3>4, Zenon
  <2> QED
    BY <1>1, <2>1, <2>2
<1>5. pieces'[1].from = 1 /\ Silent(1, pieces'[1].seg - 1)
  <2>1. CASE l = 0
    BY <1>0, <1>1, <2>1 DEF Behind
  <2>2. CASE l # 0
    BY <1>1, <2>2 DEF PiecesTile
  <2> QED
    BY <2>1, <2>2
<1>6. ~done'
  BY DEF Phases, packing
<1>7. PiecesTile'
  BY <1>1, <1>2, <1>4, <1>5, <1>6 DEF PiecesTile, Follows, Silent
<1> QED
  BY <1>0, <1>1, <1>7

\* Segment s is finished and the splitting goes on behind it.
LEMMA BehindWhole ==
    ASSUME s \in Nat \ {0}, s' = s + 1, segments' = segments, cut'.from = 1,
           pieces' # <<>>, pieces'[Len(pieces')].seg = s,
           pieces'[Len(pieces')].to = Len(segments[s].words)
    PROVE  Behind'
<1> DEFINE z == pieces'[Len(pieces')]
<1>1. s' - 1 = s /\ s \in 1..s
  OBVIOUS
<1>2. \A k \in (s + 1)..s : segments'[k].words = <<>>
  OBVIOUS
<1>3. z.seg = s /\ z.to = Len(segments'[z.seg].words) /\ ~(cut'.from > 1)
  OBVIOUS
<1> HIDE DEF z
<1>4. z.seg \in 1..(s' - 1) /\ \A k \in (z.seg + 1)..(s' - 1) : segments'[k].words = <<>>
  BY <1>1, <1>2, <1>3
<1> QED
  BY <1>3, <1>4 DEF Behind, Silent, z

LEMMA TileNext == TileInv /\ [Next]_vars => TileInv'
<1> SUFFICES ASSUME TileInv, [Next]_vars PROVE TileInv'
  OBVIOUS
<1> USE DEF TileInv, Inv
<1>0. Inv'
  BY NextInv
<1>t. s \in Nat /\ cut.from \in Nat \ {0} /\ cut.next \in Nat /\ cut.running \in Nat
  BY DEF TypeOK
<1>w. cut.running = 0 => cut.from = 1 /\ cut.next = 1
  BY DEF Cutting, Whole
<1>d. s <= Len(segments) => ~done
  BY DEF Phases
<1>1. CASE DropBlank
  <2>1. cut.from = 1
    BY <1>1, <1>t, <1>w DEF DropBlank, Cutting, Splits
  <2>2. /\ s' = s + 1 /\ cut'.from = 1 /\ pieces' = pieces /\ segments' = segments /\ ~done'
        /\ segments[s].words = <<>>
    BY <1>1, <1>d DEF DropBlank, NextSegment, Whole, packing
  <2>3. Behind'
    <3>1. CASE pieces = <<>>
      BY <1>t, <2>2, <3>1 DEF Behind, Silent
    <3>2. CASE pieces # <<>>
      BY <1>t, <2>1, <2>2, <3>2 DEF Behind, Silent
    <3> QED
      BY <3>1, <3>2
  <2>4. PiecesTile'
    BY <2>2 DEF PiecesTile, Follows, Silent
  <2> QED
    BY <1>0, <2>3, <2>4
<1>2. CASE KeepSegment
  <2>1. cut.from = 1 /\ s <= Len(segments)
    BY <1>2, <1>t, <1>w DEF KeepSegment, Cutting, Splits
  <2>2. /\ segments[s].size \in Nat /\ Len(segments[s].words) \in Nat
        /\ Len(segments[s].words) >= 1
    BY <1>2, <2>1, SegmentTyped DEF KeepSegment
  <2>3. /\ s' = s + 1 /\ cut'.from = 1 /\ segments' = segments /\ UNCHANGED packing
        /\ pieces' = Append(pieces, Piece(cut.from, Len(segments[s].words), segments[s].size))
    BY <1>2, <2>1 DEF KeepSegment, NextSegment, Whole
  <2>4. /\ PiecesTile'
        /\ pieces' # <<>> /\ pieces'[Len(pieces')].seg = s
        /\ pieces'[Len(pieces')].to = Len(segments[s].words)
    BY <2>1, <2>2, <2>3, AppendTile
  <2>5. Behind'
    BY <2>1, <2>3, <2>4, BehindWhole DEF TypeOK
  <2> QED
    BY <1>0, <2>4, <2>5
<1>3. CASE SplitWord
  <2>1. s <= Len(segments) /\ s' = s /\ segments' = segments /\ UNCHANGED packing
    BY <1>3 DEF SplitWord, Splits
  <2> DEFINE n == WordSize(segments[s].words[cut.next])
  <2>2. CASE cut.running > 0 /\ cut.running + n > MaxTokens
    <3>1. /\ pieces' = Append(pieces, Piece(cut.from, cut.next - 1, cut.running))
          /\ cut'.from = cut.next
      BY <1>3, <2>2 DEF SplitWord
    <3>2. cut.next - 1 \in Nat /\ cut.from <= cut.next - 1
      BY <1>t, <2>2 DEF Cutting
    <3>3. /\ PiecesTile'
          /\ pieces' # <<>> /\ pieces'[Len(pieces')].seg = s
          /\ pieces'[Len(pieces')].to = cut.next - 1
      BY <1>t, <2>1, <3>1, <3>2, AppendTile
    <3>4. cut'.from > 1
      BY <1>t, <3>1, <3>2
    <3>5. Behind'
      BY <2>1, <3>1, <3>3, <3>4 DEF Behind
    <3> QED
      BY <1>0, <3>3, <3>5
  <2>3. CASE ~(cut.running > 0 /\ cut.running + n > MaxTokens)
    <3>1. pieces' = pieces /\ cut' = [cut EXCEPT !.next = @ + 1, !.running = @ + n]
      BY <1>3, <2>3 DEF SplitWord
    <3>2. cut'.from = cut.from
      BY <3>1 DEF TypeOK
    <3>3. Behind' /\ PiecesTile'
      BY <1>d, <2>1, <3>1, <3>2 DEF Behind, PiecesTile, Follows, Silent, packing
    <3> QED
      BY <1>0, <3>3
  <2> QED
    BY <2>2, <2>3
<1>4. CASE SplitRest
  <2>1. /\ s <= Len(segments) /\ s' = s + 1 /\ cut'.from = 1 /\ segments' = segments
        /\ UNCHANGED packing
        /\ pieces' = Append(pieces, Piece(cut.from, Len(segments[s].words), cut.running))
    BY <1>4 DEF SplitRest, Splits, NextSegment, Whole
  <2>2. Len(segments[s].words) \in Nat /\ cut.from <= Len(segments[s].words)
    <3>1. Len(segments[s].words) \in Nat /\ Len(segments[s].words) >= 1
      BY <1>4, <2>1, SegmentTyped DEF SplitRest, Splits
    <3>2. cut.next = Len(segments[s].words) + 1
      BY <1>4, <1>t, <3>1 DEF SplitRest, Cutting
    <3>3. cut.running > 0
      BY <1>t, <1>w, <3>1, <3>2
    <3> QED
      BY <1>t, <3>1, <3>2, <3>3 DEF Cutting
  <2>3. /\ PiecesTile'
        /\ pieces' # <<>> /\ pieces'[Len(pieces')].seg = s
        /\ pieces'[Len(pieces')].to = Len(segments[s].words)
    BY <1>t, <2>1, <2>2, AppendTile
  <2>4. Behind'
    BY <2>1, <2>3, BehindWhole DEF TypeOK
  <2> QED
    BY <1>0, <2>3, <2>4
<1>5. CASE PackPiece \/ EmitAndPack
  <2>1. UNCHANGED <<segments, s, cut, pieces, done>>
    BY <1>5 DEF PackPiece, EmitAndPack
  <2>2. Behind' /\ PiecesTile'
    BY <2>1 DEF Behind, PiecesTile, Follows, Silent
  <2> QED
    BY <1>0, <2>2
<1>6. CASE Finish
  <2>1. UNCHANGED <<segments, s, cut, pieces>> /\ s = Len(segments) + 1 /\ done'
    BY <1>6 DEF Finish, TypeOK
  <2>2. cut.from = 1
    BY <1>t, <1>w, <2>1 DEF Cutting, Splits, TypeOK
  <2>3. Behind'
    BY <2>1 DEF Behind, Silent
  <2>4. s - 1 = Len(segments)
    BY <2>1, <1>t DEF TypeOK
  <2>5. IF pieces = <<>> THEN Silent(1, Len(segments))
        ELSE LET z == pieces[Len(pieces)]
             IN /\ z.to = Len(segments[z.seg].words)
                /\ Silent(z.seg + 1, Len(segments))
    BY <2>2, <2>4 DEF Behind
  <2>6. PiecesTile'
    BY <2>1, <2>5 DEF PiecesTile, Follows, Silent
  <2> QED
    BY <1>0, <2>3, <2>6
<1>7. CASE Returned \/ UNCHANGED vars
  <2>1. Behind' /\ PiecesTile'
    BY <1>7 DEF Returned, vars, Behind, PiecesTile, Follows, Silent
  <2> QED
    BY <1>0, <2>1
<1> QED
  BY <1>1, <1>2, <1>3, <1>4, <1>5, <1>6, <1>7 DEF Next

LEMMA InitTile == Init => TileInv
<1> SUFFICES ASSUME Init PROVE Behind /\ PiecesTile
  BY InitInv DEF TileInv
<1> QED
  BY DEF Init, Whole, Behind, PiecesTile, Silent

\* No word of the transcript is lost, repeated or moved.
THEOREM PiecesAlwaysTile == Spec => []PiecesTile
<1>1. TileInv => PiecesTile
  BY DEF TileInv
<1> QED
  BY <1>1, InitTile, TileNext, PTL DEF Spec

-----------------------------------------------------------------------------
(* The run around the loops: embedding and storing. *)

\* n chunks of run m, each beside its own vector.
RowsOf(n, m) == [k \in 1..n |-> [run |-> m, of |-> k]]

\* What the run holds in memory: the vectors of the first chunks, in order, and
\* of all of them once it deletes.
MemoryInv ==
    /\ stage \in {"idle", "chunk", "embed", "delete", "upsert", "count"}
    /\ texts \in Nat /\ runs \in Nat
    /\ stage \in {"idle", "chunk"} => texts = 0 /\ vectors = <<>>
    /\ stage \notin {"upsert", "count"} => stored = 0
    /\ stage = "embed" => \E n \in Nat : n < texts /\ vectors = [k \in 1..n |-> k]
    /\ stage \in {"delete", "upsert", "count"} => texts > 0
    /\ EmbeddedBeforeDelete

\* What the collection holds: the first chunks of one run, and while a run
\* upserts, of that run; all of them when it counts.
RowsInv ==
    /\ \E n, m \in Nat : rows = RowsOf(n, m)
    /\ stage \in {"upsert", "count"} => stored \in Nat /\ halfway /\ rows = RowsOf(stored, runs)
    /\ stage = "upsert" => stored < texts
    /\ stage = "count" => stored = texts
    /\ WholeUnlessHalfway

IngestInv == MemoryInv /\ RowsInv

\* An answer with a vector for each input is put in the order of the inputs,
\* whatever the order it came in.
LEMMA ParsedInOrder ==
    ASSUME NEW n \in Nat, NEW m \in Nat, NEW data \in Answers((n + 1)..(n + m)),
           Accepts(data, (n + 1)..(n + m))
    PROVE  Parsed(data) = [k \in 1..m |-> n + k]
<1> DEFINE B == (n + 1)..(n + m)
           Lower(x) == {y \in B : y < x}
<1>1. IsFiniteSet(B) /\ Cardinality(B) = m
  BY FS_Interval
<1>2. PICK sent \in SUBSET B : data \in SetToSeqs(sent)
  BY DEF Answers, SetToAllKPermutations
<1>3. /\ data \in [1..Cardinality(sent) -> sent]
      /\ \A j, k \in 1..Cardinality(sent) : j # k => data[j] # data[k]
  BY <1>2 DEF SetToSeqs
<1> HIDE DEF B
<1>4. Len(data) = m
  BY <1>1 DEF Accepts, B
<1>5. IsFiniteSet(sent) /\ Cardinality(sent) \in Nat
  BY <1>1, FS_Subset, FS_CardinalityType
<1>6. Cardinality(sent) = m
  BY <1>3, <1>4, <1>5
<1>7. sent = B
  BY <1>1, <1>6, FS_Subset
<1>8. data \in [1..m -> B] /\ \A j, k \in 1..m : data[j] = data[k] => j = k
  BY <1>3, <1>6, <1>7
<1>9. ToSet(data) = B
  <2>1. data \in Injection(1..m, B)
    BY <1>8 DEF Injection, IsInjective
  <2>2. Cardinality(1..m) = m
    BY FS_Interval
  <2>3. data \in Surjection(1..m, B)
    BY <1>1, <2>1, <2>2, FS_Injection
  <2>4. \A x \in B : \E k \in 1..m : data[k] = x
    BY <2>3 DEF Surjection
  <2> QED
    BY <1>8, <2>4 DEF ToSet
<1>10. ASSUME NEW x \in B
       PROVE  Cardinality(Lower(x)) = x - n - 1
  <2>1. x \in Int /\ Lower(x) = (n + 1)..(x - 1)
    BY DEF B
  <2>2. x \in Int /\ n + 1 \in Int /\ x - 1 \in Int /\ n + 1 <= x
    BY DEF B
  <2>3. Cardinality((n + 1)..(x - 1)) = IF n + 1 > x - 1 THEN 0 ELSE (x - 1) - (n + 1) + 1
    BY <2>2, FS_Interval
  <2> HIDE DEF Lower
  <2> QED
    BY <2>1, <2>2, <2>3
<1>11. ASSUME NEW k \in 1..m
       PROVE  (CHOOSE x \in B : Cardinality(Lower(x)) = k - 1) = n + k
  <2>1. n + k \in B
    BY DEF B
  <2>2. \A x \in B : x \in Int /\ (Cardinality(Lower(x)) = k - 1 <=> x = n + k)
    <3> SUFFICES ASSUME NEW x \in B
                 PROVE  x \in Int /\ (Cardinality(Lower(x)) = k - 1 <=> x = n + k)
      OBVIOUS
    <3>1. x \in Int
      BY DEF B
    <3> HIDE DEF Lower
    <3> QED
      BY <1>10, <3>1
  <2> HIDE DEF Lower
  <2> QED
    BY <2>1, <2>2
<1>12. Parsed(data) = [k \in 1..m |-> CHOOSE x \in B : Cardinality(Lower(x)) = k - 1]
  <2>1. Parsed(data) = [k \in 1..Len(data) |->
                           CHOOSE x \in ToSet(data) : Cardinality({y \in ToSet(data) : y < x}) = k - 1]
    BY DEF Parsed
  <2> QED
    BY <1>4, <1>9, <2>1
<1> HIDE DEF Lower
<1> QED
  BY <1>11, <1>12

\* A batch ends at its size or with the last chunk.
LEMMA BatchEnds ==
    ASSUME texts \in Nat, NEW n \in Nat, n < texts, NEW size \in Nat \ {0}
    PROVE  \E top \in Nat : /\ n < top /\ top <= texts
                            /\ Batch(n, size) = (n + 1)..top
                            /\ Max(Batch(n, size)) = top
<1> DEFINE top == IF n + size < texts THEN n + size ELSE texts
<1>1. top \in Nat /\ n < top /\ top <= texts
  OBVIOUS
<1>2. Batch(n, size) = (n + 1)..top
  BY DEF Batch
<1> HIDE DEF top
<1>3. top \in (n + 1)..top /\ \A x \in (n + 1)..top : x \in Int /\ top >= x
  BY <1>1
<1>4. Max((n + 1)..top) = top
  <2>1. \A x \in (n + 1)..top : (\A y \in (n + 1)..top : x >= y) <=> x = top
    BY <1>1, <1>3
  <2> QED
    BY <1>3, <2>1 DEF Max
<1> QED
  BY <1>1, <1>2, <1>4

\* A call of the loops starts afresh.
LEMMA FreshCall == Init' => TileInv'
BY InitTile, PTL

LEMMA CallStarts ==
    ASSUME NEW transcript \in Transcripts, Locals(transcript)
    PROVE  TileInv'
BY FreshCall DEF Locals, Init

LEMMA EndsAfresh ==
    ASSUME NEW status, Ends(status)
    PROVE  /\ TileInv' /\ stage' = "idle" /\ runs' = runs
           /\ texts' = 0 /\ vectors' = <<>> /\ stored' = 0
BY CallStarts, ChromaIngestAssumption DEF Ends, ChromaIngestAssumption

LEMMA EndsMemory ==
    ASSUME MemoryInv, NEW status, Ends(status)
    PROVE  MemoryInv'
BY EndsAfresh DEF MemoryInv, EmbeddedBeforeDelete

LEMMA EndsRows ==
    ASSUME RowsInv, NEW status, Ends(status), UNCHANGED <<rows, made, halfway>>
    PROVE  RowsInv'
BY EndsAfresh DEF RowsInv, WholeUnlessHalfway, RowsOf

LEMMA SameRows ==
    ASSUME RowsInv, UNCHANGED <<rows, made, halfway>>,
           stage' \notin {"upsert", "count"}
    PROVE  RowsInv'
BY DEF RowsInv, WholeUnlessHalfway, RowsOf

LEMMA StartInv ==
    ASSUME TileInv, IngestInv, NEW force \in BOOLEAN,
           StartSkips(force) \/ \E transcript \in Transcripts : Start(force, transcript)
    PROVE  TileInv' /\ IngestInv'
<1>1. CASE StartSkips(force)
  <2>1. TileInv'
    BY <1>1, TileNext DEF StartSkips, callVars
  <2>2. MemoryInv'
    BY <1>1 DEF StartSkips, IngestInv, MemoryInv, EmbeddedBeforeDelete
  <2>3. RowsInv'
    BY <1>1, SameRows DEF StartSkips, IngestInv
  <2> QED
    BY <2>1, <2>2, <2>3 DEF IngestInv
<1>2. ASSUME NEW transcript \in Transcripts, Start(force, transcript)
      PROVE  TileInv' /\ IngestInv'
  <2>1. TileInv'
    BY <1>2, CallStarts DEF Start
  <2>2. MemoryInv'
    BY <1>2 DEF Start, IngestInv, MemoryInv, EmbeddedBeforeDelete
  <2>3. RowsInv'
    BY <1>2, SameRows DEF Start, IngestInv
  <2> QED
    BY <2>1, <2>2, <2>3 DEF IngestInv
<1> QED
  BY <1>1, <1>2

LEMMA LoopInv ==
    ASSUME TileInv, IngestInv, ChunkStep \/ UNCHANGED ingestVars
    PROVE  TileInv' /\ IngestInv'
<1>1. TileInv'
  BY TileNext DEF ChunkStep, Next, ingestVars, callVars
<1>2. UNCHANGED runVars
  BY DEF ChunkStep, ingestVars
<1>3. MemoryInv'
  BY <1>2 DEF runVars, IngestInv, MemoryInv, EmbeddedBeforeDelete
<1>4. RowsInv'
  BY <1>2 DEF runVars, IngestInv, RowsInv, WholeUnlessHalfway, RowsOf
<1> QED
  BY <1>1, <1>3, <1>4 DEF IngestInv

LEMMA ChunkedInv ==
    ASSUME TileInv, IngestInv, Chunked
    PROVE  TileInv' /\ IngestInv'
<1>1. CASE chunks = <<>>
  BY <1>1, EndsAfresh, EndsMemory, EndsRows DEF Chunked, IngestInv
<1>2. CASE chunks # <<>>
  <2>1. /\ stage = "chunk" /\ stage' = "embed" /\ texts' = Len(chunks) /\ Locals(<<>>)
        /\ UNCHANGED <<vectors, stored, runs, rows, made, halfway>>
    BY <1>2 DEF Chunked
  <2>2. TileInv'
    BY <2>1, CallStarts, ChromaIngestAssumption DEF ChromaIngestAssumption
  <2>3. Len(chunks) \in Nat /\ Len(chunks) > 0
    BY <1>2 DEF TileInv, Inv, TypeOK
  <2>4. vectors' = [k \in 1..0 |-> k] /\ 0 < texts'
    BY <2>1, <2>3 DEF IngestInv, MemoryInv
  <2>5. MemoryInv'
    BY <2>1, <2>3, <2>4 DEF IngestInv, MemoryInv, EmbeddedBeforeDelete
  <2>6. RowsInv'
    BY <2>1, SameRows DEF IngestInv
  <2> QED
    BY <2>2, <2>5, <2>6 DEF IngestInv
<1> QED
  BY <1>1, <1>2

LEMMA EmbedBatchInv ==
    ASSUME TileInv, IngestInv, NEW data \in Answers(Batch(Len(vectors), BatchSize)),
           EmbedBatch(data)
    PROVE  TileInv' /\ IngestInv'
<1>1. PICK n \in Nat : n < texts /\ vectors = [k \in 1..n |-> k]
  BY DEF EmbedBatch, IngestInv, MemoryInv
<1>2. Len(vectors) = n /\ texts \in Nat /\ stage = "embed" /\ stored = 0
  BY <1>1 DEF EmbedBatch, IngestInv, MemoryInv
<1>3. PICK top \in Nat : /\ n < top /\ top <= texts
                         /\ Batch(n, BatchSize) = (n + 1)..top
                         /\ Max(Batch(n, BatchSize)) = top
  BY <1>1, <1>2, BatchEnds, ChromaIngestAssumption DEF ChromaIngestAssumption
<1>4. /\ Accepts(data, (n + 1)..top) /\ data \in Answers((n + 1)..top)
      /\ vectors' = vectors \o Parsed(data)
      /\ stage' = IF top = texts THEN "delete" ELSE "embed"
      /\ UNCHANGED <<callVars, texts, stored, rows, runs, made, halfway>>
  BY <1>2, <1>3 DEF EmbedBatch
<1>5. Parsed(data) = [k \in 1..(top - n) |-> n + k]
  <2>1. top - n \in Nat /\ n + (top - n) = top
    BY <1>3
  <2> QED
    BY <1>4, <2>1, ParsedInOrder
<1>6. vectors' = [k \in 1..top |-> k]
  <2> DEFINE answer == Parsed(data)
  <2>1. answer = [k \in 1..(top - n) |-> n + k] /\ vectors' = vectors \o answer
    BY <1>4, <1>5
  <2> HIDE DEF answer
  <2>2. top - n \in Nat
    BY <1>3
  <2>3. Len(answer) = top - n /\ n + (top - n) = top
    BY <1>3, <2>1, <2>2
  <2>4. vectors \in Seq(Nat) /\ answer \in Seq(Nat)
    BY <1>1, <2>1, <2>2
  <2> DEFINE joined == vectors \o answer
  <2>5. /\ joined \in Seq(Nat) /\ Len(joined) = Len(vectors) + Len(answer)
        /\ \A k \in 1..(Len(vectors) + Len(answer)) :
              joined[k] = IF k <= Len(vectors) THEN vectors[k] ELSE answer[k - Len(vectors)]
    BY <2>4, ConcatProperties
  <2>6. vectors' = joined
    BY <2>1
  <2> HIDE DEF joined
  <2>7. joined \in Seq(Nat) /\ Len(joined) = top
    BY <1>2, <2>3, <2>5
  <2>8. ASSUME NEW k \in 1..top
        PROVE  joined[k] = k
    <3>1. joined[k] = IF k <= n THEN vectors[k] ELSE answer[k - n]
      BY <1>2, <2>3, <2>5
    <3> QED
      BY <1>1, <1>3, <2>1, <3>1
  <2>9. joined = [k \in 1..top |-> joined[k]]
    BY <2>7
  <2> QED
    BY <2>6, <2>8, <2>9
<1>7. TileInv'
  BY <1>4, TileNext DEF callVars
<1>8. MemoryInv'
  <2>1. texts' = texts /\ runs' = runs /\ stored' = 0 /\ runs \in Nat
    BY <1>2, <1>4 DEF IngestInv, MemoryInv
  <2>2. CASE top = texts
    BY <1>2, <1>3, <1>4, <1>6, <2>1, <2>2 DEF MemoryInv, EmbeddedBeforeDelete
  <2>3. CASE top # texts
    <3>1. stage' = "embed" /\ top < texts'
      BY <1>2, <1>3, <1>4, <2>1, <2>3
    <3> QED
      BY <1>2, <1>6, <2>1, <3>1 DEF MemoryInv, EmbeddedBeforeDelete
  <2> QED
    BY <2>2, <2>3
<1>9. RowsInv'
  BY <1>4, SameRows DEF IngestInv
<1> QED
  BY <1>7, <1>8, <1>9 DEF IngestInv

LEMMA DeleteInv ==
    ASSUME TileInv, IngestInv, Delete
    PROVE  TileInv' /\ IngestInv'
<1>1. TileInv'
  BY TileNext DEF Delete, callVars
<1>2. MemoryInv'
  BY DEF Delete, IngestInv, MemoryInv, EmbeddedBeforeDelete
<1>3. rows' = RowsOf(0, runs')
  BY DEF Delete, RowsOf
<1>4. stage' = "upsert" /\ stored' = 0 /\ 0 < texts' /\ runs' \in Nat /\ halfway'
  BY DEF Delete, IngestInv, MemoryInv
<1>5. RowsInv'
  BY <1>3, <1>4 DEF RowsInv, WholeUnlessHalfway, RowsOf
<1> QED
  BY <1>1, <1>2, <1>5 DEF IngestInv

LEMMA UpsertBatchInv ==
    ASSUME TileInv, IngestInv, UpsertBatch
    PROVE  TileInv' /\ IngestInv'
<1>1. /\ stage = "upsert" /\ texts \in Nat /\ runs \in Nat /\ stored \in Nat /\ stored < texts
      /\ rows = RowsOf(stored, runs) /\ vectors = [k \in 1..texts |-> k] /\ halfway
  BY DEF UpsertBatch, IngestInv, MemoryInv, RowsInv, EmbeddedBeforeDelete
<1>2. PICK top \in Nat : /\ stored < top /\ top <= texts
                         /\ Batch(stored, MaxBatch) = (stored + 1)..top
                         /\ Max(Batch(stored, MaxBatch)) = top
  BY <1>1, BatchEnds, ChromaIngestAssumption DEF ChromaIngestAssumption
<1>3. rows' = RowsOf(top, runs)
  <2>1. DOMAIN rows \cup (stored + 1)..top = 1..top
    BY <1>1, <1>2 DEF RowsOf
  <2>2. rows' = [k \in 1..top |-> IF k \in (stored + 1)..top
                                    THEN [run |-> runs, of |-> vectors[k]] ELSE rows[k]]
    BY <1>2, <2>1 DEF UpsertBatch, Upserted
  <2>3. \A k \in 1..top : rows'[k] = [run |-> runs, of |-> k]
    BY <1>1, <1>2, <2>2 DEF RowsOf
  <2> QED
    BY <2>2, <2>3 DEF RowsOf
<1>4. /\ stored' = top /\ stage' = IF top = texts THEN "count" ELSE "upsert"
      /\ UNCHANGED <<callVars, texts, vectors, runs, made, halfway>>
  BY <1>2 DEF UpsertBatch
<1>5. TileInv'
  BY <1>4, TileNext DEF callVars
<1>6. MemoryInv'
  BY <1>1, <1>4 DEF IngestInv, MemoryInv, EmbeddedBeforeDelete
<1>7. RowsInv'
  <2>1. rows' = RowsOf(stored', runs') /\ stored' \in Nat /\ runs' \in Nat
    BY <1>1, <1>3, <1>4 DEF RowsOf
  <2>2. /\ halfway' /\ (stage' = "upsert" => stored' < texts')
        /\ (stage' = "count" => stored' = texts')
    BY <1>1, <1>2, <1>4
  <2> QED
    BY <2>1, <2>2 DEF RowsInv, WholeUnlessHalfway, RowsOf
<1> QED
  BY <1>5, <1>6, <1>7 DEF IngestInv

LEMMA CountedInv ==
    ASSUME TileInv, IngestInv, Counted
    PROVE  TileInv' /\ IngestInv'
<1>1. /\ rows = RowsOf(texts, runs) /\ texts \in Nat /\ runs \in Nat
  BY DEF Counted, IngestInv, MemoryInv, RowsInv
<1>2. made' = [run |-> runs, size |-> texts] /\ rows' = rows /\ Ends("indexed")
  BY DEF Counted
<1>3. TileInv' /\ stage' = "idle"
  BY <1>2, EndsAfresh
<1>4. MemoryInv'
  BY <1>2, EndsMemory DEF IngestInv
<1>5. rows' = [k \in 1..made'.size |-> [run |-> made'.run, of |-> k]]
  BY <1>1, <1>2 DEF RowsOf
<1>6. RowsInv'
  BY <1>1, <1>2, <1>3, <1>5 DEF RowsInv, WholeUnlessHalfway, RowsOf
<1> QED
  BY <1>3, <1>4, <1>6 DEF IngestInv

LEMMA StopInv ==
    ASSUME TileInv, IngestInv, EmbedRaises \/ StoreRaises \/ Kill
    PROVE  TileInv' /\ IngestInv'
<1>1. PICK status \in {"failed", "none"} : Ends(status) /\ UNCHANGED <<rows, made, halfway>>
  BY DEF EmbedRaises, StoreRaises, Kill
<1> QED
  BY <1>1, EndsAfresh, EndsMemory, EndsRows DEF IngestInv

LEMMA IngestNextInv == TileInv /\ IngestInv /\ [IngestNext]_ingestVars => TileInv' /\ IngestInv'
BY StartInv, LoopInv, ChunkedInv, EmbedBatchInv, DeleteInv, UpsertBatchInv, CountedInv,
   StopInv
   DEF IngestNext

\* The run keeps its invariant around the loops, and the loops theirs inside it.
LEMMA IngestInvHolds == IngestSpec => [](TileInv /\ IngestInv)
<1>1. IngestInit => TileInv
  BY InitTile DEF IngestInit
<1>2. IngestInit => MemoryInv
  BY DEF IngestInit, MemoryInv, EmbeddedBeforeDelete
<1>3. ASSUME IngestInit
      PROVE  RowsInv
  <2>1. rows = RowsOf(0, 0) /\ rows = [k \in 1..made.size |-> [run |-> made.run, of |-> k]]
    BY <1>3 DEF IngestInit, RowsOf
  <2> QED
    BY <1>3, <2>1 DEF IngestInit, RowsInv, WholeUnlessHalfway
<1> QED
  BY <1>1, <1>2, <1>3, IngestNextInv, PTL DEF IngestSpec, IngestInv

\* However often the ingestion calls the loops, whatever stops it between two
\* steps of them, what chunk_transcript promises holds of every call.
THEOREM LoopsInsideIngestion ==
    IngestSpec => [](TypeOK /\ PiecesTile /\ ChunksAdvance /\ WithinBudget /\ OverlapIsLongest)
<1>1. TileInv => TypeOK /\ PiecesTile /\ ChunksAdvance /\ WithinBudget /\ OverlapIsLongest
  BY DEF TileInv, Inv
<1> QED
  BY <1>1, IngestInvHolds, PTL

\* No row is deleted before each chunk has its vector, for any number of chunks,
\* any size of a request and any order of the answers.
THEOREM AlwaysEmbeddedBeforeDelete == IngestSpec => []EmbeddedBeforeDelete
<1>1. IngestInv => EmbeddedBeforeDelete
  BY DEF IngestInv, MemoryInv
<1> QED
  BY <1>1, IngestInvHolds, PTL

\* The collection holds chunks of one run only, without a hole, wherever the run
\* that wrote them stopped.
THEOREM AlwaysNeverMixed == IngestSpec => []NeverMixed
<1>1. ASSUME IngestInv
      PROVE  NeverMixed
  <2>1. PICK n \in Nat, m \in Nat : rows = RowsOf(n, m)
    BY <1>1 DEF IngestInv, RowsInv
  <2>2. DOMAIN rows = 1..n /\ \A k \in 1..n : rows[k] = [run |-> m, of |-> k]
    BY <2>1 DEF RowsOf
  <2>3. Cardinality(1..n) = n
    BY FS_Interval
  <2>4. \A k \in 1..n : rows[1].run = m
    BY <2>2
  <2> QED
    BY <2>2, <2>3, <2>4 DEF NeverMixed
<1> QED
  BY <1>1, IngestInvHolds, PTL

\* Unless a run stopped behind its delete, the collection is all that the latest
\* indexed run made.
THEOREM AlwaysWholeUnlessHalfway == IngestSpec => []WholeUnlessHalfway
<1>1. IngestInv => WholeUnlessHalfway
  BY DEF IngestInv, RowsInv
<1> QED
  BY <1>1, IngestInvHolds, PTL

=============================================================================
