------------------------------ MODULE Splitting -----------------------------
(* The structure aware splitter (adapters/splitters/structure_aware.py): a      *)
(* clean text is cut into segments along its structure, segments that are too   *)
(* long are cut by tokens, and segments are packed into chunks.  A place in the *)
(* text is the number of tokens before it; a range covers the tokens after      *)
(* `from` up to `to`.                                                           *)
EXTENDS Integers, Sequences, FiniteSets, SequencesExt

CONSTANTS
    TargetTokens,     \* a chunk is closed once it has this many
    MaxTokens,        \* no leaf may have more (the embedding's limit applied)
    OverlapTokens,    \* what a chunk may repeat of the one before it
    SpecialTokens     \* what the tokenizer adds to every text it counts

ASSUME SplittingAssumption ==
    /\ TargetTokens \in Nat \ {0} /\ MaxTokens \in Nat \ {0}
    /\ OverlapTokens \in Nat /\ SpecialTokens \in Nat
    /\ TargetTokens <= MaxTokens /\ OverlapTokens < TargetTokens

CountTokens(tokens) == Max({1, tokens + SpecialTokens})

LineTokens(line) == FoldLeft(LAMBDA n, p : n + p.size, 0, line.pieces)
TextTokens(text) == FoldLeft(LAMBDA n, line : n + LineTokens(line), 0, text)

Structural == {"heading", "row", "rule"}

-----------------------------------------------------------------------------
(* Segments.  The scan remembers where it is (pos), where the open block or     *)
(* sentence began (from) and whether it is in code, in a paragraph or neither.  *)

Segment(from, to, kind) ==
    IF from < to THEN <<[from |-> from, to |-> to, kind |-> kind]>> ELSE <<>>

(* A sentence end closes a segment; what follows begins the next one.           *)
SentencePiece(scan, piece) ==
    LET to == scan.pos + piece.size
    IN  IF piece.ends
        THEN [scan EXCEPT !.pos = to, !.from = to,
                          !.segments = @ \o Segment(scan.from, to, "sentence")]
        ELSE [scan EXCEPT !.pos = to]

FlushParagraph(scan) ==
    IF scan.mode = "paragraph"
    THEN [scan EXCEPT !.mode = "none",
                      !.segments = @ \o Segment(scan.from, scan.pos, "paragraph")]
    ELSE scan

ScanLine(scan, line) ==
    LET flat == FlushParagraph(scan)
        to   == scan.pos + LineTokens(line)
    IN  CASE scan.mode = "code" /\ line.kind = "fence" ->
               [scan EXCEPT !.pos = to, !.mode = "none",
                            !.segments = @ \o Segment(scan.from, to, "code_block")]
          [] scan.mode = "code" /\ line.kind # "fence" ->
               [scan EXCEPT !.pos = to]
          [] scan.mode # "code" /\ line.kind = "fence" ->
               [flat EXCEPT !.pos = to, !.from = scan.pos, !.mode = "code"]
          [] scan.mode # "code" /\ line.kind = "blank" -> flat
          [] scan.mode # "code" /\ line.kind \in Structural ->
               [flat EXCEPT !.pos = to,
                            !.segments = @ \o Segment(scan.pos, to, "structure_line")]
          [] OTHER ->
               FoldLeft(SentencePiece,
                        [scan EXCEPT !.mode = "paragraph",
                                     !.from = IF scan.mode = "paragraph" THEN @ ELSE scan.pos],
                        line.pieces)

(* Code that is never closed is one block up to the end of the text.            *)
StructureSegments(text) ==
    LET scan == FoldLeft(ScanLine,
                         [segments |-> <<>>, mode |-> "none", pos |-> 0, from |-> 0], text)
    IN  IF scan.mode = "code"
        THEN scan.segments \o Segment(scan.from, scan.pos, "code_block")
        ELSE FlushParagraph(scan).segments

(* The header of a table: its first line and the rule under it.                 *)
TableHeader(kind, text) ==
    IF kind = "sheet_rows" /\ Len(text) >= 2
          /\ text[1].kind \in {"row", "rule"} /\ text[2].kind = "rule"
    THEN LineTokens(text[1]) + LineTokens(text[2])
    ELSE 0
HeaderCost(header) == IF header = 0 THEN 0 ELSE CountTokens(header)

(* Greedy cuts of the longest length the budget leaves, at least one token.     *)
HardSplitWholePieces(segment, header) ==
    LET room == Max({1, MaxTokens - HeaderCost(header) - SpecialTokens})
    IN  [i \in 1..((segment.to - segment.from) \div room) |->
            [from |-> segment.from + (i - 1) * room, to |-> segment.from + i * room,
             kind |-> "token_hard_cut"]]
HardSplit(segment, header) ==
    LET room == Max({1, MaxTokens - HeaderCost(header) - SpecialTokens})
        n    == segment.to - segment.from
    IN  [i \in 1..((n + room - 1) \div room) |->
            [from |-> segment.from + (i - 1) * room,
             to   |-> IF i * room >= n THEN segment.to ELSE segment.from + i * room,
             kind |-> "token_hard_cut"]]

Fits(segment, header) ==
    CountTokens(segment.to - segment.from) + HeaderCost(header) <= MaxTokens

ExpandOverlong(segments, header) ==
    FoldLeft(LAMBDA out, s : out \o (IF Fits(s, header) THEN <<s>> ELSE HardSplit(s, header)),
             <<>>, segments)

(* A header that leaves no room fails the root: when a segment has to be cut    *)
(* for it, or afterwards in any case.                                           *)
HeaderLeavesRoom(header) == HeaderCost(header) < MaxTokens

-----------------------------------------------------------------------------
(* Packing.                                                                     *)

Cost(segments, header, start, end) ==
    CountTokens(segments[end].to - segments[start].from)
        + (IF start > 1 THEN HeaderCost(header) ELSE 0)

(* Segments are added while they fit and until the target is reached.  A first  *)
(* segment that does not fit is taken alone.                                    *)
ChunkEnd(segments, header, start) ==
    LET packed == {end \in start..Len(segments) :
                      /\ Cost(segments, header, start, end) <= MaxTokens
                      /\ \A e \in start..(end - 1) :
                             Cost(segments, header, start, e) < TargetTokens}
    IN  IF packed = {} THEN start ELSE Max(packed)
ChunkFails(segments, header, start) ==
    Cost(segments, header, start, ChunkEnd(segments, header, start)) > MaxTokens

(* Where the next chunk starts: whole segments of this one are repeated as long *)
(* as they fit the overlap, never all of them; else one sentence or paragraph.  *)
OverlapStart(segments, start, end) ==
    LET inside == {i \in start..end :
                      CountTokens(segments[end].to - segments[i].from) <= OverlapTokens}
    IN  CASE OverlapTokens = 0 -> end + 1
          [] OverlapTokens > 0 /\ inside # {} /\ Min(inside) > start -> Min(inside)
          [] OverlapTokens > 0 /\ (inside = {} \/ Min(inside) = start)
                /\ end > start /\ segments[end].kind \in {"sentence", "paragraph"} -> end
          [] OTHER -> end + 1

(* The leaf of a chunk: the table's header is repeated from the second leaf on, *)
(* image captions join the first one when they fit.                             *)
LeafTokens(chunk, ordinal, header, captions) ==
    LET body  == chunk.to - chunk.from
        alone == CountTokens(body + (IF ordinal > 0 THEN header ELSE 0))
        rich  == CountTokens(body + captions)
    IN  IF ordinal = 0 /\ captions > 0 /\ rich <= MaxTokens THEN rich ELSE alone

Leaf(chunk, ordinal, header, captions) ==
    [ordinal  |-> ordinal, from |-> chunk.from, to |-> chunk.to,
     header   |-> header > 0 /\ ordinal > 0,
     tokens   |-> LeafTokens(chunk, ordinal, header, captions),
     boundary |-> chunk.kind]
=============================================================================
