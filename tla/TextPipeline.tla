---------------------------- MODULE TextPipeline ----------------------------
(* What happens to the text of one uploaded file in one attempt of its ingest   *)
(* job (services/ingestion.py process): it is loaded into roots, the roots are  *)
(* cleaned together, and each is split into the leaves that will be retrieved.  *)
(* Nothing here is shared with another attempt; what is hard is in the data.    *)
EXTENDS Loading, Cleaning, Splitting

CONSTANTS
    Files,            \* the files uploaded: [format, content]
    Recognized,       \* what the OCR engine may read on a page
    CaptionTokens     \* of the caption the vision model writes for an image

(* What a parser makes of a file of each format.                                *)
Contents ==
    [text  |-> Texts,
     html  |-> Seq(Events),
     docx  |-> Seq([heading : BOOLEAN, image : BOOLEAN, block : Texts]),
     sheet |-> Seq(Seq(Nat)),
     pdf   |-> Seq([text : Texts, enough : BOOLEAN, images : Nat])]

ASSUME FilesAssumption ==
    /\ \A f \in Files : f.format \in DOMAIN Contents /\ f.content \in Contents[f.format]
    /\ Recognized \subseteq Texts /\ CaptionTokens \in Nat

VARIABLES
    file,             \* the file being ingested
    stage,            \* "load", "images", "split", "done", "failed"
    roots,            \* the loaded roots
    captions,         \* the tokens of the image captions of each root so far
    clean,            \* their texts after cleaning
    segments,         \* of the root being split
    start,            \* the first segment of its next chunk, 0 between roots
    leaves,           \* for each root split so far or being split, its leaves
    page              \* of a PDF, the next page to load

vars == <<file, stage, roots, captions, clean, segments, start, leaves, page>>

Init ==
    /\ file \in Files
    /\ stage = "load" /\ page = 1 /\ start = 0
    /\ roots = <<>> /\ captions = <<>> /\ clean = <<>> /\ segments = <<>> /\ leaves = <<>>

Fail ==
    /\ stage' = "failed"
    /\ UNCHANGED <<file, roots, captions, clean, segments, start, leaves, page>>

(* A file whose roots come out at once; a file without text is refused.         *)
Loaded ==
    CASE file.format = "text"  -> LoadUtf8(file.content)
      [] file.format = "html"  -> LoadHtml(file.content)
      [] file.format = "docx"  -> LoadDocx(file.content)
      [] file.format = "sheet" -> LoadSheets(file.content)

Load ==
    /\ stage = "load" /\ file.format # "pdf"
    /\ IF Loaded = <<>> THEN Fail
       ELSE /\ stage' = "images" /\ roots' = Loaded
            /\ UNCHANGED <<file, captions, clean, segments, start, leaves, page>>

(* A PDF is read page by page: the OCR engine is asked in between.              *)
LoadPage ==
    /\ stage = "load" /\ file.format = "pdf" /\ page <= Len(file.content)
    /\ \E recognized \in Recognized :
           roots' = roots \o PageRoots(page, file.content[page], recognized)
    /\ page' = page + 1
    /\ UNCHANGED <<file, stage, captions, clean, segments, start, leaves>>

LoadLastPage ==
    /\ stage = "load" /\ file.format = "pdf" /\ page > Len(file.content)
    /\ IF roots = <<>> THEN Fail
       ELSE /\ stage' = "images"
            /\ UNCHANGED <<file, roots, captions, clean, segments, start, leaves, page>>

(* The images of a root are described one after the other; one the model fails  *)
(* on has no caption, and the document goes on.                                 *)
EnrichRoot ==
    /\ stage = "images" /\ Len(captions) < Len(roots)
    /\ \E described \in 0..roots[Len(captions) + 1].images :
           captions' = Append(captions, described * CaptionTokens)
    /\ UNCHANGED <<file, stage, roots, clean, segments, start, leaves, page>>

(* All roots are cleaned at once; one that is left empty fails the document.    *)
Clean ==
    /\ stage = "images" /\ Len(captions) = Len(roots)
    /\ LET cleaned == CleanAll([r \in DOMAIN roots |-> roots[r].text])
       IN  IF \E r \in DOMAIN cleaned : cleaned[r] = <<>> THEN Fail
           ELSE /\ stage' = "split" /\ clean' = cleaned
                /\ UNCHANGED <<file, roots, captions, segments, start, leaves, page>>

-----------------------------------------------------------------------------
(* Splitting, one root after the other.                                         *)

Current == Len(leaves)
HeaderOf(r) == TableHeader(roots[r].kind, clean[r])

BeginRoot ==
    /\ stage = "split" /\ start = 0 /\ Current < Len(clean)
    /\ IF ~HeaderLeavesRoom(HeaderOf(Current + 1)) THEN Fail
       ELSE /\ segments' = ExpandOverlong(StructureSegments(clean[Current + 1]),
                                          HeaderOf(Current + 1))
            /\ start' = 1
            /\ leaves' = Append(leaves, <<>>)
            /\ UNCHANGED <<file, stage, roots, captions, clean, page>>

(* One turn of the packing loop, and the leaf its chunk becomes.                *)
NextChunk ==
    /\ stage = "split" /\ start > 0
    /\ LET header == HeaderOf(Current)
           end    == ChunkEnd(segments, header, start)
           chunk  == [from |-> segments[start].from, to |-> segments[end].to,
                      kind |-> segments[end].kind]
           leaf   == Leaf(chunk, Len(leaves[Current]), header, captions[Current])
       IN  IF ChunkFails(segments, header, start) \/ leaf.tokens > MaxTokens THEN Fail
           ELSE /\ leaves' = [leaves EXCEPT ![Current] = Append(@, leaf)]
                /\ start' = IF end = Len(segments) THEN 0
                            ELSE OverlapStart(segments, start, end)
                /\ UNCHANGED <<file, stage, roots, captions, clean, segments, page>>

Finish ==
    /\ stage = "split" /\ start = 0 /\ Current = Len(clean)
    /\ stage' = "done"
    /\ UNCHANGED <<file, roots, captions, clean, segments, start, leaves, page>>

Next ==
    \/ Load \/ LoadPage \/ LoadLastPage
    \/ EnrichRoot \/ Clean
    \/ BeginRoot \/ NextChunk \/ Finish

Spec == Init /\ [][Next]_vars

-----------------------------------------------------------------------------
(* Properties.                                                                  *)

(* Every data row of every sheet is in exactly one root, under its own number:  *)
(* cutting a sheet into blocks and dropping blank rows neither loses nor        *)
(* repeats a row, and a citation of "rows 3 to 5" finds it there.               *)
RowsLandOnce ==
    file.format = "sheet" /\ roots # <<>> =>
        \A part \in DOMAIN file.content :
            \A row \in DOMAIN file.content[part] :
                LET filled == {i \in DOMAIN file.content[part] : file.content[part][i] > 0}
                    within == {r \in DOMAIN roots : roots[r].part = part
                                   /\ roots[r].from <= row /\ row <= roots[r].to}
                IN  row \in filled /\ (\E i \in filled : i < row) =>
                        /\ Cardinality(within) = 1
                        /\ \A r \in within :
                               Len(roots[r].text) = 2 + Cardinality(
                                   {i \in filled : roots[r].from <= i /\ i <= roots[r].to})

(* The words of a text that came from data, the rules of tables left out.       *)
WordsOf(text) ==
    FoldLeft(LAMBDA n, line : n + (IF line.kind \in {"prose", "row"}
                                   THEN LineTokens(line) ELSE 0), 0, text)

(* Of a page whose tables, rows and cells are all closed outside the blocked    *)
(* tags, every word outside them is loaded, and none inside.                    *)
VisibleTextLoaded ==
    file.format = "html" /\ Reading(file.content).level = 1
        /\ (roots # <<>> \/ stage = "failed") =>
            WordsOf(IF roots = <<>> THEN <<>> ELSE roots[1].text)
                = Reading(file.content).tokens

(* Loading takes the rows of sheets and the words of HTML whole, and once.      *)
LoadedWhole == RowsLandOnce /\ VisibleTextLoaded

(* The lines of code in a text, its fences included.                            *)
CodeOf(text) ==
    FoldLeft(LAMBDA acc, line :
                 IF line.kind = "fence" THEN [out |-> Append(acc.out, Stripped(line)),
                                              code |-> ~acc.code]
                 ELSE IF acc.code THEN [acc EXCEPT !.out = Append(@, line)] ELSE acc,
             [out |-> <<>>, code |-> FALSE], text).out

(* Cleaning alone never changes code: spaces, blank lines and broken words      *)
(* between fences stay, whatever surrounds them (repeated edges of documents    *)
(* with several roots apart).                                                   *)
CodeSurvives ==
    clean # <<>> /\ Len(clean) = 1 =>
        CodeOf(clean[1]) = CodeOf(RemoveControls(roots[1].text))

(* Cleaning removes no words but whole edge lines that enough roots of the      *)
(* document share, and never all the text of a root.                            *)
OnlyEdgesRemoved ==
    \A r \in DOMAIN clean :
        LET raw  == TextTokens(roots[r].text)
            base == CleanRoot(roots[r].text)
            first == base[FirstFilled(base)]
            last  == base[LastFilled(base)]
            sharing(line) == {q \in DOMAIN roots :
                LET other == CleanRoot(roots[q].text)
                IN  Stripped(line) \in {Stripped(other[FirstFilled(other)]),
                                        Stripped(other[LastFilled(other)])}}
            lost == (IF Cardinality(sharing(first)) >= Threshold(Len(roots))
                     THEN LineTokens(first) ELSE 0)
                    + (IF Cardinality(sharing(last)) >= Threshold(Len(roots))
                       THEN LineTokens(last) ELSE 0)
        IN  /\ Filled(clean[r]) # {}
            /\ TextTokens(clean[r]) + lost >= raw

(* Cleaning loses neither words nor code.                                       *)
WordsSurvive == OnlyEdgesRemoved /\ CodeSurvives

(* The leaves of a root cover its text from the first token to the last, in     *)
(* order and without a gap, and each begins beyond the one before it: nothing is *)
(* lost between chunks, and packing always moves on.  A leaf ends before the one *)
(* before it only where a repeated header takes the room of what both share.    *)
NoGap ==
    \A r \in DOMAIN leaves :
        LET mine == leaves[r]
        IN  /\ \A k \in DOMAIN mine : k > 1 =>
                   /\ mine[k].from <= mine[k - 1].to
                   /\ mine[k].from > mine[k - 1].from
                   /\ HeaderOf(r) = 0 => mine[k].to >= mine[k - 1].to
                   /\ OverlapTokens = 0 => mine[k].from = mine[k - 1].to
            /\ mine # <<>> => mine[1].from = 0
            /\ (r < Current \/ start = 0) /\ stage # "failed" =>
                   mine # <<>> /\ Last(mine).to = TextTokens(clean[r])

(* Splitting fails for one reason only, a table header that leaves no room for  *)
(* one token beside it: segments are cut so that every chunk fits the budget,   *)
(* the repeated header and the tokenizer's own tokens included.                 *)
SplitOnlyFailsOnHeader ==
    stage = "failed" /\ clean # <<>> =>
        \E r \in DOMAIN clean : HeaderCost(HeaderOf(r)) + CountTokens(1) > MaxTokens

(* What two neighbouring leaves share fits the overlap, or is one whole         *)
(* sentence or paragraph; with no overlap configured leaves are disjoint.       *)
OverlapBounded ==
    stage = "split" /\ Current > 0 =>
        LET mine == leaves[Current]
        IN  \A k \in DOMAIN mine : k > 1 =>
                LET shared == mine[k - 1].to - mine[k].from
                IN  \/ shared = 0
                    \/ OverlapTokens > 0 /\ CountTokens(shared) <= OverlapTokens
                    \/ /\ OverlapTokens > 0
                       /\ \E s \in DOMAIN segments :
                              /\ segments[s].from = mine[k].from
                              /\ segments[s].to = mine[k - 1].to
                              /\ segments[s].kind \in {"sentence", "paragraph"}

(* Splitting cuts all of a root into leaves within the token limits.            *)
LeavesCover == NoGap /\ OverlapBounded /\ SplitOnlyFailsOnHeader

(* A leaf of a table that does not begin with the table's header carries it:    *)
(* every continuation block repeats the header (DEV_SPEC.md:835, 1802).         *)
HeaderOnEveryLeaf ==
    \A r \in DOMAIN leaves : roots[r].kind = "sheet_rows" =>
        \A k \in DOMAIN leaves[r] :
            \/ leaves[r][k].header
            \/ leaves[r][k].from = 0 /\ HeaderOf(r) > 0
=============================================================================
