------------------------------- MODULE Loading ------------------------------
(* The loaders turn a file into roots (adapters/loaders/): plain text and       *)
(* markdown are one root, a DOCX has a root for each section with text, a       *)
(* spreadsheet one for each block of rows, a PDF one for each page with text.   *)
(* Texts are sequences of lines as in Cleaning; where a root comes from is a    *)
(* range of rows, a page or a section number, and `part` the sheet it is in.    *)
EXTENDS Integers, Sequences, FiniteSets, SequencesExt, Cleaning

CONSTANT RowsPerRoot
ASSUME RowsPerRootAssumption == RowsPerRoot \in Nat \ {0}

-----------------------------------------------------------------------------
(* How an HTML page becomes text (adapters/loaders/text.py): the parser's       *)
(* events, tags opened and closed and runs of data, are folded into lines.      *)
(* Tags stand for their families: "nav" for those whose content is dropped, "p" *)
(* for headings, paragraphs and list items, "pre", "table", "tr" and "td".      *)
(* Nothing makes the events nest: HTML leaves many end tags out.                *)

Events ==
    [type : {"open", "close"}, tag : {"nav", "p", "pre", "table", "tr", "td"}]
        \union [type : {"data"}, tokens : Nat \ {0}]

None == [open |-> FALSE, tokens |-> 0]
Opened == [open |-> TRUE, tokens |-> 0]

Empty == [kind |-> "blank", pieces |-> <<>>, dirt |-> {}]
Fenced == [kind |-> "fence", pieces |-> <<[size |-> 1, ends |-> FALSE]>>, dirt |-> {}]
TextLine(kind, tokens) ==
    [kind |-> kind, pieces |-> <<[size |-> tokens, ends |-> FALSE]>>, dirt |-> {}]

(* The parser's state: what it has written, how deep it is in blocked tags,     *)
(* whether in preformatted text, the rows of the open table and its open row    *)
(* and cell.  A row is the tokens of its cells.                                 *)
ParserStart ==
    [out |-> <<>>, blocked |-> 0, pre |-> FALSE, rows |-> <<>>,
     inRow |-> FALSE, row |-> <<>>, cell |-> None]

Written(p, lines) == [p EXCEPT !.out = @ \o lines]
Break(p) == IF p.out = <<>> \/ Last(p.out) = Empty THEN p ELSE Written(p, <<Empty>>)

StartTag(p, tag) ==
    CASE p.blocked > 0 -> IF tag = "nav" THEN [p EXCEPT !.blocked = @ + 1] ELSE p
      [] p.blocked = 0 /\ tag = "nav" -> [p EXCEPT !.blocked = 1]
      [] p.blocked = 0 /\ tag = "p" -> Break(p)
      [] p.blocked = 0 /\ tag = "pre" -> [Written(Break(p), <<Fenced>>) EXCEPT !.pre = TRUE]
      [] p.blocked = 0 /\ tag = "table" -> [Break(p) EXCEPT !.rows = <<>>]
      [] p.blocked = 0 /\ tag = "tr" -> [p EXCEPT !.inRow = TRUE, !.row = <<>>]
      [] p.blocked = 0 /\ tag = "td" -> [p EXCEPT !.cell = Opened]

SumOf(row) == FoldLeft(LAMBDA n, c : n + c, 0, row)

(* The first row is the header of the table, a rule follows it.                 *)
EmitTable(p) ==
    IF p.rows = <<>> THEN p
    ELSE [Written(p, <<TextLine("row", SumOf(Head(p.rows))), TextLine("rule", 1)>>
                     \o [i \in 1..(Len(p.rows) - 1) |-> TextLine("row", SumOf(p.rows[i + 1]))]
                     \o <<Empty>>)
            EXCEPT !.rows = <<>>]

(* A cell counts when it is closed in a row, a row when it is closed with text. *)
EndTag(p, tag) ==
    CASE p.blocked > 0 -> IF tag = "nav" THEN [p EXCEPT !.blocked = @ - 1] ELSE p
      [] p.blocked = 0 /\ tag = "nav" -> p
      [] p.blocked = 0 /\ tag = "p" -> Break(p)
      [] p.blocked = 0 /\ tag = "pre" -> [Written(p, <<Fenced>>) EXCEPT !.pre = FALSE]
      [] p.blocked = 0 /\ tag = "td" ->
             [p EXCEPT !.cell = None,
                       !.row = IF p.inRow /\ p.cell.open THEN Append(@, p.cell.tokens) ELSE @]
      [] p.blocked = 0 /\ tag = "tr" ->
             [p EXCEPT !.inRow = FALSE,
                       !.rows = IF p.inRow /\ SumOf(p.row) > 0 THEN Append(@, p.row) ELSE @]
      [] p.blocked = 0 /\ tag = "table" -> EmitTable(p)

(* Data goes to the open cell, else to the text, to its last line when that is  *)
(* still being written.                                                         *)
Data(p, tokens) ==
    CASE p.blocked > 0 -> p
      [] p.blocked = 0 /\ p.cell.open -> [p EXCEPT !.cell.tokens = @ + tokens]
      [] p.blocked = 0 /\ ~p.cell.open /\ p.out # <<>> /\ Last(p.out).kind = "prose" ->
             [p EXCEPT !.out = Append(Front(@),
                                      TextLine("prose", Last(@).pieces[1].size + tokens))]
      [] OTHER -> Written(p, <<TextLine("prose", tokens)>>)

Handle(p, event) ==
    CASE event.type = "open"  -> StartTag(p, event.tag)
      [] event.type = "close" -> EndTag(p, event.tag)
      [] event.type = "data"  -> Data(p, event.tokens)

(* Markdown: what was written; a table or cell still open at the end is not.    *)
Markdown(events) == FoldLeft(Handle, ParserStart, events).out

-----------------------------------------------------------------------------
(* For the property: outside blocked tags, the tokens of the data, and how deep *)
(* the page is in a table, its rows and its cells (1 for not at all, and 0 for  *)
(* ever when a cell or row is left open or a table is begun in a table).        *)

Nesting == <<"", "table", "tr", "td">>
Nested(level, e) ==
    IF level = 0 \/ e.tag \notin {"table", "tr", "td"} THEN level
    ELSE IF e.type = "open" /\ level < 4 /\ Nesting[level + 1] = e.tag THEN level + 1
    ELSE IF e.type = "close" /\ Nesting[level] = e.tag THEN level - 1
    ELSE 0

Read(page, e) ==
    IF e.type # "data" /\ e.tag = "nav"
    THEN [page EXCEPT !.blocked = IF e.type = "open" THEN @ + 1 ELSE IF @ > 0 THEN @ - 1 ELSE 0]
    ELSE IF page.blocked > 0 THEN page
    ELSE IF e.type = "data" THEN [page EXCEPT !.tokens = @ + e.tokens]
    ELSE [page EXCEPT !.level = Nested(@, e)]

Reading(events) == FoldLeft(Read, [blocked |-> 0, tokens |-> 0, level |-> 1], events)

-----------------------------------------------------------------------------
(* str.strip does not count control or zero-width characters as blank.          *)
Visible(text) == {i \in DOMAIN text : text[i].kind # "blank" \/ "hidden" \in text[i].dirt}
Strip(text) ==
    IF Visible(text) = {} THEN <<>>
    ELSE SubSeq(text, Min(Visible(text)), Max(Visible(text)))

LoadedRoot(kind, part, from, to, text, images) ==
    [kind |-> kind, part |-> part, from |-> from, to |-> to,
     text |-> text, images |-> images]

LoadUtf8(lines) ==
    IF Strip(lines) = <<>> THEN <<>>
    ELSE <<LoadedRoot("text_block", 1, 1, 1, Strip(lines), 0)>>

LoadHtml(events) ==
    IF Strip(Markdown(events)) = <<>> THEN <<>>
    ELSE <<LoadedRoot("section", 1, 1, 1, Strip(Markdown(events)), 0)>>

-----------------------------------------------------------------------------
(* DOCX: a heading opens a section and names it; the text of a section is what  *)
(* follows, with a blank line between its blocks; an image is a block of its    *)
(* own, which names it.  Sections without any block are dropped.                *)

AddBlock(section, block) ==
    IF section = <<>> THEN block ELSE section \o <<Empty>> \o block

Sections(elements) ==
    FoldLeft(LAMBDA sections, e :
                 IF e.heading THEN Append(sections, <<>>)
                 ELSE IF Strip(e.block) = <<>> THEN sections
                 ELSE Append(Front(sections), AddBlock(Last(sections), Strip(e.block))),
             <<<<>>>>, elements)
SectionImages(elements, s) ==
    Cardinality({i \in DOMAIN elements :
                    /\ elements[i].image
                    /\ s = 1 + Cardinality({j \in 1..i : elements[j].heading})})

LoadDocx(elements) ==
    LET sections == Sections(elements)
        roots == [s \in DOMAIN sections |->
                     LoadedRoot("section", 1, s, s, sections[s],
                                SectionImages(elements, s))]
    IN  Those(roots, {r \in Range(roots) : r.text # <<>>})

-----------------------------------------------------------------------------
(* Spreadsheets: a row is its number of tokens, 0 when every cell is blank.     *)
(* Blank rows go, the others keep their number; the first is the header, and    *)
(* every block of data rows is a table of its own under that header.            *)

RowLine(tokens) ==
    [kind |-> "row", pieces |-> <<[size |-> tokens, ends |-> FALSE]>>, dirt |-> {}]
RuleLine == [kind |-> "rule", pieces |-> <<[size |-> 1, ends |-> FALSE]>>, dirt |-> {}]

TrimSheet(rows) ==
    LET numbered == [i \in DOMAIN rows |-> [number |-> i, tokens |-> rows[i]]]
    IN  Those(numbered, {row \in Range(numbered) : row.tokens > 0})

MarkdownTable(header, rows) ==
    <<RowLine(header), RuleLine>> \o [i \in DOMAIN rows |-> RowLine(rows[i].tokens)]

(* The blocks of the data rows; a sheet with only a header has one empty block. *)
BlocksFromOne(rows) ==
    IF rows = <<>> THEN <<<<>>>>
    ELSE [b \in 1..((Len(rows) + RowsPerRoot - 1) \div RowsPerRoot) |->
             SubSeq(rows, (b - 1) * RowsPerRoot + 1,
                    IF b * RowsPerRoot + 1 <= Len(rows) THEN b * RowsPerRoot + 1 ELSE Len(rows))]
Blocks(rows) ==
    IF rows = <<>> THEN <<<<>>>>
    ELSE [b \in 1..((Len(rows) + RowsPerRoot - 1) \div RowsPerRoot) |->
             SubSeq(rows, (b - 1) * RowsPerRoot + 1,
                    IF b * RowsPerRoot <= Len(rows) THEN b * RowsPerRoot ELSE Len(rows))]

SheetRoots(part, rows) ==
    LET sheet  == TrimSheet(rows)
        blocks == Blocks(Tail(sheet))
        Table(block) ==
            LoadedRoot("sheet_rows", part,
                       IF block = <<>> THEN sheet[1].number ELSE Head(block).number,
                       IF block = <<>> THEN sheet[1].number ELSE Last(block).number,
                       MarkdownTable(sheet[1].tokens, block), 0)
    IN  IF sheet = <<>> THEN <<>> ELSE [b \in DOMAIN blocks |-> Table(blocks[b])]

LoadSheets(sheets) ==
    FoldLeft(LAMBDA all, some : all \o some,
             <<>>, [part \in DOMAIN sheets |-> SheetRoots(part, sheets[part])])

-----------------------------------------------------------------------------
(* PDF: a page with too little text of its own is rendered and read again;      *)
(* what was recognised, if anything, takes the place of its text.  Pages        *)
(* without text have no root, the others keep their page number.                *)

NeedsOcr(page) == ~page.enough
PageText(page, recognized) ==
    IF NeedsOcr(page) /\ Strip(recognized) # <<>> THEN Strip(recognized) ELSE Strip(page.text)

PageRoots(number, page, recognized) ==
    IF PageText(page, recognized) = <<>> THEN <<>>
    ELSE <<LoadedRoot("page", 1, number, number, PageText(page, recognized), page.images)>>
=============================================================================
