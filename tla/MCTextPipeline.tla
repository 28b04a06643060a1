--------------------------- MODULE MCTextPipeline ---------------------------
(* Small instances of TextPipeline for TLC: lines of a few tokens against a     *)
(* budget of six, every text of up to MaxLines lines, and tables, sections and *)
(* pages made of a few of them.                                                 *)
EXTENDS TextPipeline, TLC

CONSTANTS MaxLines, MaxRows

Piece(n, e) == [size |-> n, ends |-> e]
Line(kind, pieces, dirt) == [kind |-> kind, pieces |-> pieces, dirt |-> dirt]

Sentence == Line("prose", <<Piece(2, TRUE)>>, {})
TwoSentences == Line("prose", <<Piece(1, TRUE), Piece(1, FALSE)>>, {})
Overlong == Line("prose", <<Piece(7, FALSE)>>, {"trailing"})
Torn == Line("prose", <<Piece(1, FALSE)>>, {"hyphen"})
TornLoose == Line("prose", <<Piece(1, FALSE)>>, {"hyphen", "trailing"})
Heading == Line("heading", <<Piece(1, FALSE)>>, {"trailing"})
Fence == Line("fence", <<Piece(1, FALSE)>>, {"hidden", "trailing"})
Blank == Line("blank", <<>>, {})
HiddenBlank == Line("blank", <<>>, {"hidden"})

Lines == {Sentence, TwoSentences, Overlong, Torn, TornLoose, Heading, Fence, Blank, HiddenBlank}

TextFiles == {[format |-> "text", content |-> t] : t \in BoundedSeq(Lines, MaxLines)}

SheetFiles ==
    {[format |-> "sheet", content |-> <<rows>>] : rows \in BoundedSeq({0, 1, 3, 7}, MaxRows)}
        \union {[format |-> "sheet", content |-> <<a, b>>] :
                   a \in BoundedSeq({0, 2}, 2), b \in BoundedSeq({0, 1, 3}, 3)}

DocxFiles ==
    {[format |-> "docx", content |-> e] :
        e \in BoundedSeq({[heading |-> TRUE, image |-> FALSE, block |-> <<>>],
                           [heading |-> FALSE, image |-> TRUE, block |-> <<TwoSentences>>]}
            \union {[heading |-> FALSE, image |-> FALSE, block |-> b] :
                       b \in {<<Sentence>>, <<Torn>>, <<Heading, Sentence>>, <<Blank>>}}, 4)}

Open(tag) == [type |-> "open", tag |-> tag]
Close(tag) == [type |-> "close", tag |-> tag]
Words(n) == [type |-> "data", tokens |-> n]
In(tag, inner) == <<Open(tag)>> \o inner \o <<Close(tag)>>
Cell(n) == In("td", <<Words(n)>>)
Fragments ==
    {<<Words(1)>>, In("p", <<Words(2)>>), In("pre", <<Words(1)>>),
     In("nav", <<Words(1)>>), In("nav", In("nav", In("p", <<Words(1)>>))), <<Close("nav")>>,
     In("table", In("tr", Cell(1) \o Cell(2))),
     In("table", In("tr", Cell(1)) \o In("tr", In("td", In("p", <<Words(2)>>)))),
     In("table", In("tr", <<Open("td"), Words(1)>>)),
     <<Open("table")>> \o In("tr", Cell(1)) \o In("nav", <<Close("table")>>),
     In("table", In("tr", In("td", In("nav", <<Words(1)>>)) \o Cell(1)))}
HtmlFiles ==
    {[format |-> "html", content |-> FlattenSeq(f)] : f \in BoundedSeq(Fragments, 3)}

Page(text, enough, images) ==
    [text |-> text, enough |-> enough, images |-> images]
Pages ==
    {Page(t, TRUE, c) : t \in {<<Heading, Sentence, Torn>>, <<Heading, TwoSentences, Torn>>}, c \in {0, 2}}
        \union {Page(<<>>, FALSE, 0), Page(<<Torn>>, FALSE, 1), Page(<<HiddenBlank>>, FALSE, 0)}
PdfFiles == {[format |-> "pdf", content |-> p] : p \in BoundedSeq(Pages, 3)}

AllFiles == TextFiles \union HtmlFiles \union SheetFiles \union DocxFiles \union PdfFiles
TwoBlockSheets ==
    {[format |-> "sheet", content |-> <<rows>>] : rows \in BoundedSeq({1, 2}, MaxRows)}
SomeRecognized == {<<>>, <<Sentence>>, <<Heading, Torn>>}
=============================================================================
