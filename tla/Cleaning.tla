------------------------------ MODULE Cleaning ------------------------------
(* The deterministic cleaner (adapters/cleaners/deterministic.py): three rules  *)
(* applied to each root in a fixed order, and the removal of the first and last *)
(* lines that many roots of a document share.  A text is a sequence of lines.   *)
(* A line has a kind, the token counts of its pieces (a piece ends a sentence   *)
(* or does not), and the dirt the rules are about:                              *)
(*   "hidden"    control or zero-width characters,                              *)
(*   "trailing"  spaces at its end,                                             *)
(*   "hyphen"    prose whose last character before any spaces is a hyphen.      *)
(* A line is a word's break when it ends with the hyphen itself, no space after.*)
EXTENDS Integers, Sequences, FiniteSets, SequencesExt

(* Threshold(n) is how many of n roots must share an edge line: the repeated    *)
(* edge ratio is one half.                                                      *)
Threshold(n) == Max({2, (n + 1) \div 2})

Kinds == {"prose", "heading", "fence", "blank", "row", "rule"}
Pieces == [size : Nat \ {0}, ends : BOOLEAN]

(* A line is blank when it has no tokens.                                       *)
AllLines ==
    {line \in [kind : Kinds, pieces : Seq(Pieces), dirt : SUBSET {"hidden", "trailing", "hyphen"}] :
        line.kind = "blank" <=> line.pieces = <<>>}
Texts == Seq(AllLines)

(* The elements of a list that are in S, in their order.                        *)
Those(list, S) ==
    LET add(kept, x) == IF x \in S THEN Append(kept, x) ELSE kept
    IN  FoldLeft(add, <<>>, list)

IsBlank(line) == line.kind = "blank" /\ "hidden" \notin line.dirt

RemoveControls(text) ==
    [i \in DOMAIN text |-> [text[i] EXCEPT !.dirt = @ \ {"hidden"}]]

(* A broken word continues in the next line when that starts with a word; the   *)
(* last piece of the first line and the first of the second become one.         *)
Continues(first, second) ==
    /\ "hyphen" \in first.dirt /\ "trailing" \notin first.dirt
    /\ first.kind = "prose" /\ second.kind = "prose"

Joined(first, second) ==
    [second EXCEPT !.pieces =
        Front(first.pieces)
        \o <<[size |-> Last(first.pieces).size + Head(second.pieces).size,
              ends |-> Head(second.pieces).ends]>>
        \o Tail(second.pieces)]

(* Outside code fences only.                                                    *)
JoinLine(acc, line) ==
    IF ~acc.code /\ acc.out # <<>> /\ Continues(Last(acc.out), line)
    THEN [acc EXCEPT !.out = Append(Front(@), Joined(Last(@), line))]
    ELSE [out |-> Append(acc.out, line),
          code |-> IF line.kind = "fence" THEN ~acc.code ELSE acc.code]

NormalizeOcr(text) ==
    FoldLeft(JoinLine, [out |-> <<>>, code |-> FALSE], text).out

(* Two blank lines in a row at most; code between fences is left alone.         *)
Stripped(line) == [line EXCEPT !.dirt = @ \ {"trailing"}]
SpaceLine(acc, line) ==
    CASE line.kind = "fence" ->
           [out |-> Append(acc.out, IF acc.code THEN line ELSE Stripped(line)),
            code |-> ~acc.code, blanks |-> 0]
      [] line.kind # "fence" /\ acc.code ->
           [acc EXCEPT !.out = Append(@, line)]
      [] ~acc.code /\ line.kind = "blank" ->
           [acc EXCEPT !.blanks = @ + 1,
                       !.out = IF acc.blanks < 2 THEN Append(@, Stripped(line)) ELSE @]
      [] OTHER ->
           [acc EXCEPT !.blanks = 0, !.out = Append(@, Stripped(line))]

(* Blank lines at the two ends are dropped; at the end not inside open code.    *)
Filled(text) == {i \in DOMAIN text : ~IsBlank(text[i])}
FirstFilled(text) == Min(Filled(text))
LastFilled(text) == Max(Filled(text))

NormalizeWhitespace(text) ==
    LET done == FoldLeft(SpaceLine, [out |-> <<>>, code |-> FALSE, blanks |-> 0], text)
    IN  IF Filled(done.out) = {} THEN <<>>
        ELSE SubSeq(done.out, FirstFilled(done.out),
                    IF done.code THEN Len(done.out) ELSE LastFilled(done.out))

(* A root whose text is empty afterwards fails the document (DOCUMENT_EMPTY).   *)
CleanRoot(text) == NormalizeWhitespace(NormalizeOcr(RemoveControls(text)))

-----------------------------------------------------------------------------
(* Repeated edges, over the roots of one document.                              *)

EdgeLine(text, first) ==
    Stripped(text[IF first THEN FirstFilled(text) ELSE LastFilled(text)])

Repeated(texts, first) ==
    {line \in {EdgeLine(texts[r], first) : r \in DOMAIN texts} :
        Cardinality({r \in DOMAIN texts : EdgeLine(texts[r], first) = line})
            >= Threshold(Len(texts))}

EdgesToRemoveAll(text, firsts, lasts) ==
    {i \in Filled(text) : Stripped(text[i]) \in firsts \union lasts}
EdgesToRemove(text, firsts, lasts) ==
    {i \in {FirstFilled(text)} : Stripped(text[i]) \in firsts}
        \union {i \in {LastFilled(text)} : Stripped(text[i]) \in lasts}

(* What is left is stripped; a root that would be left empty stays as it is.    *)
RemoveRepeatedEdges(text, firsts, lasts) ==
    LET gone == EdgesToRemove(text, firsts, lasts)
        kept == Those([i \in DOMAIN text |-> [at |-> i, line |-> text[i]]],
                      {[at |-> i, line |-> text[i]] : i \in DOMAIN text \ gone})
        left == [i \in DOMAIN kept |-> kept[i].line]
    IN  IF gone = {} \/ Filled(left) = {} THEN text
        ELSE SubSeq(left, FirstFilled(left), LastFilled(left))

CleanAll(raw) ==
    LET base   == [r \in DOMAIN raw |-> CleanRoot(raw[r])]
        firsts == Repeated(base, TRUE)
        lasts  == Repeated(base, FALSE)
    IN  IF Len(base) < 2 \/ \E r \in DOMAIN base : base[r] = <<>> THEN base
        ELSE [r \in DOMAIN base |-> RemoveRepeatedEdges(base[r], firsts, lasts)]
=============================================================================
