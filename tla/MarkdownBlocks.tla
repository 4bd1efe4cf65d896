---- MODULE MarkdownBlocks ----
(***************************************************************************)
(* The block pass of the Markdown parser                                   *)
(* (crates/marmot-markdown/src/block.rs): a message body is fed line by    *)
(* line to a parser that keeps a stack of open containers (quotes, lists   *)
(* and their items) and at most one open leaf.                             *)
(*                                                                         *)
(* A line is a sequence of symbols.  " ", ">", "-" and "*" are one column  *)
(* wide and "2." is an ordered marker of two columns; every other symbol   *)
(* ends its line and stands for a whole recognised form: "text", "head"    *)
(* (# ...), "fence" (three backticks), "math" ($$), "under" (===), "rule"  *)
(* (---), "row" (a | b), "delim" (|-|-|), "def" ([l]: u) and "task"        *)
(* ([x] ...).  Tabs, fence lengths, info strings, titles on a following    *)
(* line and whitespace of five columns after a marker are left out.        *)
(***************************************************************************)
EXTENDS Integers, Sequences, SequencesExt, FiniteSets

CONSTANTS
    MbLines,    \* the lines a document of each family is made of
    MbMaxLines, \* bound: lines of a document
    MbMaxDepth  \* MAX_CONTAINER_DEPTH: containers open at once

VARIABLES
    mbFamily, \* the family of the document
    mbDoc,    \* the lines fed so far
    mbParser  \* BlockParser: [open, leaf, root, refs]

mbVars == <<mbFamily, mbDoc, mbParser>>

Texts == {"text", "head", "row", "task"}

\* ------------------------------------------------------------------- columns

\* scanner::measure_indent: the leading columns of a line.
Indent(s) ==
    LET rest == { i \in DOMAIN s : s[i] # " " }
    IN  IF rest = {} THEN Len(s) ELSE (CHOOSE i \in rest : \A j \in rest : i <= j) - 1

Beyond(s, k) == SubSeq(s, k + 1, Len(s))
Strip(s) == Beyond(s, Indent(s))
IsBlank(s) == Strip(s) = <<>>

\* -------------------------------------------------------- what a rest of a line is

\* parse_setext_underline, is_thematic_break, is_math_fence, parse_fence_open.
IsSetext(s) == s # <<>> /\ s[1] \in {"-", "rule", "under"} /\ IsBlank(Tail(s))
IsThematic(s) ==
    /\ s # <<>>
    /\ \E ch \in {"-", "*"} :
          /\ \A i \in DOMAIN s : s[i] \in {ch, " "} \/ (ch = "-" /\ s[i] = "rule")
          /\ s[1] \in {ch, "rule"}
          /\ \/ Cardinality({ i \in DOMAIN s : s[i] = ch }) >= 3
             \/ "rule" \in ToSet(s)
IsForm(s, form) == s # <<>> /\ s[1] = form

\* split_table_row: the cells of a line.
Cells(s) == IF "delim" \in ToSet(s) THEN Len(s) + 1 ELSE IF "row" \in ToSet(s) THEN 2 ELSE 1

\* parse_table_delim_row: the columns of a delimiter row, 0 for another line.
DelimColumns(s) ==
    IF s = <<"delim">> THEN 2
    ELSE IF s # <<>> /\ s[1] \in {"-", "rule"} /\ IsSetext(s) THEN 1
    ELSE 0

\* try_open_list_marker: the marker a rest of a line opens a list with, how far
\* it reaches and the column its item continues at; a marker that follows an open
\* paragraph may neither be empty nor number from other than one.
NoMarker == [kind |-> "none", off |-> 0, indent |-> 0]
ListMarker(s, col, interrupting) ==
    LET sub    == Indent(s)
        rest   == Beyond(s, sub)
        isMark == rest # <<>> /\ rest[1] \in {"-", "*", "2."}
        after  == IF isMark THEN Tail(rest) ELSE <<>>
        end    == col + sub + (IF isMark /\ rest[1] = "2." THEN 2 ELSE 1)
    IN  IF \/ sub >= 4
           \/ ~isMark
           \/ interrupting /\ rest[1] = "2."
           \/ after # <<>> /\ after[1] # " "
           \/ interrupting /\ IsBlank(after)
        THEN NoMarker
        ELSE IF IsBlank(after)
        THEN [kind |-> rest[1], off |-> Len(s), indent |-> end + 1]
        ELSE [kind |-> rest[1], off |-> sub + 1 + Indent(after), indent |-> end + Indent(after)]

\* try_open_blockquote: how far the marker of a quote reaches, 0 without one.
QuoteMarker(s) ==
    LET sub == Indent(s)
    IN  IF sub >= 4 \/ ~IsForm(Beyond(s, sub), ">") THEN 0
        ELSE IF Len(s) > sub + 1 /\ s[sub + 2] = " " THEN sub + 2
        ELSE sub + 1

\* --------------------------------------------------------- the container stack

NoLeaf == [kind |-> "none", entries |-> <<>>]
LeafOf(kind, entries) == [kind |-> kind, entries |-> entries]
Container(kind, marker, indent) ==
    [kind |-> kind, marker |-> marker, indent |-> indent, tight |-> TRUE, blank |-> FALSE,
     kids |-> <<>>]
Block(kind, lines, kids) == [kind |-> kind, lines |-> lines, kids |-> kids]

Pop(P) == [P EXCEPT !.open = SubSeq(@, 1, Len(@) - 1)]
TopKind(P) == IF P.open = <<>> THEN "root" ELSE P.open[Len(P.open)].kind
AddChild(P, b) ==
    IF P.open = <<>>
    THEN [P EXCEPT !.root = Append(@, b)]
    ELSE [P EXCEPT !.open[Len(P.open)].kids = Append(@, b)]

\* consume_list_blank: content after a blank line makes every list that saw it loose.
ConsumeListBlank(P) ==
    [P EXCEPT !.open = [i \in DOMAIN P.open |->
        IF P.open[i].blank
        THEN [P.open[i] EXCEPT !.tight = FALSE, !.blank = FALSE]
        ELSE P.open[i]]]

\* Seeded bug: a list whose last item is closed is left open under the new block,
\* which then lands at the root.
PushToRoot(P, b) ==
    IF TopKind(P) = "list"
    THEN [ConsumeListBlank(P) EXCEPT !.root = Append(@, b)]
    ELSE AddChild(ConsumeListBlank(P), b)

\* push_block: a list without an open item is closed first, so that the block lands
\* in the list's parent.
RECURSIVE PushBlock(_, _)
PushBlock(P, b) ==
    IF TopKind(P) = "list"
    THEN LET Q == ConsumeListBlank(P)
             l == Q.open[Len(Q.open)]
         IN  PushBlock(PushBlock(Pop(Q), Block("list", <<>>, l.kids)), b)
    ELSE AddChild(ConsumeListBlank(P), b)

\* close_container: an item joins its list, a quote or a list its parent.
CloseContainer(P) ==
    LET c == P.open[Len(P.open)]
        Q == Pop(P)
    IN  IF c.kind = "item"
        THEN IF TopKind(Q) = "list" THEN AddChild(Q, Block("item", <<>>, c.kids)) ELSE Q
        ELSE PushBlock(Q, Block(c.kind, <<>>, c.kids))

\* harvest_ref_defs: the definitions at the front of a paragraph go to the table of
\* references, where the first of a label stays.
Defs(entries) ==
    LET others == { i \in DOMAIN entries : entries[i].txt # <<"def">> }
    IN  IF others = {} THEN Len(entries)
        ELSE (CHOOSE i \in others : \A j \in others : i <= j) - 1
Harvest(P, entries) ==
    IF Defs(entries) > 0 /\ P.refs = 0 THEN [P EXCEPT !.refs = entries[1].n] ELSE P
IsNothing(entries) == entries = <<>> \/ (Len(entries) = 1 /\ entries[1].txt = <<>>)
Numbers(entries) == [i \in DOMAIN entries |-> entries[i].n]

\* close_leaf
CloseLeaf(P) ==
    LET leaf == P.leaf
        rest == Beyond(leaf.entries, Defs(leaf.entries))
        Q    == [P EXCEPT !.leaf = NoLeaf]
    IN  CASE leaf.kind = "none" -> P
          [] leaf.kind = "para" ->
                IF IsNothing(rest) THEN Harvest(Q, leaf.entries)
                ELSE PushBlock(Harvest(Q, leaf.entries), Block("para", Numbers(rest), <<>>))
          [] OTHER -> PushBlock(Q, Block(leaf.kind, Numbers(leaf.entries), <<>>))

\* close_to_depth
RECURSIVE PopTo(_, _)
PopTo(P, depth) == IF Len(P.open) > depth THEN PopTo(CloseContainer(P), depth) ELSE P
CloseToDepth(P, depth) == PopTo(CloseLeaf(P), depth)

\* ensure_list_open
EnsureListOpen(P, kind) ==
    IF TopKind(P) = "list" /\ P.open[Len(P.open)].marker = kind
    THEN P
    ELSE LET Q == IF TopKind(P) = "list" THEN CloseToDepth(P, Len(P.open) - 1) ELSE P
         IN  [Q EXCEPT !.open = Append(@, Container("list", kind, 0))]

\* mark_list_blank_at_depth: the innermost matched list remembers the blank line.
MarkListBlank(P, depth) ==
    LET lists == { i \in DOMAIN P.open : i <= depth /\ P.open[i].kind = "list" }
    IN  IF lists = {} THEN P
        ELSE [P EXCEPT !.open[CHOOSE i \in lists : \A j \in lists : j <= i].blank = TRUE]

\* -------------------------------------------------------------- matching a line

\* match_open_containers: how far the open containers consume the line, the column
\* reached, and how many of them it continues.  A list consumes nothing, and a blank
\* line continues every item.
Matched(off, col, depth) == [off |-> off, col |-> col, depth |-> depth]
RECURSIVE MatchFrom(_, _, _, _, _)
MatchFrom(open, line, i, off, col) ==
    LET s == Beyond(line, off)
    IN  IF i > Len(open) THEN Matched(off, col, Len(open))
        ELSE CASE open[i].kind = "list" -> MatchFrom(open, line, i + 1, off, col)
               [] open[i].kind = "quote" ->
                     IF QuoteMarker(s) = 0 THEN Matched(off, col, i - 1)
                     ELSE MatchFrom(open, line, i + 1, off + QuoteMarker(s), col + QuoteMarker(s))
               [] open[i].kind = "item" ->
                     IF col >= open[i].indent THEN MatchFrom(open, line, i + 1, off, col)
                     ELSE IF IsBlank(s) THEN Matched(off, col, i)
                     ELSE IF col + Indent(s) < open[i].indent THEN Matched(off, col, i - 1)
                     ELSE MatchFrom(open, line, i + 1, off + open[i].indent - col, open[i].indent)
MatchOpenContainers(P, line) == MatchFrom(P.open, line, 1, 0, 0)

\* can_lazy_continue: whether a line that fails a container may still extend the open
\* paragraph.
DeepestOpenList(P, depth) ==
    LET lists == { i \in 1 .. depth : P.open[i].kind = "list" }
    IN  IF lists = {} THEN "none"
        ELSE P.open[CHOOSE i \in lists : \A j \in lists : j <= i].marker
CanLazyContinue(P, s, at) ==
    LET rest == Strip(s)
        mark == ListMarker(rest, at.col + Indent(s), FALSE).kind
    IN  \/ Indent(s) >= 4
        \/ /\ rest # <<>>
           /\ ~IsForm(rest, "head") /\ ~IsThematic(rest) /\ ~IsForm(rest, ">")
           /\ ~IsForm(rest, "fence") /\ ~IsForm(rest, "math")
           /\ ListMarker(s, at.col, TRUE).kind = "none"
           /\ mark = "none" \/ mark # DeepestOpenList(P, at.depth)

\* ------------------------------------------------------------------- the leaves

\* append_paragraph: a delimiter row after a paragraph of one line with as many cells
\* makes it the header of a table; other text extends the paragraph, or starts one.
IsTableHead(P, text) ==
    /\ P.leaf.kind = "para"
    /\ Len(P.leaf.entries) = 1
    /\ DelimColumns(text) = Cells(P.leaf.entries[1].txt)
AppendParagraph(P, n, s) ==
    LET Q     == ConsumeListBlank(P)
        entry == [n |-> n, txt |-> Strip(s)]
    IN  IF IsTableHead(Q, Strip(s)) THEN [Q EXCEPT !.leaf.kind = "table"]
        ELSE IF Q.leaf.kind = "para" THEN [Q EXCEPT !.leaf.entries = Append(@, entry)]
        ELSE [CloseLeaf(Q) EXCEPT !.leaf = LeafOf("para", <<entry>>)]

\* feed_verbatim_line: the matching fence closes the block, any other line is content.
FeedVerbatim(P, n, s) ==
    IF Indent(s) < 4 /\ IsForm(Strip(s), P.leaf.kind) /\ Len(Strip(s)) = 1
    THEN CloseLeaf(P)
    ELSE [P EXCEPT !.leaf.entries = Append(@, [n |-> n, txt |-> s])]

\* The arm of feed for a blank rest of a line.
FeedBlank(P, depth) ==
    IF P.leaf.kind \in {"indented", "fence", "math"}
    THEN P
    ELSE MarkListBlank(CloseLeaf(P), depth)

\* The arm of feed for a line of four columns of indentation or more.
FeedIndented(P, n, s) ==
    IF P.leaf.kind = "indented"
    THEN [P EXCEPT !.leaf.entries = Append(@, [n |-> n, txt |-> s])]
    ELSE [CloseLeaf(P) EXCEPT !.leaf = LeafOf("indented", <<[n |-> n, txt |-> s]>>)]

\* A setext underline turns what its paragraph holds beyond definitions into a heading.
Promote(P, entries) ==
    PushBlock([Harvest(P, entries) EXCEPT !.leaf = NoLeaf],
              Block("head", Numbers(Beyond(entries, Defs(entries))), <<>>))
IsPromoted(P, rest) ==
    /\ P.leaf.kind = "para" /\ IsSetext(rest)
    /\ ~IsNothing(Beyond(P.leaf.entries, Defs(P.leaf.entries)))
\* The underline of a paragraph of definitions alone is classified as content.
AfterSetext(P, rest) ==
    IF P.leaf.kind = "para" /\ IsSetext(rest)
    THEN [Harvest(P, P.leaf.entries) EXCEPT !.leaf = NoLeaf]
    ELSE P

OpenQuote(P) == [CloseLeaf(P) EXCEPT !.open = Append(@, Container("quote", "none", 0))]
OpenItem(P, m) ==
    [EnsureListOpen(CloseLeaf(P), m.kind) EXCEPT !.open = Append(@, Container("item", "none", m.indent))]

\* Seeded bug: the room for a list and its item is counted as one container.
ItemFitsOne(P) == Len(P.open) + 1 <= MbMaxDepth

\* The depth guards of feed: past the cap a marker is text.
ItemFits(P) == Len(P.open) + 2 <= MbMaxDepth
QuoteFits(P) == Len(P.open) < MbMaxDepth

\* The loop of feed: leaf starters before container openers, one container a turn.
RECURSIVE Classify(_, _, _, _, _)
Classify(P, n, line, off, col) ==
    LET s     == Beyond(line, off)
        rest  == Strip(s)
        short == Indent(s) < 4 /\ rest # <<>>
        Q     == AfterSetext(P, rest)
        at    == col + Indent(s)
        mark  == ListMarker(rest, at, Q.leaf.kind = "para")
    IN  CASE ~short -> IF Indent(s) >= 4 /\ P.leaf.kind # "para" THEN FeedIndented(P, n, s)
                       ELSE AppendParagraph(P, n, s)
          [] short /\ IsForm(rest, "head") -> PushBlock(CloseLeaf(P), Block("head", <<n>>, <<>>))
          [] short /\ rest[1] \in {"fence", "math"} -> [CloseLeaf(P) EXCEPT !.leaf = LeafOf(rest[1], <<>>)]
          [] short /\ IsPromoted(P, rest) -> Promote(P, P.leaf.entries)
          [] short /\ ~IsPromoted(P, rest) /\ IsThematic(rest) ->
                PushBlock(CloseLeaf(Q), Block("rule", <<n>>, <<>>))
          [] short /\ IsForm(rest, ">") ->
                IF ~QuoteFits(P) THEN AppendParagraph(P, n, rest)
                ELSE Classify(OpenQuote(P), n, line, off + Indent(s) + QuoteMarker(rest),
                              at + QuoteMarker(rest))
          [] short /\ ~IsPromoted(P, rest) /\ ~IsThematic(rest) /\ mark.kind # "none" ->
                IF ~ItemFits(Q) THEN AppendParagraph(Q, n, rest)
                ELSE IF mark.off >= Len(rest) THEN OpenItem(Q, mark)
                ELSE Classify(OpenItem(Q, mark), n, line, off + Indent(s) + mark.off, mark.indent)
          [] OTHER -> AppendParagraph(Q, n, s)

\* feed
FeedRest(P, n, line, at) ==
    LET s == Beyond(line, at.off)
    IN  IF P.leaf.kind \in {"fence", "math"} THEN FeedVerbatim(P, n, s)
        ELSE IF P.leaf.kind = "table" /\ ToSet(s) \cap {"row", "delim"} # {}
        THEN [P EXCEPT !.leaf.entries = Append(@, [n |-> n, txt |-> s])]
        ELSE Classify(IF P.leaf.kind = "table" THEN CloseLeaf(P) ELSE P, n, line, at.off, at.col)
FeedLine(P, n, line, at) ==
    LET s == Beyond(line, at.off)
    IN  IF IsBlank(s) THEN FeedBlank(P, at.depth)
        ELSE IF at.depth = Len(P.open) THEN FeedRest(P, n, line, at)
        ELSE IF P.leaf.kind = "para" /\ CanLazyContinue(P, s, at) THEN AppendParagraph(P, n, s)
        ELSE FeedRest(CloseToDepth(P, at.depth), n, line, at)

\* ---------------------------------------------------------------------- the spec

MbInit ==
    /\ mbFamily \in DOMAIN MbLines
    /\ mbDoc = <<>>
    /\ mbParser = [open |-> <<>>, leaf |-> NoLeaf, root |-> <<>>, refs |-> 0]

\* parse_blocks: the next line of the document.
Feed(line) ==
    /\ Len(mbDoc) < MbMaxLines
    /\ mbDoc' = Append(mbDoc, line)
    /\ UNCHANGED mbFamily
    /\ mbParser' = FeedLine(mbParser, Len(mbDoc) + 1, line, MatchOpenContainers(mbParser, line))

MbNext == \E line \in MbLines[mbFamily] : Feed(line)

\* finish: the blocks of the document if it ends here.
Finished == CloseToDepth(mbParser, 0)

RECURSIVE LinesOf(_)
LinesOf(b) == b.lines \o FlattenSeq([i \in DOMAIN b.kids |-> LinesOf(b.kids[i])])
RECURSIVE DepthOf(_)
DepthOf(b) ==
    (IF b.kind \in {"quote", "list", "item"} THEN 1 ELSE 0)
      + (IF b.kids = <<>> THEN 0
         ELSE CHOOSE d \in 0 .. 9 : /\ \A i \in DOMAIN b.kids : DepthOf(b.kids[i]) <= d
                                    /\ \E i \in DOMAIN b.kids : DepthOf(b.kids[i]) = d)

MbTypeOK ==
    /\ mbFamily \in DOMAIN MbLines
    /\ Len(mbDoc) <= MbMaxLines
    /\ mbParser.leaf.kind \in {"none", "para", "indented", "fence", "math", "table"}
    /\ mbParser.refs \in 0 .. MbMaxLines
    /\ \A i \in DOMAIN mbParser.open : mbParser.open[i].kind \in {"quote", "list", "item"}

(* Wherever a document ends, every line with text is in one of its blocks, no line  *)
(* is there twice, and the blocks hold the lines in the order they were written,    *)
(* through lazy continuations, lists left without an item, promotions to headings   *)
(* and tables and markers past the cap (push_block, close_container, finish).       *)
BlocksKeepLines ==
    LET flat == LinesOf(Block("root", <<>>, Finished.root))
    IN  /\ \A i, j \in DOMAIN flat : i < j => flat[i] < flat[j]
        /\ \A n \in DOMAIN mbDoc :
              mbDoc[n] # <<>> /\ mbDoc[n][Len(mbDoc[n])] \in Texts => n \in ToSet(flat)

(* A document nests no deeper than MAX_CONTAINER_DEPTH, which the code that walks   *)
(* the blocks recursively relies on (the two guards of feed).                       *)
BlocksNestBounded ==
    \A i \in DOMAIN Finished.root : DepthOf(Finished.root[i]) <= MbMaxDepth
====
