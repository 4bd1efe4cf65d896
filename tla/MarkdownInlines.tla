---- MODULE MarkdownInlines ----
(***************************************************************************)
(* The inline pass of the Markdown parser                                  *)
(* (crates/marmot-markdown/src/inline.rs): the text of a paragraph is read *)
(* once, text, brackets and delimiter runs go to the output as nodes, the  *)
(* brackets and runs also to a delimiter vector; a closing bracket may     *)
(* absorb what follows its opener into a link, and emphasis is paired      *)
(* inside each link and at the end.                                        *)
(*                                                                         *)
(* Text is a sequence of symbols: "a" a word, "r" a word that is the label *)
(* of a reference definition, "(x)" a link suffix, " ", "nl" a newline,    *)
(* the delimiters "*", "_", "~", "[", "![", "]", "$", "tick" (a backtick)  *)
(* and "esc" (a backslash), "u" the scheme of a bare URL, "(" and ")" in   *)
(* one, and "@", "npub", "note" and "nostr:" of Nostr entities.  Text      *)
(* nodes hold source symbols, an escape included.  Entities and bracketed  *)
(* autolinks are left out: each is recognised from its own bytes and       *)
(* changes no delimiter.                                                   *)
(***************************************************************************)
EXTENDS Integers, Sequences, SequencesExt, FiniteSets

CONSTANT
    MiFamilies \* for each family of texts: [alphabet, length, cap], the cap being both
               \* MAX_INLINE_NESTING_DEPTH and MAX_OPEN_BRACKET_DELIMITERS

VARIABLES
    miFamily, \* the family of the text
    miRaw,    \* the text
    miAt,     \* where tokenize reads next; beyond the end once it has returned
    miBuf,    \* the pending run of plain text
    miOut,    \* the inlines produced
    miDelims, \* the delimiter vector
    miLast,   \* last_bracket_delim: the newest bracket of the chain, or 0
    miOpen,   \* open_bracket_delims: how many brackets it counts
    miSpent   \* inline_math_closer_exhausted: no closing "$" is looked for again

miVars == <<miFamily, miRaw, miAt, miBuf, miOut, miDelims, miLast, miOpen, miSpent>>

Cap == MiFamilies[miFamily].cap
Runs == {"*", "_", "~"}
Brackets == {"[", "!["}

\* ---------------------------------------------------------------------- nodes

Node(kind, txt, kids) == [kind |-> kind, txt |-> txt, kids |-> kids]
TextNode(txt) == Node("text", txt, <<>>)
Repeat(c, k) == [i \in 1 .. k |-> c]
GreatestOf(S) == CHOOSE i \in S : \A j \in S : j <= i

\* nesting_depth_at_least, depth_from_children_at_least: whether some item is nested
\* at least cap levels deep, the items themselves being level one; a node that could
\* hold children counts as one level more, with or without any.
RECURSIVE DeepAs(_, _)
DeepAs(items, cap) ==
    \/ cap <= 0
    \/ cap = 1 /\ items # <<>>
    \/ \E i \in DOMAIN items :
          /\ items[i].kind \in {"emph", "strong", "strike", "link", "image"}
          /\ cap <= 2 \/ DeepAs(items[i].kids, cap - 1)

\* nesting_depth_at_least_between: the same for the nodes between two delimiters.
DeepBetween(items, cap) ==
    \/ cap = 1 /\ items # <<>>
    \/ cap >= 2 /\ \E i \in DOMAIN items :
          items[i].kind # "text" /\ items[i].kids # <<>> /\ DeepAs(items[i].kids, cap - 1)

\* Seeded bug: pending text always joins the last text node.
FlushJoins(out, buf, delims) ==
    IF buf = <<>> THEN out
    ELSE IF out # <<>> /\ out[Len(out)].kind = "text"
    THEN [out EXCEPT ![Len(out)].txt = @ \o buf]
    ELSE Append(out, TextNode(buf))

\* flush_text: the pending text joins the last text node, unless that one holds the
\* characters of the newest delimiter.
Flush(out, buf, delims) ==
    LET last    == Len(out)
        blocked == /\ delims # <<>>
                   /\ delims[Len(delims)].active
                   /\ delims[Len(delims)].pos = last
    IN  IF buf = <<>> THEN out
        ELSE IF ~blocked /\ last > 0 /\ out[last].kind = "text"
        THEN [out EXCEPT ![last].txt = @ \o buf]
        ELSE Append(out, TextNode(buf))

\* ------------------------------------------------------------------- emphasis

\* classify_delim_run: how long a run is and whether it can open or close.
IsSpace(c) == c \in {"none", " ", "nl"}
IsPunct(c) == c \notin {"none", " ", "nl", "a", "r", "u", "npub", "note", "nostr:"}
EndsPunct(c) == IsPunct(c) \/ c \in {"u", "nostr:"}
SymbolAt(raw, i) == IF i \in DOMAIN raw THEN raw[i] ELSE "none"
RunEnd(raw, i) == GreatestOf({ j \in i .. Len(raw) : \A k \in i .. j : raw[k] = raw[i] })
RunDelim(raw, i, end, pos) ==
    LET prev  == SymbolAt(raw, i - 1)
        next  == SymbolAt(raw, end + 1)
        left  == ~IsSpace(next) /\ (~IsPunct(next) \/ IsSpace(prev) \/ EndsPunct(prev))
        right == ~IsSpace(prev) /\ (~EndsPunct(prev) \/ IsSpace(next) \/ IsPunct(next))
        word  == raw[i] = "_"
    IN  [kind |-> raw[i], pos |-> pos, raw |-> i, active |-> TRUE,
         orig |-> end - i + 1, len |-> end - i + 1, prev |-> 0,
         open |-> left /\ (word => ~right \/ EndsPunct(prev)),
         close |-> right /\ (word => ~left \/ IsPunct(next))]
BracketDelim(kind, i, pos, prev) ==
    [kind |-> kind, pos |-> pos, raw |-> i, active |-> TRUE, orig |-> 0, len |-> 0, prev |-> prev,
     open |-> FALSE, close |-> FALSE]

\* The test of process_emphasis on a candidate opener: same character, able to open,
\* two tildes on both sides, and the rule of three.
Compatible(o, c) ==
    /\ o.kind = c.kind
    /\ o.open
    /\ o.kind = "~" => o.len >= 2 /\ c.len >= 2
    /\ o.kind # "~" =>
          ~ /\ o.close \/ c.open
            /\ (o.orig + c.orig) % 3 = 0
            /\ ~(o.orig % 3 = 0 /\ c.orig % 3 = 0)

\* The openers a closer may pair with: the active ones above the bottom, up to the
\* nearest active bracket.
Openers(delims, c, bottom) ==
    { k \in bottom .. c - 1 :
        /\ delims[k].active /\ Compatible(delims[k], delims[c])
        /\ \A j \in k .. c - 1 : delims[j].active => delims[j].kind \notin Brackets }

\* Seeded bug: one bottom for all runs of a character.
ClassByKind(d) == <<d.kind>>

\* The class of closers a bottom of openers_bottom is kept for.
ClassOf(d) == <<d.kind, d.open, d.orig % 3>>

\* E is the pass: the arena (nodes by identity and their order), the delimiters, whose
\* positions are arena identities, and for each class of closers the bottom below
\* which no opener is looked for again.
BottomOf(E, class, bottom) ==
    IF \E b \in E.bottoms : b.class = class
    THEN (CHOOSE b \in E.bottoms : b.class = class).at
    ELSE bottom
SetBottom(E, class, at) ==
    [E EXCEPT !.bottoms = { b \in @ : b.class # class } \cup {[class |-> class, at |-> at]}]
NextActive(E, i) ==
    LET after == { j \in DOMAIN E.delims : j > i /\ E.delims[j].active }
    IN  IF after = {} THEN 0 ELSE CHOOSE j \in after : \A k \in after : j <= k
Deactivate(E, S) ==
    [E EXCEPT !.delims = [j \in DOMAIN E.delims |->
        IF j \in S THEN [E.delims[j] EXCEPT !.active = FALSE] ELSE E.delims[j]]]
PlaceOf(E, id) == CHOOSE i \in DOMAIN E.order : E.order[i] = id
Between(E, o, c) == SubSeq(E.order, PlaceOf(E, o.pos) + 1, PlaceOf(E, c.pos) - 1)
Items(E, ids) == [i \in DOMAIN ids |-> E.nodes[ids[i]]]
KindOf(c, strong) == IF c.kind = "~" THEN "strike" ELSE IF strong THEN "strong" ELSE "emph"

\* A closer that finds no opener, or one whose pair would nest too deep: the class
\* starts searching above it from now on, and it stays only if it can open.
GiveUp(E, c) ==
    LET F == SetBottom(E, ClassOf(E.delims[c]), c)
    IN  IF E.delims[c].open THEN F ELSE Deactivate(F, {c})

\* Pairing opener o with closer c by n characters: what lies between becomes the
\* children of a new node, both texts shrink, an empty one leaves the arena, and the
\* delimiters between are dropped.
Kept(txt, id) == IF txt = <<>> THEN <<>> ELSE <<id>>
Wrap(E, o, c, n, od, cd) ==
    LET otxt  == SubSeq(E.nodes[od.pos].txt, 1, Len(E.nodes[od.pos].txt) - n)
        ctxt  == SubSeq(E.nodes[cd.pos].txt, n + 1, Len(E.nodes[cd.pos].txt))
        new   == Node(KindOf(cd, n = 2), Repeat(cd.kind, n), Items(E, Between(E, od, cd)))
        order == SubSeq(E.order, 1, PlaceOf(E, od.pos) - 1) \o Kept(otxt, od.pos)
                   \o <<Len(E.nodes) + 1>> \o Kept(ctxt, cd.pos)
                   \o SubSeq(E.order, PlaceOf(E, cd.pos) + 1, Len(E.order))
        F     == [E EXCEPT !.nodes = Append([@ EXCEPT ![od.pos].txt = otxt, ![cd.pos].txt = ctxt], new),
                           !.order = order,
                           !.delims = [@ EXCEPT ![o].len = @ - n, ![c].len = @ - n]]
    IN  Deactivate(F, { j \in o .. c : (j > o /\ j < c) \/ F.delims[j].len = 0 })
Resume(E, o, c) ==
    IF E.delims[o].len > 0 THEN o ELSE IF E.delims[c].len > 0 THEN c ELSE NextActive(E, c)

\* How many characters a pair consumes.
Takes(o, c) == IF c.kind = "~" \/ (o.len >= 2 /\ c.len >= 2) THEN 2 ELSE 1

\* The loop of process_emphasis over closers; bounded tells whether the bottoms are
\* used, which only the search may notice.
RECURSIVE Pair(_, _, _, _, _)
Pair(E, c, bottom, cap, bounded) ==
    IF c = 0 THEN E
    ELSE IF E.delims[c].kind \notin Runs \/ ~E.delims[c].close
    THEN Pair(E, NextActive(E, c), bottom, cap, bounded)
    ELSE LET cd   == E.delims[c]
             low  == IF bounded THEN BottomOf(E, ClassOf(cd), bottom) ELSE bottom
             from == Openers(E.delims, c, low)
             o    == GreatestOf(from)
             od   == E.delims[o]
         IN  IF from = {} \/ DeepBetween(Items(E, Between(E, od, cd)), cap)
             THEN Pair(GiveUp(E, c), NextActive(E, c), bottom, cap, bounded)
             ELSE LET F == Wrap(E, o, c, Takes(od, cd), od, cd)
                  IN  Pair(F, Resume(F, o, c), bottom, cap, bounded)

\* The end of process_emphasis: the arena becomes the output again, and delimiters
\* whose node is gone are dropped.
Compact(E, bottom) ==
    [out |-> Items(E, E.order),
     delims |-> [j \in DOMAIN E.delims |->
        IF j < bottom \/ ~E.delims[j].active THEN E.delims[j]
        ELSE IF E.delims[j].pos \in ToSet(E.order)
        THEN [E.delims[j] EXCEPT !.pos = PlaceOf(E, E.delims[j].pos)]
        ELSE [E.delims[j] EXCEPT !.active = FALSE]]]

\* process_emphasis above a bottom of the delimiter vector.
ProcessEmphasis(out, delims, bottom, cap, bounded) ==
    LET E     == [nodes |-> out, order |-> [i \in DOMAIN out |-> i], delims |-> delims, bottoms |-> {}]
        first == NextActive(E, bottom - 1)
    IN  IF out = <<>> \/ first = 0
        THEN [out |-> out, delims |-> delims]
        ELSE Compact(Pair(E, first, bottom, cap, bounded), bottom)

\* ----------------------------------------------------------------------- links

\* previous_active_bracket_delim and active_bracket_delim_count walk the chain of
\* brackets from a cursor.
RECURSIVE PreviousBracket(_, _)
PreviousBracket(delims, cursor) ==
    IF cursor \notin DOMAIN delims THEN 0
    ELSE IF delims[cursor].active /\ delims[cursor].kind \in Brackets THEN cursor
    ELSE PreviousBracket(delims, delims[cursor].prev)
RECURSIVE Chain(_, _)
Chain(delims, cursor) ==
    LET at == PreviousBracket(delims, cursor)
    IN  IF at = 0 THEN {} ELSE {at} \cup Chain(delims, delims[at].prev)
BracketCount(delims, cursor) == Cardinality(Chain(delims, cursor))

\* Seeded bug: a new link leaves the openers before it able to close.
NoneEarlier(delims, o) == {}

\* absorb_link: a link, unlike an image, ends every earlier link opener of the chain.
EarlierLinks(delims, o) ==
    IF delims[o].kind = "![" THEN {} ELSE { j \in Chain(delims, delims[o].prev) : delims[j].kind = "[" }

\* What a closing bracket resolves to: a suffix, a full or collapsed reference or a
\* shortcut; the value is where the construct ends, 0 when it is no link.
Labels == {<<"r">>}
Trim(s) ==
    LET solid == { i \in DOMAIN s : s[i] # " " }
    IN  IF solid = {} THEN <<>>
        ELSE SubSeq(s, CHOOSE i \in solid : \A j \in solid : i <= j, GreatestOf(solid))
RefEnd(raw, i) ==
    LET ends == { j \in i + 1 .. Len(raw) : raw[j] = "]" }
    IN  IF SymbolAt(raw, i) # "[" \/ ends = {} THEN 0
        ELSE LET e == CHOOSE j \in ends : \A k \in ends : j <= k
             IN  IF \E k \in i + 1 .. e : raw[k] \in Brackets THEN 0 ELSE e
LinkEnd(raw, opener, i) ==
    LET text == Trim(SubSeq(raw, opener + 1, i - 1))
        full == RefEnd(raw, i + 1)
    IN  IF SymbolAt(raw, i + 1) = "(x)" THEN i + 1
        ELSE IF full > 0 /\ Trim(SubSeq(raw, i + 2, full - 1)) \in Labels THEN full
        ELSE IF full = i + 2 /\ text \in Labels THEN full
        ELSE IF text \in Labels THEN i
        ELSE 0

Bracket(o) == miDelims[o]
LinkNode(o, kids, suffix) == Node(IF Bracket(o).kind = "![" THEN "image" ELSE "link", suffix, kids)

\* --------------------------------------------------------------------- tokenize

TextsOf(f) == UNION { [1 .. k -> f.alphabet] : k \in 0 .. f.length }
MiInit ==
    /\ miFamily \in DOMAIN MiFamilies
    /\ miRaw \in TextsOf(MiFamilies[miFamily])
    /\ miAt = 1 /\ miBuf = <<>> /\ miOut = <<>> /\ miDelims = <<>> /\ miLast = 0 /\ miOpen = 0
    /\ miSpent = FALSE

Sees(S) == miAt <= Len(miRaw) /\ miRaw[miAt] \in S
Flushed == Flush(miOut, miBuf, miDelims)
KeepsText == UNCHANGED <<miFamily, miRaw>>
KeepsMath == UNCHANGED miSpent
KeepsDelims == UNCHANGED <<miDelims, miLast, miOpen>>

\* A recognised span: pending text, then the node.
Emits(node, end) ==
    /\ miOut' = Append(Flushed, node) /\ miBuf' = <<>> /\ miAt' = end + 1
    /\ KeepsText /\ KeepsDelims
LiteralUpTo(end) ==
    /\ miBuf' = miBuf \o SubSeq(miRaw, miAt, end) /\ miAt' = end + 1
    /\ KeepsText /\ KeepsDelims /\ UNCHANGED miOut

AtBackslashBreak == Sees({"esc"}) /\ SymbolAt(miRaw, miAt + 1) = "nl"

\* The arms for ordinary bytes and for the backslash, which takes the punctuation
\* after it along.
ReadText ==
    /\ Sees({"a", "r", " ", "(x)", "(", ")", "esc"}) /\ ~AtBackslashBreak
    /\ LET escapes == miRaw[miAt] = "esc" /\ IsPunct(SymbolAt(miRaw, miAt + 1))
           end     == IF escapes THEN miAt + 1 ELSE miAt
       IN  LiteralUpTo(end)
    /\ KeepsMath

\* try_code_span: up to the next run of as many backticks; without one the run is text.
CodeEnd(raw, i, end) ==
    LET closers == { k \in end + 1 .. Len(raw) :
                        /\ raw[k] = "tick" /\ raw[k - 1] # "tick"
                        /\ RunEnd(raw, k) - k = end - i }
    IN  IF closers = {} THEN 0 ELSE RunEnd(raw, CHOOSE k \in closers : \A j \in closers : k <= j)
ReadCode ==
    /\ Sees({"tick"})
    /\ LET end  == RunEnd(miRaw, miAt)
           code == CodeEnd(miRaw, miAt, end)
       IN  IF code = 0 THEN LiteralUpTo(end)
           ELSE Emits(Node("code", SubSeq(miRaw, miAt, code), <<>>), code)
    /\ KeepsMath

\* The end of the whitespace that follows position i, skipped at the start of a line.
SkipSpaces(raw, i) ==
    GreatestOf({ j \in i .. Len(raw) : \A k \in i + 1 .. j : raw[k] = " " })

\* A newline, with two spaces before it or a backslash a hard break: the spaces around
\* it leave the text.
TrailingFrom(buf) ==
    CHOOSE i \in 1 .. Len(buf) + 1 :
        /\ \A k \in i .. Len(buf) : buf[k] = " "
        /\ i > 1 => buf[i - 1] # " "
ReadBreak ==
    /\ Sees({"nl"})
    /\ LET from == TrailingFrom(miBuf)
           end  == SkipSpaces(miRaw, miAt)
           kind == IF Len(miBuf) - from + 1 >= 2 THEN "hard" ELSE "soft"
       IN  /\ miOut' = Append(Flush(miOut, SubSeq(miBuf, 1, from - 1), miDelims),
                             Node(kind, SubSeq(miBuf, from, Len(miBuf)) \o SubSeq(miRaw, miAt, end), <<>>))
           /\ miBuf' = <<>> /\ miAt' = end + 1
    /\ KeepsText /\ KeepsDelims /\ KeepsMath
BackslashBreak ==
    /\ AtBackslashBreak
    /\ LET end == SkipSpaces(miRaw, miAt + 1)
       IN  Emits(Node("hard", SubSeq(miRaw, miAt, end), <<>>), end)
    /\ KeepsMath

\* try_inline_math: where the closing "$" of an opener is, 0 if there is none;
\* backslashes and pairs of "$" are stepped over.
RECURSIVE MathEnd(_, _)
MathEnd(raw, k) ==
    IF k > Len(raw) THEN 0
    ELSE IF (raw[k] = "esc" /\ k < Len(raw)) \/ (raw[k] = "$" /\ SymbolAt(raw, k + 1) = "$")
    THEN MathEnd(raw, k + 2)
    ELSE IF raw[k] = "$" /\ ~IsSpace(raw[k - 1]) THEN k
    ELSE MathEnd(raw, k + 1)
OpensMath(raw, i) == ~IsSpace(SymbolAt(raw, i + 1)) /\ SymbolAt(raw, i + 1) # "$"

\* Seeded bug: a "$" that cannot open also ends the search for closers.
SpentByAny(raw, i) == ~OpensMath(raw, i) \/ MathEnd(raw, i + 1) = 0

\* An opener whose search reached the end ends the search for all later ones.
SpentBy(raw, i) == OpensMath(raw, i) /\ MathEnd(raw, i + 1) = 0

\* The arms for "$".
ReadMath ==
    /\ Sees({"$"})
    /\ IF ~miSpent /\ OpensMath(miRaw, miAt) /\ MathEnd(miRaw, miAt + 1) > 0
       THEN /\ Emits(Node("math", SubSeq(miRaw, miAt, MathEnd(miRaw, miAt + 1)), <<>>),
                     MathEnd(miRaw, miAt + 1))
            /\ KeepsMath
       ELSE /\ LiteralUpTo(miAt)
            /\ miSpent' = (miSpent \/ SpentBy(miRaw, miAt))

\* left_boundary_ok and right_boundary_ok on the symbols before and after.
LeftBoundary(raw, i) == SymbolAt(raw, i - 1) \notin {"a", "r", "u", "npub", "note", "_"}
RightBoundary(raw, i) == SymbolAt(raw, i + 1) \notin {"a", "r", "u", "npub", "note", "nostr:", "_"}

\* try_bare_url with trim_trailing_punct: the run up to white space, less the trailing
\* punctuation; a closing parenthesis goes only while the body has more of them than
\* opening ones.  The value is i when there is no URL.
Tally(raw, i, j, c) == Cardinality({ k \in i .. j : raw[k] = c })
UrlEnd(raw, i) ==
    LET last == GreatestOf({ j \in i .. Len(raw) : \A k \in i + 1 .. j : ~IsSpace(raw[k]) })
        Trims(k) == \/ raw[k] \in Runs
                    \/ raw[k] = ")" /\ Tally(raw, i + 1, k, ")") > Tally(raw, i + 1, last, "(")
    IN  IF ~LeftBoundary(raw, i) THEN i
        ELSE CHOOSE e \in i .. last :
                /\ \A k \in e + 1 .. last : Trims(k)
                /\ e > i => ~Trims(e)
ReadUrl ==
    /\ Sees({"u"})
    /\ IF UrlEnd(miRaw, miAt) > miAt
       THEN Emits(Node("url", SubSeq(miRaw, miAt, UrlEnd(miRaw, miAt)), <<>>), UrlEnd(miRaw, miAt))
       ELSE LiteralUpTo(miAt)
    /\ KeepsMath

\* Seeded bug: the bare form rescues an entity whose longer form was declined.
MayStandBare(raw, i) == LeftBoundary(raw, i)

\* A bare entity must not be what is left of a longer form that was declined.
StandsBare(raw, i) == LeftBoundary(raw, i) /\ SymbolAt(raw, i - 1) \notin {"@", "nostr:"}

\* try_nostr_mention, try_nostr_uri and try_nostr_bare_mention: "@" and the bare form
\* take public keys only, "nostr:" any entity.
MentionEnd(raw, i) ==
    LET Entity(k, kinds) == SymbolAt(raw, k) \in kinds /\ RightBoundary(raw, k)
    IN  CASE raw[i] = "@" /\ LeftBoundary(raw, i) /\ Entity(i + 1, {"npub"}) -> i + 1
          [] raw[i] = "nostr:" /\ LeftBoundary(raw, i) /\ Entity(i + 1, {"npub", "note"}) -> i + 1
          [] raw[i] = "npub" /\ StandsBare(raw, i) /\ Entity(i, {"npub"}) -> i
          [] OTHER -> 0
ReadMention ==
    /\ Sees({"@", "npub", "note", "nostr:"})
    /\ IF MentionEnd(miRaw, miAt) > 0
       THEN Emits(Node("mention", SubSeq(miRaw, miAt, MentionEnd(miRaw, miAt)), <<>>),
                  MentionEnd(miRaw, miAt))
       ELSE LiteralUpTo(miAt)
    /\ KeepsMath

\* The arms for "[" and "![": past the cap an opener is text.
OpenBracket ==
    /\ Sees(Brackets)
    /\ IF miOpen < Cap
       THEN /\ miOut' = Append(Flushed, TextNode(<<miRaw[miAt]>>))
            /\ miDelims' = Append(miDelims, BracketDelim(miRaw[miAt], miAt, Len(Flushed) + 1, miLast))
            /\ miBuf' = <<>> /\ miLast' = Len(miDelims) + 1 /\ miOpen' = miOpen + 1
       ELSE miBuf' = Append(miBuf, miRaw[miAt]) /\ KeepsDelims /\ UNCHANGED miOut
    /\ miAt' = miAt + 1
    /\ KeepsText /\ KeepsMath

\* The arm for a delimiter run.
ReadRun ==
    /\ Sees(Runs)
    /\ LET end == RunEnd(miRaw, miAt)
       IN  /\ miOut' = Append(Flushed, TextNode(SubSeq(miRaw, miAt, end)))
           /\ miDelims' = Append(miDelims, RunDelim(miRaw, miAt, end, Len(Flushed) + 1))
           /\ miAt' = end + 1
    /\ miBuf' = <<>>
    /\ KeepsText /\ KeepsMath /\ UNCHANGED <<miLast, miOpen>>

\* try_close_bracket with no link to make, or one refused for its depth: the opener and
\* the closing bracket are text from now on.
LiteralClose(out, delims, o) ==
    LET D == [delims EXCEPT ![o].active = FALSE]
    IN  /\ miOut' = out /\ miDelims' = D
        /\ miLast' = PreviousBracket(D, o)
        /\ miOpen' = BracketCount(D, o)
        /\ miBuf' = <<"]">> /\ miAt' = miAt + 1

\* Seeded bug: the count of open brackets is not taken again once a link is made.
RecountStale(D, o) == miOpen

\* The count of brackets open once the link of o is made.
Recount(D, o) == BracketCount(D, Bracket(o).prev)

\* absorb_link: emphasis inside is paired first, then everything after the opener
\* becomes the link and the delimiters from the opener on are gone.
Absorb(R, o, end) ==
    LET kids == SubSeq(R.out, Bracket(o).pos + 1, Len(R.out))
        D    == [j \in 1 .. o - 1 |-> IF j \in EarlierLinks(R.delims, o)
                                      THEN [R.delims[j] EXCEPT !.active = FALSE]
                                      ELSE R.delims[j]]
    IN  IF DeepAs(kids, Cap) THEN LiteralClose(R.out, R.delims, o)
        ELSE /\ miOut' = Append(SubSeq(R.out, 1, Bracket(o).pos - 1),
                                LinkNode(o, kids, SubSeq(miRaw, miAt, end)))
             /\ miDelims' = D
             /\ miLast' = PreviousBracket(D, Bracket(o).prev)
             /\ miOpen' = Recount(D, o)
             /\ miBuf' = <<>> /\ miAt' = end + 1

CloseAt(o, end) ==
    IF end = 0 THEN LiteralClose(Flushed, miDelims, o)
    ELSE Absorb(ProcessEmphasis(Flushed, miDelims, o + 1, Cap, TRUE), o, end)

\* The arm for "]".
CloseBracket ==
    /\ Sees({"]"})
    /\ LET o == PreviousBracket(miDelims, miLast)
       IN  IF o = 0
           THEN /\ miOut' = Flushed /\ miBuf' = <<"]">> /\ miAt' = miAt + 1
                /\ KeepsDelims
           ELSE CloseAt(o, LinkEnd(miRaw, Bracket(o).raw, miAt))
    /\ KeepsText /\ KeepsMath

\* coalesce_text_runs
RECURSIVE Coalesce(_)
Coalesce(items) ==
    LET Join(done, item) ==
            IF done # <<>> /\ item.kind = "text" /\ done[Len(done)].kind = "text"
            THEN [done EXCEPT ![Len(done)].txt = @ \o item.txt]
            ELSE Append(done, [item EXCEPT !.kids = Coalesce(@)])
    IN  FoldLeft(Join, <<>>, items)

\* The end of tokenize.
AtEnd == miAt = Len(miRaw) + 1
EndsText ==
    /\ AtEnd
    /\ miOut' = Coalesce(ProcessEmphasis(Flushed, miDelims, 1, Cap, TRUE).out)
    /\ miAt' = miAt + 1
    /\ miBuf' = <<>> /\ miDelims' = <<>> /\ miLast' = 0 /\ miOpen' = 0 /\ miSpent' = FALSE
    /\ KeepsText

MiNext ==
    \/ ReadText \/ ReadCode \/ OpenBracket \/ ReadRun \/ CloseBracket \/ EndsText
    \/ ReadBreak \/ BackslashBreak \/ ReadMath \/ ReadUrl \/ ReadMention

MiTypeOK ==
    /\ miFamily \in DOMAIN MiFamilies
    /\ miAt \in 1 .. Len(miRaw) + 2
    /\ miOpen \in 0 .. Cap /\ miSpent \in BOOLEAN
    /\ \A i \in DOMAIN miDelims : miDelims[i].kind \in Runs \cup Brackets

\* A node written back as source.
RECURSIVE Source(_)
Source(items) ==
    LET Write(n) == CASE n.kind \in {"text", "code", "math", "url", "mention", "hard", "soft"} -> n.txt
                      [] n.kind \in {"emph", "strong", "strike"} -> n.txt \o Source(n.kids) \o n.txt
                      [] n.kind = "link" -> <<"[">> \o Source(n.kids) \o n.txt
                      [] n.kind = "image" -> <<"![">> \o Source(n.kids) \o n.txt
    IN  FlattenSeq([i \in DOMAIN items |-> Write(items[i])])

RECURSIVE LinkFree(_)
LinkFree(items) == \A i \in DOMAIN items : items[i].kind # "link" /\ LinkFree(items[i].kids)
RECURSIVE LinksFlat(_)
LinksFlat(items) ==
    \A i \in DOMAIN items :
        IF items[i].kind = "link" THEN LinkFree(items[i].kids) ELSE LinksFlat(items[i].kids)
RECURSIVE DepthWithin(_, _)
DepthWithin(items, d) ==
    items = <<>> \/ (d > 0 /\ \A i \in DOMAIN items : DepthWithin(items[i].kids, d - 1))

(* The inlines of a text, written back with their delimiters, are the text: no      *)
(* character is lost, doubled or moved by the pairing of runs, by the links taken   *)
(* out of the output or by the delimiters dropped on the way (tokenize,             *)
(* process_emphasis, absorb_link).                                                  *)
InlinesKeepText ==
    miAt > Len(miRaw) + 1 => Source(miOut) = miRaw

(* No link lies inside a link, also not through an image, and the tree is no deeper *)
(* than MAX_INLINE_NESTING_DEPTH, which the code that walks it recursively relies   *)
(* on (absorb_link, the depth guards).                                              *)
InlinesWellNested == LinksFlat(miOut) /\ DepthWithin(miOut, Cap)

(* The chain of brackets is the active brackets of the delimiter vector, newest     *)
(* first, and the count the cap is compared with is their number                    *)
(* (refresh_active_bracket_state, absorb_link).                                     *)
BracketChainExact ==
    /\ miOpen = Cardinality({ j \in DOMAIN miDelims : miDelims[j].active /\ miDelims[j].kind \in Brackets })
    /\ miOpen = BracketCount(miDelims, miLast)

(* Not searching below an opener's bottom is an optimisation: asterisks and         *)
(* underscores pair the same way without it (openers_bottom in process_emphasis).   *)
BottomsOnlyOptimise ==
    AtEnd /\ "~" \notin ToSet(miRaw) =>
        ProcessEmphasis(Flushed, miDelims, 1, Cap, TRUE).out
          = ProcessEmphasis(Flushed, miDelims, 1, Cap, FALSE).out

(* Giving up on closing "$" after one search that reached the end is an             *)
(* optimisation: no later opener would have found one, although code spans and      *)
(* escapes are read differently by the tokenizer than by the search                 *)
(* (inline_math_closer_exhausted).                                                  *)
MathGivesUpSoundly ==
    miSpent /\ Sees({"$"}) => ~(OpensMath(miRaw, miAt) /\ MathEnd(miRaw, miAt + 1) > 0)

(* No part of a declined token is rescued: a mention taken out of the text is not   *)
(* glued to a word on either side, and one without a prefix of its own not to an    *)
(* "@" or "nostr:" that was declined (try_nostr_bare_mention after                  *)
(* try_nostr_mention or try_nostr_uri).                                             *)
Words == {"a", "npub", "note"}
MentionsStandAlone ==
    miAt > Len(miRaw) + 1 =>
        \A i \in DOMAIN miOut : miOut[i].kind = "mention" =>
            /\ i > 1 /\ miOut[i - 1].kind = "text" =>
                  LET txt == miOut[i - 1].txt
                  IN  /\ txt[Len(txt)] \notin Words
                      /\ Head(miOut[i].txt) = "npub" => txt[Len(txt)] \notin {"@", "nostr:"}
            /\ i < Len(miOut) /\ miOut[i + 1].kind = "text" =>
                  Head(miOut[i + 1].txt) \notin Words \cup {"nostr:"}
====
