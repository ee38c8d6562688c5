------------------------------ MODULE PushBody ------------------------------
(***************************************************************************)
(* From the briefing's markdown to the push message: the line scanner and  *)
(* the trimming of apps/worker/jobs/generate_briefing.py.                  *)
(*                                                                         *)
(* A line is what the scanner takes it for and the width of what it is     *)
(* rendered as; inline emphasis and a table's columns are left out.  The   *)
(* HTML is a sequence of rendered lines and breaks.                        *)
(***************************************************************************)
EXTENDS Integers, SequencesExt

CONSTANTS
    MaxLines,    \* bound on the briefing's lines
    Widths,      \* widths a rendered line may have
    MessageLimit \* Pushover's 1024

ASSUME PushAssumption ==
    /\ MaxLines \in Nat
    /\ Widths \subseteq Nat \ {0}
    /\ MessageLimit \in Nat /\ MessageLimit > 5

VARIABLES
    markdown,   \* the lines of summary_markdown
    html,       \* its conversion, once made
    message,    \* the body that is sent: tokens, and how it was cut
    made        \* "none", "html" or "message"

pushVars == <<markdown, html, message, made>>

-----------------------------------------------------------------------------

\* Kinds of table lines: a row of cells, the |---| line, a row of empty cells.
TableKinds == {"row", "separator", "empty"}
Line == [kind : {"heading", "text", "row", "separator"}, width : Widths]
        \cup [kind : {"blank", "empty"}, width : {0}]

\* A token is a rendered line, with its number, or a <br>.
Token == [line : 0 .. MaxLines, width : Nat]
Break == [line |-> 0, width |-> 4]
Cuts == {"whole", "between", "inside"}
NoMessage == [tokens |-> <<>>, cut |-> "whole"]

PushTypeOK ==
    /\ markdown \in Seq(Line) /\ Len(markdown) <= MaxLines
    /\ html \in Seq(Token)
    /\ message \in [tokens : Seq(Token), cut : Cuts]
    /\ made \in {"none", "html", "message"}

PushInit ==
    /\ \E n \in 0 .. MaxLines : markdown \in [1 .. n -> Line]
    /\ html = <<>>
    /\ message = NoMessage
    /\ made = "none"

-----------------------------------------------------------------------------
(***************************************************************************)
(* _markdown_to_pushover_html.                                             *)
(***************************************************************************)

Rendered(i) == [line |-> i, width |-> markdown[i].width]
Spacer == [line |-> 0, width |-> 0]

IsTable(i) == markdown[i].kind \in TableKinds

\* The scanner's state after some lines: what it has put out, the first line of
\* the block of table lines it is in, 0 for none, and the rows of that block that
\* _render_table_block will show, one for each data row that has a cell.
NoLines == [out |-> <<>>, block |-> 0, rows |-> <<>>]

\* The end of a block of table lines: the first of several is their header, one
\* alone is its cells.  A row of kind "empty" stands for one with a single empty
\* cell: several of them, alone, are joined by blanks and not taken for a break.
EndBlock(acc, last) ==
    IF acc.block = 0 THEN <<>>
    ELSE IF acc.block < last THEN IF acc.rows = <<>> THEN <<Spacer>> ELSE acc.rows
    ELSE IF markdown[acc.block].kind = "empty" THEN <<Spacer>> ELSE <<Rendered(acc.block)>>

\* A heading is followed by a spacer, a blank line is one.
Plain(i) ==
    CASE markdown[i].kind = "heading" -> <<Rendered(i), Spacer>>
      [] markdown[i].kind = "blank"   -> <<Spacer>>
      [] OTHER                        -> <<Rendered(i)>>

Scan(acc, i) ==
    IF ~IsTable(i)
    THEN [NoLines EXCEPT !.out = acc.out \o EndBlock(acc, i - 1) \o Plain(i)]
    ELSE IF acc.block = 0 THEN [acc EXCEPT !.block = i]
    ELSE IF markdown[i].kind = "row" THEN [acc EXCEPT !.rows = Append(@, Rendered(i))]
    ELSE acc

Scanned[i \in 0 .. Len(markdown)] == IF i = 0 THEN NoLines ELSE Scan(Scanned[i - 1], i)

Pieces ==
    LET end == Scanned[Len(markdown)]
    IN  end.out \o EndBlock(end, Len(markdown))

\* "<br>".join, and the collapse of three breaks in a row to two.
AddBreak(tokens) ==
    LET n == Len(tokens)
    IN  IF n >= 2 /\ tokens[n] = Break /\ tokens[n - 1] = Break THEN tokens
        ELSE Append(tokens, Break)

AddPiece(tokens, piece) == IF piece.width = 0 THEN tokens ELSE Append(tokens, piece)

Joined(pieces) ==
    LET joined[n \in 0 .. Len(pieces)] ==
            IF n = 0 THEN <<>>
            ELSE AddPiece(IF n = 1 THEN joined[0] ELSE AddBreak(joined[n - 1]), pieces[n])
    IN  joined[Len(pieces)]

MarkdownToPushoverHtml == Joined(Pieces)

-----------------------------------------------------------------------------
(***************************************************************************)
(* _trim_pushover_html.                                                    *)
(***************************************************************************)

\* How many characters there are in the first k tokens.
UpTo(tokens) ==
    LET width[k \in 0 .. Len(tokens)] == IF k = 0 THEN 0 ELSE width[k - 1] + tokens[k].width
    IN  width
Width(tokens) == UpTo(tokens)[Len(tokens)]

\* Faulty variant: the break is looked for up to the limit, the ellipsis forgotten.
BreaksInReachToLimit(tokens) ==
    {k \in DOMAIN tokens : tokens[k] = Break /\ UpTo(tokens)[k - 1] <= MessageLimit}

\* The breaks that rfind may return: they end before the last character.
BreaksInReach(tokens) ==
    {k \in DOMAIN tokens : tokens[k] = Break /\ UpTo(tokens)[k] <= MessageLimit - 1}

\* The messages trimming may yield.  Without a break in reach the first line is
\* cut at its last space in reach, or else anywhere.
TrimPushoverHtml(tokens) ==
    LET breaks == BreaksInReach(tokens) IN
    IF Width(tokens) <= MessageLimit THEN {[tokens |-> tokens, cut |-> "whole"]}
    ELSE IF breaks # {}
    THEN {[tokens |-> SubSeq(tokens, 1, k - 1), cut |-> "between"] :
              k \in {b \in breaks : \A c \in breaks : c <= b}}
    ELSE {[tokens |-> <<[tokens[1] EXCEPT !.width = w]>>, cut |-> "inside"] :
              w \in 0 .. MessageLimit - 1}

-----------------------------------------------------------------------------

Convert ==
    /\ made = "none"
    /\ html' = MarkdownToPushoverHtml
    /\ made' = "html"
    /\ UNCHANGED <<markdown, message>>

Trim ==
    /\ made = "html"
    /\ message' \in TrimPushoverHtml(html)
    /\ made' = "message"
    /\ UNCHANGED <<markdown, html>>

PushNext == Convert \/ Trim

PushSpec == PushInit /\ [][PushNext]_pushVars

-----------------------------------------------------------------------------
(***************************************************************************)
(* Properties.                                                             *)
(***************************************************************************)

\* Told from the neighbours alone: a table line beside another is shown if it is
\* a row and not the first of them; any other line if it is not empty.
InTable(i) == IsTable(i) /\ \E j \in {i - 1, i + 1} \cap DOMAIN markdown : IsTable(j)
Heads(i) == i = 1 \/ ~IsTable(i - 1)
ShouldShow(i) ==
    IF InTable(i) THEN markdown[i].kind = "row" /\ ~Heads(i)
    ELSE markdown[i].kind \notin {"blank", "empty"}

\* The lines whose number the tokens have, and in which order.
Shown(tokens) == {tokens[n].line : n \in DOMAIN tokens} \ {0}
InOrder(tokens) ==
    \A m, n \in DOMAIN tokens :
        m < n /\ 0 \notin {tokens[m].line, tokens[n].line} => tokens[m].line < tokens[n].line

Characters == Width(message.tokens) + (IF message.cut = "whole" THEN 0 ELSE 1)

\* Every line that is not a blank, a table's header or its rule is in the HTML
\* once, in order, apart from the next by one or two breaks.
KeepsLines(tokens) ==
    /\ Shown(tokens) = {i \in DOMAIN markdown : ShouldShow(i)}
    /\ InOrder(tokens)
    /\ \A n \in 1 .. Len(tokens) - 1 : tokens[n] # Break => tokens[n + 1] = Break
    /\ \A n \in 1 .. Len(tokens) - 2 : \E m \in n .. n + 2 : tokens[m] # Break

\* What is sent fits, and is a prefix of whole lines up to one that did not,
\* unless the very first line does not fit.
CutsAtALine(tokens) ==
    /\ Characters <= MessageLimit
    /\ message.cut = "inside" => tokens[1].width + Break.width >= MessageLimit
    /\ message.cut # "inside" => IsPrefix(message.tokens, tokens)
    /\ message.cut = "between" =>
        \A n \in Len(message.tokens) + 2 .. Len(tokens) :
            tokens[n] # Break => UpTo(tokens)[n] + Break.width >= MessageLimit

\* The message never loses a line in the middle: the conversion keeps them all, and
\* trimming cuts behind a line.
PushKeepsLines ==
    /\ made # "none" => KeepsLines(html)
    /\ made = "message" => CutsAtALine(html)

=============================================================================
