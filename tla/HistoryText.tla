---------------------------- MODULE HistoryText -----------------------------
(***************************************************************************)
(* parseHistoryANSI (history_ansi.go): the text of tmux capture-pane -e    *)
(* becomes lines of styled runs, within limits that are enforced while     *)
(* parsing.  One step is one iteration of its loop.                        *)
(*                                                                         *)
(* The input is a sequence of bytes, except that a parameter of a CSI      *)
(* sequence, its digits and the separator after it, is one element that    *)
(* has its number and the subparameters that follow it after colons.       *)
(* Runes have two bytes; U+061C, bytes 216 and 156, stands for the bidi    *)
(* controls.                                                               *)
(*                                                                         *)
(* An input is given as tokens.  A token has its bytes and what a terminal *)
(* would make of it: the characters it shows, the attributes it sets and   *)
(* whether it ends the line.  Only the properties look at those.           *)
(***************************************************************************)
EXTENDS Naturals, Sequences, FiniteSets, SequencesExt

CONSTANTS
    Texts,              \* the inputs: sequences of tokens
    ParseLimits,        \* records of historyANSIParseLimits
    LineOverhead,       \* historyStructuredLineOverhead
    RunOverhead,        \* historyStructuredRunOverhead
    MaxSGR,             \* historyMaxSGRBytes
    LabelBytes          \* length of the label that replaces a bidi control

ASSUME TextAssumption ==
    /\ {LineOverhead, RunOverhead, MaxSGR, LabelBytes} \subseteq Nat
    /\ ParseLimits \subseteq
         [lines: Nat \ {0}, lineBytes: Nat \ {0}, runsPerLine: Nat \ {0},
          runs: Nat \ {0}, structured: Nat \ {0}]
    /\ \A text \in Texts :
          /\ text \in Seq(Range(text))
          /\ \A i \in DOMAIN text : text[i].bytes \in Seq(Range(text[i].bytes))

VARIABLES
    tokens,         \* the input as tokens
    input, index,   \* the input as bytes, and the parser's place in it
    limits,
    lines,          \* finished lines
    parser,         \* runs, style, lineBytes, warning, totalRuns, structured
    parsed          \* "parsing", "done", "limit" or "cancelled"

textVars == <<tokens, input, index, limits, lines, parser, parsed>>

BEL == 7
TAB == 9
NL == 10
ESC == 27
DEL == 127
Label == 2000       \* stands for the text of bidiControlLabel

-----------------------------------------------------------------------------
(* Styles: what each attribute is.  A colour is <<>> or an RGB triple.     *)

Flags == {"bold", "faint", "italic", "underline", "inverse", "strike"}
PlainStyle == [a \in Flags \cup {"fg", "bg"} |->
                  IF a \in Flags THEN FALSE ELSE <<>>]

Set(S, value) == [a \in S |-> value]

(* ansiColor: 16 base colours, a cube of 6 levels, 24 greys.               *)
BaseColors == <<
    <<0, 0, 0>>, <<205, 0, 0>>, <<0, 205, 0>>, <<205, 205, 0>>,
    <<0, 0, 238>>, <<205, 0, 205>>, <<0, 205, 205>>, <<229, 229, 229>>,
    <<127, 127, 127>>, <<255, 0, 0>>, <<0, 255, 0>>, <<255, 255, 0>>,
    <<92, 92, 255>>, <<255, 0, 255>>, <<0, 255, 255>>, <<255, 255, 255>> >>
Levels == <<0, 95, 135, 175, 215, 255>>

AnsiColor(i) ==
    CASE i < 16 -> BaseColors[i + 1]
      [] i \in 16..231 -> LET v == i - 16
                          IN  [k \in 1..3 |-> Levels[((v \div 6^(3 - k)) % 6) + 1]]
      [] OTHER -> [k \in 1..3 |-> 8 + (i - 232) * 10]

(* The attributes a code of applySGR sets, and their values.               *)
CodeSets(code) ==
    CASE code = 0 -> PlainStyle
      [] code = 1 -> Set({"bold"}, TRUE)
      [] code = 2 -> Set({"faint"}, TRUE)
      [] code = 3 -> Set({"italic"}, TRUE)
      [] code \in {4, 21} -> Set({"underline"}, TRUE)
      [] code = 7 -> Set({"inverse"}, TRUE)
      [] code = 9 -> Set({"strike"}, TRUE)
      [] code = 22 -> Set({"bold", "faint"}, FALSE)
      [] code = 23 -> Set({"italic"}, FALSE)
      [] code = 24 -> Set({"underline"}, FALSE)
      [] code = 27 -> Set({"inverse"}, FALSE)
      [] code = 29 -> Set({"strike"}, FALSE)
      [] code \in 30..37 -> Set({"fg"}, AnsiColor(code - 30))
      [] code = 39 -> Set({"fg"}, <<>>)
      [] code \in 40..47 -> Set({"bg"}, AnsiColor(code - 40))
      [] code = 49 -> Set({"bg"}, <<>>)
      [] code \in 90..97 -> Set({"fg"}, AnsiColor(code - 82))
      [] code \in 100..107 -> Set({"bg"}, AnsiColor(code - 92))
      [] OTHER -> <<>>

(* parseExtendedColor: the colour, and how many values it took.            *)
ExtendedColor(values) ==
    CASE Len(values) >= 2 /\ values[1] = 5 /\ values[2] <= 255
           -> [color |-> AnsiColor(values[2]), taken |-> 2]
      [] Len(values) >= 4 /\ values[1] = 2 /\ \A i \in 2..4 : values[i] <= 255
           -> [color |-> SubSeq(values, 2, 4), taken |-> 4]
      [] OTHER -> [color |-> <<>>, taken |-> 0]

(* normalizeSGRSeparators on one group: a colour without its colour space, *)
(* or the base code alone.                                                 *)
Normalize(param) ==
    IF /\ param.number \in {38, 48}
       /\ Len(param.sub) >= 2 /\ param.sub[1] \in {2, 5}
    THEN <<param.number, param.sub[1]>>
         \o SubSeq(param.sub, IF param.sub[1] = 2 /\ Len(param.sub) >= 5 THEN 3 ELSE 2,
                   Len(param.sub))
    ELSE <<param.number>>

(* The loop of applySGR: what the values from the i-th on set, where a     *)
(* later one decides.                                                      *)
ApplyCodes(style, values) ==
    LET Ext(i) == IF values[i] \in {38, 48}
                  THEN ExtendedColor(SubSeq(values, i + 1, Len(values)))
                  ELSE [color |-> <<>>, taken |-> 0]
        Sets(i) == IF Ext(i).taken = 0 THEN CodeSets(values[i])
                   ELSE Set({IF values[i] = 38 THEN "fg" ELSE "bg"}, Ext(i).color)
        after[i \in 1..(Len(values) + 1)] ==
            IF i > Len(values) THEN <<>>
            ELSE after[i + 1 + Ext(i).taken] @@ Sets(i)
    IN  after[1] @@ style

(* applySGR: no parameter is 0, and one that is no number spoils them all. *)
ApplySGR(style, params) ==
    CASE params = <<>> -> ApplyCodes(style, <<0>>)
      [] \E i \in DOMAIN params : "number" \notin DOMAIN params[i] -> style
      [] OTHER -> ApplyCodes(style, FlattenSeq([i \in DOMAIN params |-> Normalize(params[i])]))

-----------------------------------------------------------------------------
(* The parser                                                              *)

NewParser == [runs |-> <<>>, style |-> PlainStyle, lineBytes |-> 0,
              warning |-> FALSE, totalRuns |-> 0, structured |-> 0]

InputEnd == Len(input) + 1
Byte(i) == input[i].byte
Smallest(S) == CHOOSE i \in S : \A j \in S : i <= j

(* consumeCSI: the place of the final byte, and the style after it.        *)
CSIFinal(start) ==
    Smallest({i \in start..Len(input) : Byte(i) \in 64..126} \cup {InputEnd})

CSIStyle(start) ==
    LET final == CSIFinal(start)
    IN  IF final < InputEnd /\ Byte(final) = 109 /\ final - start <= MaxSGR
        THEN ApplySGR(parser.style, SubSeq(input, start, final - 1))
        ELSE parser.style

(* A string control ends at the first ESC, whatever follows it.            *)
StringNextEsc(start, allowBEL) ==
    Smallest({i + 1 : i \in {j \in start..Len(input) :
                 Byte(j) \in {156, ESC} \/ (allowBEL /\ Byte(j) = BEL)}}
             \cup {InputEnd})

(* consumeStringControl: BEL, ESC \, or the byte 156.                      *)
StringNext(start, allowBEL) ==
    Smallest({i + 1 : i \in {j \in start..Len(input) :
                 Byte(j) = 156 \/ (allowBEL /\ Byte(j) = BEL)}}
             \cup {i + 2 : i \in {j \in start..(Len(input) - 1) :
                 Byte(j) = ESC /\ Byte(j + 1) = 92}}
             \cup {InputEnd})

Refuse(why) ==
    /\ parsed' = why
    /\ UNCHANGED <<tokens, input, index, limits, lines, parser>>

(* Nothing of input[index] .. input[next - 1] is shown.                    *)
Skip(next, style) ==
    /\ index' = next
    /\ parser' = [parser EXCEPT !.style = style]
    /\ UNCHANGED <<tokens, input, limits, lines, parsed>>

SkipCSI(start) == Skip(Smallest({CSIFinal(start) + 1, InputEnd}), CSIStyle(start))
SkipString(start, allowBEL) == Skip(StringNext(start, allowBEL), parser.style)

(* Styles are compared as pointers, which only the plain style survives.   *)
SameRunPointer ==
    /\ parser.runs # <<>>
    /\ Last(parser.runs).style = PlainStyle /\ parser.style = PlainStyle

(* equalHistoryStyle with the last run.                                    *)
SameRun == parser.runs # <<>> /\ Last(parser.runs).style = parser.style

(* reserveStructured for the text alone.                                   *)
TextCostPlain(bytes) == bytes

TextCost(bytes) == bytes + (IF SameRun THEN 0 ELSE RunOverhead)

(* appendText: all of the text, or errHistoryANSIResourceLimit.            *)
AppendText(text, bytes, warning, next) ==
    IF \/ bytes > limits.lineBytes - parser.lineBytes
       \/ TextCost(bytes) > limits.structured - parser.structured
       \/ ~SameRun /\ (\/ Len(parser.runs) >= limits.runsPerLine
                       \/ parser.totalRuns >= limits.runs)
    THEN Refuse("limit")
    ELSE /\ parser' = [parser EXCEPT
              !.runs = IF SameRun
                       THEN [parser.runs EXCEPT ![Len(parser.runs)].text = @ \o text]
                       ELSE Append(parser.runs, [text |-> text, style |-> parser.style]),
              !.lineBytes = @ + bytes,
              !.warning = @ \/ warning,
              !.totalRuns = IF SameRun THEN @ ELSE @ + 1,
              !.structured = @ + TextCost(bytes)]
         /\ index' = next
         /\ UNCHANGED <<tokens, input, limits, lines, parsed>>

(* flushLine                                                               *)
FlushLine(next, then) ==
    IF Len(lines) >= limits.lines \/ LineOverhead > limits.structured - parser.structured
    THEN Refuse("limit")
    ELSE /\ lines' = Append(lines, [runs |-> parser.runs, warning |-> parser.warning])
         /\ parser' = [parser EXCEPT !.runs = <<>>, !.lineBytes = 0, !.warning = FALSE,
                                     !.structured = @ + LineOverhead]
         /\ index' = next
         /\ parsed' = then
         /\ UNCHANGED <<tokens, input, limits>>

AtByte(S) == parsed = "parsing" /\ index < InputEnd /\ Byte(index) \in S
Follows(S) == index + 1 < InputEnd /\ Byte(index + 1) \in S

(* A byte above 127 starts a rune of two bytes, ...                        *)
ParseRune ==
    /\ AtByte(194..223) /\ Follows(128..191)
    /\ IF Byte(index) = 216 /\ Byte(index + 1) = 156
       THEN AppendText(<<Label>>, LabelBytes, TRUE, index + 2)
       ELSE AppendText(<<Byte(index), Byte(index + 1)>>, 2, FALSE, index + 2)

(* ... or belongs to no rune and is kept as it is, ...                     *)
ParseInvalid ==
    /\ \/ AtByte(194..223) /\ ~Follows(128..191)
       \/ AtByte((128..143) \cup (160..193))
    /\ AppendText(<<Byte(index)>>, 1, FALSE, index + 1)

(* ... or is a C1 control: a string, CSI, or one without an effect.        *)
ParseC1 ==
    \/ AtByte({144, 157, 158, 159}) /\ SkipString(index + 1, Byte(index) = 157)
    \/ AtByte({155}) /\ SkipCSI(index + 1)
    \/ AtByte((145..154) \cup {156}) /\ Skip(index + 1, parser.style)

ParseNewline == AtByte({NL}) /\ FlushLine(index + 1, "parsing")

ParseTab == AtByte({TAB}) /\ AppendText(<<TAB>>, 1, FALSE, index + 1)

(* Carriage return, the other C0 controls and DEL.                         *)
ParseControl ==
    /\ AtByte((0..31 \cup {DEL}) \ {NL, TAB, ESC})
    /\ Skip(index + 1, parser.style)

(* consumeEscapeSequence                                                   *)
ParseEscape ==
    /\ AtByte({ESC})
    /\ \/ Follows({91}) /\ SkipCSI(index + 2)
       \/ Follows({93, 80, 95, 94}) /\ SkipString(index + 2, Byte(index + 1) = 93)
       \/ /\ ~Follows({91, 93, 80, 95, 94})
          /\ Skip(Smallest({index + 2, InputEnd}), parser.style)

(* A stretch of printable bytes is appended at once.                       *)
ParsePrintable ==
    /\ AtByte(32..126)
    /\ LET next == Smallest({i \in index..Len(input) : Byte(i) \notin 32..126}
                            \cup {InputEnd})
       IN  AppendText([i \in 1..(next - index) |-> Byte(index + i - 1)],
                      next - index, FALSE, next)

(* The rest of the input is a line too.                                    *)
ParseEnd ==
    /\ parsed = "parsing" /\ index = InputEnd
    /\ FlushLine(index, "done")

(* ctx.Err is asked at the start, and at the start of a stretch, of a CSI  *)
(* sequence and of a string.                                               *)
ParseCancelled ==
    /\ \/ parsed = "parsing" /\ index = 1
       \/ AtByte(32..126)
       \/ AtByte({144, 155, 157, 158, 159}) /\ index + 1 < InputEnd
       \/ AtByte({ESC}) /\ Follows({91, 93, 80, 95, 94}) /\ index + 2 < InputEnd
    /\ Refuse("cancelled")

TextInit ==
    /\ tokens \in Texts
    /\ input = FlattenSeq([i \in DOMAIN tokens |-> tokens[i].bytes])
    /\ limits \in ParseLimits
    /\ index = 1
    /\ lines = <<>>
    /\ parser = NewParser
    /\ parsed = "parsing"

TextNext ==
    \/ ParseRune \/ ParseInvalid \/ ParseC1 \/ ParseNewline \/ ParseTab
    \/ ParseControl \/ ParseEscape \/ ParsePrintable \/ ParseEnd \/ ParseCancelled

TextSpec == TextInit /\ [][TextNext]_textVars

-----------------------------------------------------------------------------
(* What a terminal shows of the tokens: lines of characters with styles.   *)

(* The style at a token: the last one before it that sets an attribute     *)
(* decides the attribute.                                                  *)
StyleAt(k) ==
    [a \in DOMAIN PlainStyle |->
        LET setters == {j \in 1..(k - 1) : a \in DOMAIN tokens[j].sets}
        IN  IF setters = {} THEN PlainStyle[a]
            ELSE tokens[CHOOSE j \in setters : \A i \in setters : i <= j].sets[a]]

Breaks == {k \in DOMAIN tokens : tokens[k].newline}

(* The characters between the n-th line break and the next.                *)
ShownLine(n) ==
    LET in == {k \in DOMAIN tokens :
                 Cardinality({b \in Breaks : b < k}) = n - 1 /\ k \notin Breaks}
    IN  FlattenSeq([k \in DOMAIN tokens |->
            IF k \notin in THEN <<>>
            ELSE [c \in DOMAIN tokens[k].shows |->
                    [char |-> tokens[k].shows[c], style |-> StyleAt(k)]]])

Shown == [n \in 1..(Cardinality(Breaks) + 1) |-> ShownLine(n)]

(* What the parser found, character by character.                          *)
FoundLine(line) ==
    FlattenSeq([r \in DOMAIN line.runs |->
        [c \in DOMAIN line.runs[r].text |->
            [char |-> line.runs[r].text[c], style |-> line.runs[r].style]]])

RunsOf(shown) ==
    IF shown = <<>> THEN 0
    ELSE 1 + Cardinality({c \in 2..Len(shown) : shown[c].style # shown[c - 1].style})

BytesOf(shown) ==
    Len(shown) + (LabelBytes - 1)
                 * Cardinality({c \in DOMAIN shown : shown[c].char = Label})

(* What a terminal shows does not fit the limits.                          *)
TooMuch ==
    LET runs == [n \in DOMAIN Shown |-> RunsOf(Shown[n])]
        bytes == [n \in DOMAIN Shown |-> BytesOf(Shown[n])]
    IN  \/ Len(Shown) > limits.lines
        \/ \E n \in DOMAIN Shown : bytes[n] > limits.lineBytes \/ runs[n] > limits.runsPerLine
        \/ SumFunction(runs) > limits.runs
        \/ SumFunction(bytes) + RunOverhead * SumFunction(runs) + LineOverhead * Len(Shown)
             > limits.structured

(* How many runs each line has, and how many bytes.                        *)
RunsIn(ls) == [n \in DOMAIN ls |-> Len(ls[n].runs)]
BytesIn(ls) == [n \in DOMAIN ls |-> BytesOf(FoundLine(ls[n]))]

(* The line that is not finished yet.                                      *)
LastLine == [runs |-> parser.runs, warning |-> parser.warning]

(* The parser stays within its limits at every step, not only at the end:  *)
(* no line, no run and no byte is kept that they do not allow, and what    *)
(* appendText, flushLine and reserveStructured count on the way is what    *)
(* the lines and runs they built really take, also where a text was merged *)
(* into the run before it or its bytes were replaced by a label.           *)
LimitsExact ==
    LET kept == Append(lines, LastLine)
        runs == RunsIn(kept)
        bytes == BytesIn(kept)
    IN  /\ parsed \in {"parsing", "done", "limit", "cancelled"}
        /\ index \in 1..InputEnd
        /\ Len(lines) <= limits.lines
        /\ parser.totalRuns = SumFunction(runs) /\ parser.totalRuns <= limits.runs
        /\ \A n \in DOMAIN kept : runs[n] <= limits.runsPerLine /\ bytes[n] <= limits.lineBytes
        /\ parser.lineBytes = bytes[Len(kept)]
        /\ parser.structured = SumFunction(bytes) + RunOverhead * SumFunction(runs)
                               + LineOverhead * Len(lines)
        /\ parser.structured <= limits.structured

(* A parsed history shows exactly what a terminal would: the characters of *)
(* every line, none of a control sequence, each in the style the sequences *)
(* before it left, and a bidi warning on the lines that had a bidi control *)
(* and on no other.                                                        *)
ParsedIsShown ==
    parsed = "done" =>
        /\ Len(lines) = Len(Shown)
        /\ \A n \in DOMAIN lines :
              /\ FoundLine(lines[n]) = Shown[n]
              /\ lines[n].warning = \E c \in DOMAIN Shown[n] : Shown[n][c].char = Label

(* The limits refuse a history that is too large for them and no other:    *)
(* runs are merged wherever the style is the same, and what is counted is  *)
(* what is kept.                                                           *)
RefusedOnlyIfTooMuch ==
    /\ parsed = "limit" => TooMuch
    /\ parsed = "done" => ~TooMuch

(* What comes of a history is right: it is parsed to what it shows, or     *)
(* refused because that is too much (parseHistoryANSI).                    *)
ParsedIsRight == ParsedIsShown /\ RefusedOnlyIfTooMuch
=============================================================================
