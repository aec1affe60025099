----------------------------- MODULE MCWebViews -----------------------------
(***************************************************************************)
(* What the browser shows: the output observer, the output activity, the   *)
(* text and the pages of a history, and the session tabs, side by side.    *)
(* They share no state, so a behaviour moves one of them, its part, and    *)
(* the others stay in one initial state: the state spaces add up.          *)
(***************************************************************************)
EXTENDS OutputObserver, OutputActivity, HistoryText, HistoryPages, SessionTabs

CONSTANTS s1, s2, b1, b2

VARIABLE part

-----------------------------------------------------------------------------
(* Inputs                                                                  *)

(* Response headers around every prefix of the blank line.                 *)
ThePreambles == {<<>>, <<72, CR>>, <<CR, LF, CR>>, <<72, CR, LF, 72>>}

FrameOf(o, f, m, p) == [opcode |-> o, form |-> f, masked |-> m, payload |-> p]
FirstFrames ==
    {FrameOf(o, f, m, p) : o \in {0, 2, 9}, f \in {7, 16, 64}, m \in BOOLEAN,
                           p \in {<<>>, <<130, 126>>}}
SecondFrames ==
    {FrameOf(1, 7, FALSE, <<127>>), FrameOf(10, 7, FALSE, <<>>),
     FrameOf(2, 16, TRUE, <<1, 2, 3>>)}
TheFrames == FirstFrames \X SecondFrames

(* One browser for each session.                                           *)
TheShows == (b1 :> s1) @@ (b2 :> s2)
TheOutputs == (s1 :> 2) @@ (s2 :> 1)

(* Lines of lengths around the limits of a page, in histories of up to     *)
(* three lines, and longer histories of short lines.                       *)
TheHistories == UNION {[1..n -> {1, 3, 4, 6, 7, 8}] : n \in 0..3} \cup [1..5 -> {2, 3}]

(* Terminal text: what the bytes are, what they show, what they make of    *)
(* the style, and whether they end the line.                               *)
TokenOf(bytes, shows, sets, newline) ==
    [bytes |-> bytes, shows |-> shows, sets |-> sets, newline |-> newline]
PlainBytes(values) == [i \in DOMAIN values |-> [byte |-> values[i]]]
Silent(values) == TokenOf(PlainBytes(values), <<>>, <<>>, FALSE)
Visible(values, shows) == TokenOf(PlainBytes(values), shows, <<>>, FALSE)
Param(n, sub) == [byte |-> 48, number |-> n, sub |-> sub]
CSI == <<ESC, 91>>
SGR(intro, params, sets) ==
    TokenOf(PlainBytes(intro) \o params \o PlainBytes(<<109>>), <<>>, sets, FALSE)

(* ASCII, a rune with a byte of the C1 controls, a bidi control, a tab, an *)
(* invalid byte, a line end.                                               *)
CharacterTokens ==
    {Visible(<<97, 98>>, <<97, 98>>), Visible(<<195, 156>>, <<195, 156>>),
     Visible(<<216, 156>>, <<Label>>), Visible(<<TAB>>, <<TAB>>),
     Visible(<<133>>, <<133>>), TokenOf(PlainBytes(<<13, NL>>), <<>>, <<>>, TRUE)}

(* Reset, attributes, colours in both notations, a sequence longer than    *)
(* MaxSGR and one that is not of numbers.                                  *)
StyleTokens ==
    {SGR(CSI, <<>>, PlainStyle),
     SGR(CSI, <<Param(1, <<>>), Param(31, <<>>)>>, [bold |-> TRUE, fg |-> <<205, 0, 0>>]),
     SGR(<<155>>, <<Param(22, <<>>)>>, [bold |-> FALSE, faint |-> FALSE]),
     SGR(CSI, <<Param(38, <<>>), Param(5, <<>>), Param(9, <<>>)>>, [fg |-> <<255, 0, 0>>]),
     SGR(CSI, <<Param(38, <<5, 196>>)>>, [fg |-> <<255, 0, 0>>]),
     SGR(CSI, <<Param(48, <<2, 0, 7, 0, 9>>)>>, [bg |-> <<7, 0, 9>>]),
     SGR(CSI, <<Param(48, <<5, 243>>), Param(4, <<3>>)>>,
         [bg |-> <<118, 118, 118>>, underline |-> TRUE]),
     SGR(CSI, <<Param(1, <<>>), Param(2, <<>>), Param(3, <<>>), Param(4, <<>>)>>, <<>>),
     SGR(CSI, <<[byte |-> 63], Param(1, <<>>)>>, <<>>)}

(* Other control sequences and strings, and ones that never end.           *)
ControlTokens ==
    {Silent(CSI \o <<50, 74>>), Silent(<<ESC, 93, 97, ESC, 99, 98, NL, BEL>>),
     Silent(<<ESC, 80, 97, BEL, 98, ESC, 92>>), Silent(<<157, 97, 156>>),
     Silent(<<ESC, 99>>), Silent(<<8, DEL, 145>>)}
UnfinishedTokens ==
    {Silent(<<ESC>>), Silent(CSI \o <<49>>), Silent(<<ESC, 95, 97>>),
     Silent(<<159, 97, ESC>>)}

TheTokens == CharacterTokens \cup StyleTokens \cup ControlTokens
TheTexts ==
    {<<>>} \cup {<<a>> : a \in TheTokens \cup UnfinishedTokens}
    \cup (TheTokens \X (TheTokens \cup UnfinishedTokens))
    \cup (TheTokens \X TheTokens \X TheTokens)
    \cup (StyleTokens \X CharacterTokens \X StyleTokens \X CharacterTokens)

LimitsOf(a, b, c, d, e) ==
    [lines |-> a, lineBytes |-> b, runsPerLine |-> c, runs |-> d, structured |-> e]
TheLimits ==
    {LimitsOf(9, 99, 9, 9, 99), LimitsOf(2, 3, 2, 3, 13), LimitsOf(1, 9, 1, 2, 20)}

-----------------------------------------------------------------------------
ObserverIdle == wire = <<>> /\ buffer = <<>> /\ conn = NewConn /\ observed = 0 /\ carried = 0
TextIdle == tokens = <<>> /\ limits = LimitsOf(9, 99, 9, 9, 99) /\ TextInit
PagesIdle == history = <<>> /\ PagesInit

Init ==
    \/ /\ part = "observer" /\ ObserverInit
       /\ ActivityInit /\ TextIdle /\ PagesIdle /\ TabsInit
    \/ /\ part = "activity" /\ ActivityInit
       /\ ObserverIdle /\ TextIdle /\ PagesIdle /\ TabsInit
    \/ /\ part = "text" /\ TextInit
       /\ ObserverIdle /\ ActivityInit /\ PagesIdle /\ TabsInit
    \/ /\ part = "pages" /\ PagesInit
       /\ ObserverIdle /\ ActivityInit /\ TextIdle /\ TabsInit
    \/ /\ part = "tabs" /\ TabsInit
       /\ ObserverIdle /\ ActivityInit /\ TextIdle /\ PagesIdle

Next ==
    /\ \/ /\ part = "observer" /\ ObserverNext
          /\ UNCHANGED <<activityVars, textVars, pageVars, tabsVars>>
       \/ /\ part = "activity" /\ ActivityNext
          /\ UNCHANGED <<observerVars, textVars, pageVars, tabsVars>>
       \/ /\ part = "text" /\ TextNext
          /\ UNCHANGED <<observerVars, activityVars, pageVars, tabsVars>>
       \/ /\ part = "pages" /\ PagesNext
          /\ UNCHANGED <<observerVars, activityVars, textVars, tabsVars>>
       \/ /\ part = "tabs" /\ TabsNext
          /\ UNCHANGED <<observerVars, activityVars, textVars, pageVars>>
    /\ UNCHANGED part

vars == <<part, observerVars, activityVars, textVars, pageVars, tabsVars>>

Spec == Init /\ [][Next]_vars
=============================================================================
