---------------------------- MODULE HistoryPages ----------------------------
(***************************************************************************)
(* The pages of one snapshot (snapshot_manager.go: estimateSnapshotMemory  *)
(* and pageLocked): a history is read from its end towards its start, page *)
(* by page, and each page names a cursor for the one before it.  All of it *)
(* happens under the manager's mutex, so a page is one step.               *)
(*                                                                         *)
(* A line is the length of its JSON.  The fields of a page other than its  *)
(* lines take at most PageEnvelope bytes.                                  *)
(***************************************************************************)
EXTENDS Naturals, Sequences, FiniteSets, Functions

CONSTANTS
    Histories,          \* sequences of line lengths
    Cursors,            \* what newHistoryOpaqueID returns
    PageMaxLines, PageMaxBytes,
    PageEnvelope        \* historyPageEnvelopeMaxBytes

NoCursor == "none"

ASSUME PagesAssumption ==
    /\ NoCursor \notin Cursors
    /\ {PageMaxLines, PageMaxBytes, PageEnvelope} \subseteq Nat \ {0}
    /\ \A history \in Histories : history \in Seq(Nat)

VARIABLES
    history,        \* snapshot.Lines
    admitted,       \* "new", "open" or "refused"
    cursors,        \* snapshot.cursors; cursorByBefore is its inverse
    pages           \* the pages served so far, as [start, before, next]

pageVars == <<history, admitted, cursors, pages>>

(* The JSON of lines start + 1 .. before with a comma after each.          *)
EncodedLines(start, before) ==
    SumFunctionOnSet(history, (start + 1)..before) + (before - start)

(* The loop of pageLocked: as many lines as the limits allow, and one even *)
(* if it is over by the comma that the last line does not have.            *)
PageStart(before) ==
    CHOOSE s \in 0..before :
        LET fits(t) == /\ before - t <= PageMaxLines
                       /\ \/ before - t <= 1
                          \/ PageEnvelope + EncodedLines(t, before) <= PageMaxBytes
        IN  fits(s) /\ \A t \in 0..(s - 1) : ~fits(t)

(* The cursor for a place: the one it has, or a new one.                   *)
CursorsFor(start) ==
    LET known == {c \in DOMAIN cursors : cursors[c] = start}
    IN  IF known # {} THEN known ELSE Cursors \ DOMAIN cursors

(* The cursor leads to the first line of the page it came with.            *)
RememberInside(cursor, start) ==
    [c \in DOMAIN cursors \cup {cursor} |-> IF c = cursor THEN start + 1 ELSE cursors[c]]

Remember(cursor, start) ==
    [c \in DOMAIN cursors \cup {cursor} |-> IF c = cursor THEN start ELSE cursors[c]]

(* A line that no page could hold refuses the whole snapshot.              *)
AdmitHistory ==
    /\ admitted = "new"
    /\ admitted' = IF \E i \in DOMAIN history : history[i] + PageEnvelope > PageMaxBytes
                   THEN "refused" ELSE "open"
    /\ UNCHANGED <<history, cursors, pages>>

ServePage(before) ==
    LET start == PageStart(before)
    IN  \/ /\ start = 0
           /\ pages' = pages \cup {[start |-> start, before |-> before, next |-> NoCursor]}
           /\ UNCHANGED <<history, admitted, cursors>>
        \/ /\ start > 0
           /\ \E cursor \in CursorsFor(start) :
                 /\ cursors' = Remember(cursor, start)
                 /\ pages' = pages \cup {[start |-> start, before |-> before, next |-> cursor]}
           /\ UNCHANGED <<history, admitted>>

(* The first page comes with the snapshot, and may be asked for again.     *)
NewestPage == admitted = "open" /\ ServePage(Len(history))

OlderPage(cursor) ==
    admitted = "open" /\ cursor \in DOMAIN cursors /\ ServePage(cursors[cursor])

PagesInit ==
    /\ history \in Histories
    /\ admitted = "new"
    /\ cursors = <<>>
    /\ pages = {}

PagesNext == AdmitHistory \/ NewestPage \/ \E cursor \in Cursors : OlderPage(cursor)

PagesSpec == PagesInit /\ [][PagesNext]_pageVars

-----------------------------------------------------------------------------
(* No page is over the limits: not its lines, and not the JSON the handler *)
(* writes, whose lines are separated by commas.                            *)
PagesFit ==
    \A p \in pages :
        /\ p.before - p.start <= PageMaxLines
        /\ p.before > p.start =>
              PageEnvelope + EncodedLines(p.start, p.before) - 1 <= PageMaxBytes

(* The pages tile the history: two pages are the same one or have no line  *)
(* in common, none is empty while lines are left, and the cursor of a page *)
(* leads to the place where it starts.  A reader who follows the cursors   *)
(* sees every line once, however often the pages are asked for.            *)
PagesTile ==
    /\ \A p, q \in pages :
          \/ p.start = q.start /\ p.before = q.before
          \/ p.before <= q.start \/ q.before <= p.start
    /\ \A p \in pages :
          /\ p.before > 0 => p.start < p.before
          /\ p.start > 0 <=> p.next \in DOMAIN cursors
          /\ p.start > 0 => cursors[p.next] = p.start

(* Reading a page again costs nothing: a snapshot keeps one cursor for     *)
(* each page that has one before it, and no more.                          *)
OneCursorPerPage ==
    /\ admitted # "open" => cursors = <<>>
    /\ \A c, d \in DOMAIN cursors : cursors[c] = cursors[d] => c = d
    /\ \A c \in DOMAIN cursors : \E p \in pages : p.next = c

(* Following the cursors shows every line once, in pages the client        *)
(* accepts, however often a page is asked for (pageLocked).                *)
PagesExact == PagesFit /\ PagesTile /\ OneCursorPerPage
=============================================================================
