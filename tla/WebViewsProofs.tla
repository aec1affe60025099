--------------------------- MODULE WebViewsProofs ---------------------------
(***************************************************************************)
(* What the browser shows, for every history, number of sessions and       *)
(* number of requests: the pages of a history are one chain from its end   *)
(* to its beginning, the tabs are never older than what was shown before,  *)
(* a view is told of the output it does not show, because the bytes of     *)
(* output are counted exactly in every stream of frames, however cut, and  *)
(* a history is parsed within its limits, whatever its text.               *)
(***************************************************************************)
EXTENDS HistoryPages, SessionTabs, OutputActivity, OutputObserver, HistoryText, SumTheorems,
        SequenceTheorems

-----------------------------------------------------------------------------
(* HistoryPages                                                            *)

(* What a page of lines t + 1 .. b has to satisfy.                         *)
Fits(t, b) ==
    /\ b - t <= PageMaxLines
    /\ \/ b - t <= 1
       \/ PageEnvelope + EncodedLines(t, b) <= PageMaxBytes

(* A page has a first line: the loop of pageLocked stops, inside the       *)
(* limits, and never without a line while there is one.                    *)
LEMMA PageStartIs ==
  ASSUME NEW b \in Nat
  PROVE  /\ PageStart(b) \in 0..b
         /\ Fits(PageStart(b), b)
         /\ b > 0 => PageStart(b) < b
<1> DEFINE B == {t \in 0..b : Fits(t, b)}
<1>0. PageMaxLines \in Nat /\ PageMaxLines >= 1
  BY PagesAssumption
<1>1. b \in B
  BY <1>0 DEF Fits
<1>2. B \subseteq Nat /\ B # {}
  BY <1>1
<1>3. PICK s \in B : \A t \in B : ~(t < s)
  <2> HIDE DEF B
  <2> QED
    BY <1>2, LeastNat
<1>4. s \in 0..b /\ Fits(s, b) /\ \A t \in 0..(s - 1) : ~Fits(t, b)
  <2>1. s \in 0..b /\ Fits(s, b)
    BY <1>3
  <2>2. ASSUME NEW t \in 0..(s - 1), Fits(t, b) PROVE FALSE
    <3>1. t \in B /\ t < s
      BY <2>1, <2>2
    <3> QED
      BY <3>1, <1>3
  <2> QED
    BY <2>1, <2>2
<1>5. PageStart(b) = CHOOSE u \in 0..b : Fits(u, b) /\ \A t \in 0..(u - 1) : ~Fits(t, b)
  BY DEF PageStart, Fits
<1>6. PICK u \in 0..b : /\ u = PageStart(b)
                        /\ Fits(u, b) /\ \A t \in 0..(u - 1) : ~Fits(t, b)
  BY <1>4, <1>5
<1>7. b > 0 => u < b
  <2> SUFFICES ASSUME b > 0, u = b PROVE FALSE
    OBVIOUS
  <2>1. b - 1 \in 0..(u - 1)
    OBVIOUS
  <2>2. b - (b - 1) = 1
    OBVIOUS
  <2>3. Fits(b - 1, b)
    BY <2>2, <1>0 DEF Fits
  <2> QED
    BY <2>1, <2>3, <1>6
<1> QED
  BY <1>6, <1>7

(* The size of a page is a number, and of one line it is the line's.       *)
LEMMA EncodedLinesIs ==
  ASSUME history \in Seq(Nat), NEW s \in Nat, NEW b \in 0..Len(history), s < b
  PROVE  /\ EncodedLines(s, b) \in Nat
         /\ b - s <= 1 => EncodedLines(s, b) = history[b] + 1
<1> DEFINE S == (s + 1)..b
<1>1. IsFiniteSet(S)
  BY FS_Interval
<1>2. \A i \in S : history[i] \in Nat
  OBVIOUS
<1>3. SumFunctionOnSet(history, S) \in Nat
  <2> HIDE DEF S
  <2> QED
    BY <1>1, <1>2, SumType
<1>4. ASSUME b - s <= 1 PROVE SumFunctionOnSet(history, S) = history[b]
  <2>1. S = {b} /\ b \in S
    BY <1>4
  <2>2. S \ {b} = {}
    BY <2>1
  <2>3. SumFunctionOnSet(history, S) = history[b] + SumFunctionOnSet(history, S \ {b})
    <3> HIDE DEF S
    <3> QED
      BY <1>1, <1>2, <2>1, SumRemove
  <2>4. SumFunctionOnSet(history, S \ {b}) = 0
    BY <2>2, SumEmpty
  <2> QED
    BY <2>1, <2>3, <2>4, <1>2
<1> QED
  BY <1>3, <1>4 DEF EncodedLines

(* The invariant.  Every page is the one page that ends where it ends, and *)
(* its cursor is where it starts; the newest page is among them; and if    *)
(* there is a page anywhere before the start of a page, the page just      *)
(* before it is there too: the pages are one chain from the end of the     *)
(* history.                                                                *)
PageIsCut(p) ==
    /\ p.before \in 0..Len(history) /\ p.start = PageStart(p.before)
    /\ p.start = 0 => p.next = NoCursor
    /\ p.start > 0 => p.next \in DOMAIN cursors /\ cursors[p.next] = p.start

Chained ==
    /\ pages # {} => \E p \in pages : p.before = Len(history)
    /\ \A p, q \in pages : q.start > 0 /\ p.before <= q.start
                              => \E r \in pages : r.before = q.start

PagesInv ==
    /\ history \in Seq(Nat)
    /\ admitted # "open" => cursors = <<>> /\ pages = {}
    /\ admitted = "open" =>
          \A i \in DOMAIN history : history[i] + PageEnvelope <= PageMaxBytes
    /\ \A c \in DOMAIN cursors : c \in Cursors /\ \E p \in pages : p.next = c /\ p.start > 0
    /\ \A c, d \in DOMAIN cursors : cursors[c] = cursors[d] => c = d
    /\ \A p \in pages : PageIsCut(p)
    /\ \A p, q \in pages :
          \/ p.start = q.start /\ p.before = q.before
          \/ p.before <= q.start \/ q.before <= p.start
    /\ Chained

(* What a page contains.                                                   *)
LEMMA CutIs ==
  ASSUME history \in Seq(Nat), NEW p, PageIsCut(p)
  PROVE  /\ p.before \in Nat /\ p.before <= Len(history)
         /\ p.start \in Nat /\ p.start <= p.before
         /\ p.before > 0 => p.start < p.before
         /\ Fits(p.start, p.before)
BY PageStartIs DEF PageIsCut

(* The invariant says what is claimed.                                     *)
LEMMA PagesInvExact == PagesInv => PagesExact
<1> SUFFICES ASSUME PagesInv PROVE PagesExact
  OBVIOUS
<1>0. history \in Seq(Nat)
  BY DEF PagesInv
<1>1. PagesFit
  <2> SUFFICES ASSUME NEW p \in pages
               PROVE  /\ p.before - p.start <= PageMaxLines
                      /\ p.before > p.start =>
                           PageEnvelope + EncodedLines(p.start, p.before) - 1 <= PageMaxBytes
    BY DEF PagesFit
  <2>1. PageIsCut(p)
    BY DEF PagesInv
  <2>2. /\ p.before \in Nat /\ p.before <= Len(history) /\ p.start \in Nat
        /\ Fits(p.start, p.before)
    BY <1>0, <2>1, CutIs
  <2>3. PageEnvelope \in Nat /\ PageMaxBytes \in Nat
    BY PagesAssumption
  <2>4. ASSUME p.before > p.start
        PROVE  PageEnvelope + EncodedLines(p.start, p.before) - 1 <= PageMaxBytes
    <3>1. PICK s \in Nat, b \in 0..Len(history) : s = p.start /\ b = p.before
      BY <2>2, <1>0
    <3>2. /\ EncodedLines(s, b) \in Nat
          /\ b - s <= 1 => EncodedLines(s, b) = history[b] + 1
      BY <1>0, <2>4, <3>1, EncodedLinesIs
    <3>3. b - s <= 1 \/ PageEnvelope + EncodedLines(s, b) <= PageMaxBytes
      BY <2>2, <3>1 DEF Fits
    <3>4. b \in DOMAIN history /\ history[b] \in Nat /\ history[b] + PageEnvelope <= PageMaxBytes
      BY <1>0, <2>4, <3>1 DEF PagesInv
    <3>5. PageEnvelope + EncodedLines(s, b) - 1 <= PageMaxBytes
      BY <3>2, <3>3, <3>4, <2>3
    <3> QED
      BY <3>1, <3>5
  <2> QED
    BY <2>2, <2>4 DEF Fits
<1>2. PagesTile
  <2>1. ASSUME NEW p \in pages
        PROVE  /\ p.before > 0 => p.start < p.before
               /\ p.start > 0 <=> p.next \in DOMAIN cursors
               /\ p.start > 0 => cursors[p.next] = p.start
    <3>1. PageIsCut(p)
      BY DEF PagesInv
    <3>2. p.start \in Nat /\ (p.before > 0 => p.start < p.before)
      BY <1>0, <3>1, CutIs
    <3>3. p.start = 0 => p.next \notin DOMAIN cursors
      BY <3>1, PagesAssumption DEF PageIsCut, PagesInv
    <3> QED
      BY <3>1, <3>2, <3>3 DEF PageIsCut
  <2> QED
    BY <2>1 DEF PagesTile, PagesInv
<1>3. OneCursorPerPage
  BY DEF OneCursorPerPage, PagesInv
<1> QED
  BY <1>1, <1>2, <1>3 DEF PagesExact

(* Where a page that is asked for ends: at the end of the history, or      *)
(* where a page that was served starts.                                    *)
NextPlace(b) ==
    /\ b \in 0..Len(history)
    /\ \/ b = Len(history)
       \/ \E p \in pages : p.start = b /\ b > 0

(* Nothing that was served before reaches beyond the place of a new page.  *)
LEMMA OthersAreAfter ==
  ASSUME PagesInv, NEW b, NextPlace(b), \A p \in pages : p.before # b,
         NEW q \in pages
  PROVE  /\ b <= q.start
         /\ q.start > b => \E r \in pages : r.before = q.start
<1>0. history \in Seq(Nat) /\ b \in Nat
  BY DEF PagesInv, NextPlace
<1>1. PICK p \in pages : p.start = b /\ b > 0
  <2> SUFFICES ASSUME b = Len(history) PROVE FALSE
    BY DEF NextPlace
  <2>1. \E r \in pages : r.before = Len(history)
    BY DEF PagesInv, Chained
  <2> QED
    BY <2>1
<1>2. PageIsCut(p) /\ PageIsCut(q)
  BY DEF PagesInv
<1>3. /\ p.before \in Nat /\ q.before \in Nat /\ p.start \in Nat /\ q.start \in Nat
      /\ p.start <= p.before /\ q.start <= q.before
      /\ p.before > 0 => p.start < p.before
      /\ q.before > 0 => q.start < q.before
  BY <1>0, <1>2, CutIs
<1>4. ~(q.before <= p.start)
  <2> SUFFICES ASSUME q.before <= p.start PROVE FALSE
    OBVIOUS
  <2>1. \E r \in pages : r.before = p.start
    BY <1>1 DEF PagesInv, Chained
  <2> QED
    BY <1>1, <2>1
<1>5. \/ p.start = q.start /\ p.before = q.before
      \/ p.before <= q.start
  BY <1>4 DEF PagesInv
<1>6. b <= q.start
  BY <1>0, <1>1, <1>3, <1>5
<1>7. ASSUME q.start > b PROVE \E r \in pages : r.before = q.start
  <2>1. q.start > 0 /\ p.before <= q.start
    BY <1>0, <1>1, <1>3, <1>5, <1>7
  <2> QED
    BY <2>1 DEF PagesInv, Chained
<1> QED
  BY <1>6, <1>7

(* Serving a page keeps the invariant, whatever cursor the page gets.      *)
LEMMA ServeKeeps ==
  ASSUME PagesInv, admitted = "open", NEW b, NextPlace(b), ServePage(b)
  PROVE  PagesInv'
<1>0. history \in Seq(Nat) /\ b \in Nat /\ b \in 0..Len(history)
  BY DEF PagesInv, NextPlace
<1>1. PICK s : s = PageStart(b)
  OBVIOUS
<1>2. s \in Nat /\ s <= b /\ (b > 0 => s < b)
  BY <1>0, <1>1, PageStartIs
<1>3. history' = history /\ admitted' = admitted
  BY DEF ServePage
<1>4. PICK n : /\ pages' = pages \cup {[start |-> s, before |-> b, next |-> n]}
               /\ s = 0 => n = NoCursor /\ cursors' = cursors
               /\ s > 0 => n \in CursorsFor(s) /\ cursors' = Remember(n, s)
  BY <1>1, <1>2 DEF ServePage
<1>5. PICK r : r = [start |-> s, before |-> b, next |-> n]
  OBVIOUS
<1>6. r.start = s /\ r.before = b /\ r.next = n /\ pages' = pages \cup {r}
  BY <1>4, <1>5
<1>7. s > 0 => n \in Cursors /\ (n \in DOMAIN cursors => cursors[n] = s)
                 /\ \A c \in DOMAIN cursors : cursors[c] = s => c = n
  BY <1>4 DEF CursorsFor, PagesInv
<1>8. /\ \A c \in DOMAIN cursors : c \in DOMAIN cursors' /\ cursors'[c] = cursors[c]
      /\ s > 0 => n \in DOMAIN cursors' /\ cursors'[n] = s
      /\ \A c \in DOMAIN cursors' : c \in DOMAIN cursors \/ (s > 0 /\ c = n)
  <2>1. CASE s = 0
    BY <2>1, <1>4
  <2>2. CASE s > 0
    BY <2>2, <1>4, <1>7 DEF Remember
  <2> QED
    BY <2>1, <2>2, <1>2
<1>9. ASSUME NEW p, PageIsCut(p) PROVE PageIsCut(p)'
  <2>1. PageStart(p.before)' = PageStart(p.before)
    BY <1>3 DEF PageStart, EncodedLines
  <2> QED
    BY <1>3, <1>8, <1>9, <2>1 DEF PageIsCut
<1>10. PageIsCut(r)'
  <2>1. PageStart(b)' = PageStart(b)
    BY <1>3 DEF PageStart, EncodedLines
  <2>2. s = 0 => n = NoCursor
    BY <1>4
  <2>3. s > 0 => n \in DOMAIN cursors' /\ cursors'[n] = s
    BY <1>8
  <2>4. b \in 0..Len(history')
    BY <1>0, <1>3
  <2> QED
    BY <1>1, <1>6, <2>1, <2>2, <2>3, <2>4 DEF PageIsCut
<1>11. \A p \in pages' : PageIsCut(p)'
  BY <1>6, <1>9, <1>10 DEF PagesInv
<1>12. \A c \in DOMAIN cursors' : c \in Cursors /\ \E p \in pages' : p.next = c /\ p.start > 0
  BY <1>6, <1>7, <1>8 DEF PagesInv
<1>13. \A c, d \in DOMAIN cursors' : cursors'[c] = cursors'[d] => c = d
  <2> SUFFICES ASSUME NEW c \in DOMAIN cursors', NEW d \in DOMAIN cursors',
                      cursors'[c] = cursors'[d]
               PROVE  c = d
    OBVIOUS
  <2>1. CASE c \in DOMAIN cursors /\ d \in DOMAIN cursors
    BY <2>1, <1>8 DEF PagesInv
  <2>2. CASE c \notin DOMAIN cursors
    BY <2>2, <1>7, <1>8
  <2>3. CASE d \notin DOMAIN cursors
    BY <2>3, <1>7, <1>8
  <2> QED
    BY <2>1, <2>2, <2>3
<1>14. \A p \in pages : p.before \in Nat /\ p.start \in Nat /\ p.start <= p.before
                          /\ (p.before > 0 => p.start < p.before)
  BY <1>0, CutIs DEF PagesInv
<1>15. /\ \A p, q \in pages' :
            \/ p.start = q.start /\ p.before = q.before
            \/ p.before <= q.start \/ q.before <= p.start
       /\ Chained'
  <2>1. CASE \E p \in pages : p.before = b
    <3>1. PICK o \in pages : o.before = b
      BY <2>1
    <3>2. o.start = s
      BY <3>1, <1>1 DEF PagesInv, PageIsCut
    <3>3. \A p \in pages' : \E q \in pages : q.start = p.start /\ q.before = p.before
      BY <1>6, <3>1, <3>2
    <3>4. \A q \in pages : q \in pages'
      BY <1>6
    <3>5. \A p, q \in pages' :
            \/ p.start = q.start /\ p.before = q.before
            \/ p.before <= q.start \/ q.before <= p.start
      <4> TAKE p \in pages', q \in pages'
      <4>1. PICK p1 \in pages : p1.start = p.start /\ p1.before = p.before
        BY <3>3
      <4>2. PICK q1 \in pages : q1.start = q.start /\ q1.before = q.before
        BY <3>3
      <4>3. \/ p1.start = q1.start /\ p1.before = q1.before
            \/ p1.before <= q1.start \/ q1.before <= p1.start
        BY DEF PagesInv
      <4> QED
        BY <4>1, <4>2, <4>3
    <3>6. \E p \in pages' : p.before = Len(history')
      BY <3>1, <3>4, <1>3 DEF PagesInv, Chained
    <3>7. ASSUME NEW p \in pages', NEW q \in pages', q.start > 0, p.before <= q.start
          PROVE  \E t \in pages' : t.before = q.start
      <4>1. PICK p1 \in pages : p1.start = p.start /\ p1.before = p.before
        BY <3>3
      <4>2. PICK q1 \in pages : q1.start = q.start /\ q1.before = q.before
        BY <3>3
      <4>3. \E t \in pages : t.before = q1.start
        BY <4>1, <4>2, <3>7 DEF PagesInv, Chained
      <4> QED
        BY <4>2, <4>3, <3>4
    <3> QED
      BY <3>5, <3>6, <3>7 DEF Chained
  <2>2. CASE \A p \in pages : p.before # b
    <3>1. ASSUME NEW q \in pages
          PROVE  b <= q.start /\ (q.start > b => \E t \in pages : t.before = q.start)
      BY <2>2, OthersAreAfter
    <3>2. \A p, q \in pages' :
            \/ p.start = q.start /\ p.before = q.before
            \/ p.before <= q.start \/ q.before <= p.start
      <4> TAKE p \in pages', q \in pages'
      <4>1. CASE p \in pages /\ q \in pages
        BY <4>1 DEF PagesInv
      <4>2. CASE p = r /\ q = r
        BY <4>2
      <4>3. CASE p = r /\ q \in pages
        BY <4>3, <3>1, <1>6
      <4>4. CASE p \in pages /\ q = r
        BY <4>4, <3>1, <1>6
      <4> QED
        BY <4>1, <4>2, <4>3, <4>4, <1>6
    <3>3. \E p \in pages' : p.before = Len(history')
      <4>1. CASE pages = {}
        BY <4>1, <1>3, <1>6 DEF NextPlace
      <4>2. CASE pages # {}
        BY <4>2, <1>3, <1>6 DEF PagesInv, Chained
      <4> QED
        BY <4>1, <4>2
    <3>4. ASSUME NEW p \in pages', NEW q \in pages', q.start > 0, p.before <= q.start
          PROVE  \E t \in pages' : t.before = q.start
      <4>1. CASE q = r
        <5>1. p \in pages => p.before > p.start \/ p.before = 0
          BY <1>14
        <5>2. p \in pages => b <= p.start
          BY <3>1
        <5> QED
          BY <4>1, <5>1, <5>2, <1>0, <1>2, <1>6, <1>14, <3>4
      <4>2. CASE q \in pages /\ q.start > b
        BY <4>2, <3>1, <1>6
      <4>3. CASE q \in pages /\ q.start = b
        BY <4>3, <1>6
      <4> QED
        BY <4>1, <4>2, <4>3, <3>1, <1>0, <1>6, <1>14
    <3> QED
      BY <3>2, <3>3, <3>4 DEF Chained
  <2> QED
    BY <2>1, <2>2
<1> QED
  BY <1>0, <1>3, <1>11, <1>12, <1>13, <1>15 DEF PagesInv

(* Every request for a page keeps the chain.                               *)
LEMMA PagesStep == PagesInv /\ [PagesNext]_pageVars => PagesInv'
<1> SUFFICES ASSUME PagesInv, [PagesNext]_pageVars PROVE PagesInv'
  OBVIOUS
<1>1. CASE AdmitHistory
  <2>1. cursors = <<>> /\ pages = {} /\ cursors' = <<>> /\ pages' = {} /\ history' = history
    BY <1>1 DEF AdmitHistory, PagesInv
  <2>2. history \in Seq(Nat) /\ PageEnvelope \in Nat /\ PageMaxBytes \in Nat
    BY PagesAssumption DEF PagesInv
  <2>3. admitted' = "open" =>
          \A i \in DOMAIN history : history[i] + PageEnvelope <= PageMaxBytes
    BY <1>1, <2>2 DEF AdmitHistory
  <2> QED
    BY <2>1, <2>2, <2>3 DEF PagesInv, Chained
<1>2. CASE NewestPage
  <2>1. NextPlace(Len(history))
    BY DEF NextPlace, PagesInv
  <2> QED
    BY <1>2, <2>1, ServeKeeps DEF NewestPage
<1>3. ASSUME NEW cursor \in Cursors, OlderPage(cursor) PROVE PagesInv'
  <2>1. cursor \in DOMAIN cursors
    BY <1>3 DEF OlderPage
  <2>2. PICK p \in pages : p.next = cursor /\ p.start > 0
    BY <2>1 DEF PagesInv
  <2>3. PageIsCut(p) /\ history \in Seq(Nat)
    BY DEF PagesInv
  <2>4. cursors[cursor] = p.start
    BY <2>2, <2>3 DEF PageIsCut
  <2>5. p.start \in 0..Len(history)
    BY <2>3, CutIs
  <2>6. NextPlace(cursors[cursor])
    BY <2>2, <2>4, <2>5 DEF NextPlace
  <2> QED
    BY <1>3, <2>6, ServeKeeps DEF OlderPage
<1>4. CASE UNCHANGED pageVars
  <2>1. history' = history /\ cursors' = cursors /\ pages' = pages /\ admitted' = admitted
    BY <1>4 DEF pageVars
  <2>2. ASSUME NEW p, PageIsCut(p) PROVE PageIsCut(p)'
    BY <2>1, <2>2 DEF PageIsCut, PageStart, EncodedLines
  <2> QED
    BY <2>1, <2>2 DEF PagesInv, Chained
<1> QED
  BY <1>1, <1>2, <1>3, <1>4 DEF PagesNext

(* The pages of a snapshot (pageLocked): however its cursors are followed  *)
(* and repeated, pages fit their limits, show every line once, and have    *)
(* one cursor each, for every history and all limits.                      *)
THEOREM Pages == PagesSpec => []PagesExact
<1>1. PagesInit => PagesInv
  BY PagesAssumption DEF PagesInit, PagesInv, Chained
<1> QED
  BY <1>1, PagesStep, PagesInvExact, PTL DEF PagesSpec

-----------------------------------------------------------------------------
(* SessionTabs                                                             *)

RequestStates == {"sent", "answered", "applied", "superseded", "failed"}

ListRequests == [epoch: Nat, at: RequestStates, list: SUBSET TabIDs, time: Nat]

(* The requests of a page: numbered up to the latest, which is there, and  *)
(* of epochs up to the present one.                                        *)
PageOK(p) ==
    /\ p = [epoch |-> p.epoch, latest |-> p.latest, record |-> p.record,
            requests |-> p.requests]
    /\ p.epoch \in Nat /\ p.latest \in Nat /\ p.record = p.latest
    /\ p.latest \in DOMAIN p.requests
    /\ p.requests = [i \in DOMAIN p.requests |-> p.requests[i]]
    /\ \A i \in DOMAIN p.requests :
          /\ i \in Nat /\ i <= p.latest
          /\ p.requests[i] \in ListRequests
          /\ p.requests[i].epoch <= p.epoch

(* A refresh adds one request, which is then the latest.                   *)
LEMMA RefreshedIs ==
  ASSUME NEW e \in Nat, NEW n \in Nat, NEW r, NEW f,
         \A i \in DOMAIN f : i \in Nat /\ i <= n
  PROVE  \E g : /\ Refreshed([epoch |-> e, latest |-> n, record |-> r, requests |-> f])
                     = [epoch |-> e, latest |-> n + 1, record |-> n + 1, requests |-> g]
                /\ g = [i \in DOMAIN g |-> g[i]]
                /\ n + 1 \in DOMAIN g
                /\ g[n + 1] = [epoch |-> e, at |-> "sent", list |-> {}, time |-> 0]
                /\ \A i \in DOMAIN g : i # n + 1 => i \in DOMAIN f /\ g[i] = f[i]
<1> DEFINE sent == [epoch |-> e, at |-> "sent", list |-> {}, time |-> 0]
           h == [i \in DOMAIN f \cup {n + 1} |-> IF i = n + 1 THEN sent ELSE f[i]]
           p == [epoch |-> e, latest |-> n + 1, record |-> n + 1, requests |-> h]
           K == {i \in DOMAIN h : i = n + 1 \/ Pending(h[i])}
           g == [i \in K |-> h[i]]
<1> DEFINE P == [epoch |-> e, latest |-> n, record |-> r, requests |-> f]
<1>1. Refreshed(P) = Tidy(p)
  <2> DEFINE now == [epoch |-> P.epoch, at |-> "sent", list |-> {}, time |-> 0]
             id == P.latest + 1
             k == [i \in DOMAIN P.requests \cup {id} |-> IF i = id THEN now ELSE P.requests[i]]
  <2>1. Refreshed(P) = Tidy([epoch |-> P.epoch, latest |-> id, record |-> id, requests |-> k])
    BY DEF Refreshed, ListRequest
  <2>2. P.epoch = e /\ id = n + 1 /\ P.requests = f
    OBVIOUS
  <2>3. k = h
    BY <2>2
  <2> HIDE DEF P, k, h, id
  <2> QED
    BY <2>1, <2>2, <2>3
<1>2. Tidy(p) = [epoch |-> e, latest |-> n + 1, record |-> n + 1, requests |-> g]
  <2>1. p.record = n + 1 /\ p.requests = h
    OBVIOUS
  <2>2. Tidy(p) = [p EXCEPT !.requests = g]
    <3> HIDE DEF p, h
    <3> QED
      BY <2>1 DEF Tidy, Restrict
  <2>3. [p EXCEPT !.requests = g] = [epoch |-> e, latest |-> n + 1, record |-> n + 1, requests |-> g]
    <3> HIDE DEF h, g
    <3> QED
      OBVIOUS
  <2> QED
    BY <2>2, <2>3
<1>3. n + 1 \in K /\ DOMAIN g = K /\ g[n + 1] = sent
  OBVIOUS
<1>4. \A i \in DOMAIN g : i # n + 1 => i \in DOMAIN f /\ g[i] = f[i]
  OBVIOUS
<1>5. g = [i \in DOMAIN g |-> g[i]]
  OBVIOUS
<1> HIDE DEF g
<1> QED
  BY <1>1, <1>2, <1>3, <1>4, <1>5

(* Settling a request keeps the others and the latest, and its time.       *)
LEMMA SettledIs ==
  ASSUME PageOK(page), NEW i, i \in DOMAIN page.requests, NEW outcome
  PROVE  \E g : /\ Settled(i, outcome) = [epoch |-> page.epoch, latest |-> page.latest,
                                          record |-> page.record, requests |-> g]
                /\ g = [j \in DOMAIN g |-> g[j]]
                /\ page.latest \in DOMAIN g
                /\ \A j \in DOMAIN g : j \in DOMAIN page.requests
                /\ \A j \in DOMAIN g : j # i => g[j] = page.requests[j]
                /\ i \in DOMAIN g =>
                     g[i] = [epoch |-> page.requests[i].epoch, at |-> outcome,
                             list |-> {}, time |-> page.requests[i].time]
<1> DEFINE q == page.requests[i]
           s == [epoch |-> q.epoch, at |-> outcome, list |-> {}, time |-> q.time]
           h == [page.requests EXCEPT ![i] = s]
           p == [page EXCEPT !.requests = h]
           K == {j \in DOMAIN h : j = page.record \/ Pending(h[j])}
           g == [j \in K |-> h[j]]
<1>0. q \in ListRequests
  BY DEF PageOK
<1>1. [page EXCEPT !.requests[i] = ListRequest(@.epoch, outcome, {}, @.time)] = p
  <2>1. ListRequest(q.epoch, outcome, {}, q.time) = s
    BY DEF ListRequest
  <2>2. [page EXCEPT !.requests[i] = s] = p
    <3> HIDE DEF s
    <3> QED
      BY DEF PageOK
  <2> HIDE DEF s
  <2> QED
    BY <2>1, <2>2
<1>2. p.record = page.record /\ p.requests = h
  BY DEF PageOK
<1>3. Tidy(p) = [p EXCEPT !.requests = g]
  <2> HIDE DEF p, h
  <2> QED
    BY <1>2 DEF Tidy, Restrict
<1>4. [p EXCEPT !.requests = g] = [epoch |-> page.epoch, latest |-> page.latest,
                                   record |-> page.record, requests |-> g]
  <2> HIDE DEF h, g
  <2>1. p = [epoch |-> page.epoch, latest |-> page.latest,
             record |-> page.record, requests |-> h]
    BY DEF PageOK
  <2> HIDE DEF p
  <2> QED
    BY <2>1
<1>5. DOMAIN h = DOMAIN page.requests
  OBVIOUS
<1>6. page.latest \in K /\ DOMAIN g = K
  BY <1>5 DEF PageOK
<1>7. \A j \in DOMAIN g : j \in DOMAIN page.requests /\ (j # i => g[j] = page.requests[j])
  BY <1>5
<1>8. i \in DOMAIN g => g[i] = s
  BY <1>5
<1>9. g = [j \in DOMAIN g |-> g[j]]
  OBVIOUS
<1>10. Settled(i, outcome) = [epoch |-> page.epoch, latest |-> page.latest,
                              record |-> page.record, requests |-> g]
  <2> HIDE DEF p, g
  <2> QED
    BY <1>1, <1>3, <1>4 DEF Settled
<1> HIDE DEF g
<1> QED
  BY <1>6, <1>7, <1>8, <1>9, <1>10

(* A new list request is the newest.                                       *)
LEMMA RefreshKeeps ==
  ASSUME PageOK(page), NEW e \in Nat, e = page.epoch \/ e = page.epoch + 1,
         NEW n \in Nat, n >= page.latest, NEW r,
         page' = Refreshed([epoch |-> e, latest |-> n, record |-> r,
                            requests |-> page.requests])
  PROVE  /\ PageOK(page)'
         /\ page'.epoch = e
         /\ page'.record = page'.latest
         /\ page'.requests[page'.latest] = [epoch |-> e, at |-> "sent", list |-> {}, time |-> 0]
         /\ \A i \in DOMAIN page'.requests : i # page'.latest =>
               /\ i \in DOMAIN page.requests
               /\ page'.requests[i] = page.requests[i]
<1>0. \A i \in DOMAIN page.requests : i \in Nat /\ i <= n
  BY DEF PageOK
<1>1. PICK g : /\ page' = [epoch |-> e, latest |-> n + 1, record |-> n + 1, requests |-> g]
               /\ g = [i \in DOMAIN g |-> g[i]]
               /\ n + 1 \in DOMAIN g
               /\ g[n + 1] = [epoch |-> e, at |-> "sent", list |-> {}, time |-> 0]
               /\ \A i \in DOMAIN g : i # n + 1 => /\ i \in DOMAIN page.requests
                                                   /\ g[i] = page.requests[i]
  <2>1. PICK f : f = page.requests
    OBVIOUS
  <2>2. \A i \in DOMAIN f : i \in Nat /\ i <= n
    BY <1>0, <2>1
  <2>3. PICK g : /\ Refreshed([epoch |-> e, latest |-> n, record |-> r, requests |-> f])
                      = [epoch |-> e, latest |-> n + 1, record |-> n + 1, requests |-> g]
                 /\ g = [i \in DOMAIN g |-> g[i]]
                 /\ n + 1 \in DOMAIN g
                 /\ g[n + 1] = [epoch |-> e, at |-> "sent", list |-> {}, time |-> 0]
                 /\ \A i \in DOMAIN g : i # n + 1 => i \in DOMAIN f /\ g[i] = f[i]
    BY ONLY <2>2, RefreshedIs, e \in Nat, n \in Nat, SMTT(60)
  <2> QED
    BY <2>1, <2>3
<1>2. /\ page'.epoch = e /\ page'.latest = n + 1 /\ page'.record = n + 1
      /\ page'.requests = g
  BY <1>1
<1>3. g[n + 1] \in ListRequests /\ g[n + 1].epoch = e
  BY <1>1 DEF ListRequests, RequestStates
<1>4. \A i \in DOMAIN g : i \in Nat /\ i <= n + 1 /\ g[i] \in ListRequests /\ g[i].epoch <= e
  <2> TAKE i \in DOMAIN g
  <2>1. CASE i = n + 1
    BY <2>1, <1>3
  <2>2. CASE i # n + 1
    <3>1. i \in DOMAIN page.requests /\ g[i] = page.requests[i]
      BY <2>2, <1>1
    <3>2. i \in Nat /\ i <= n /\ g[i] \in ListRequests /\ g[i].epoch <= page.epoch
      BY <3>1, <1>0 DEF PageOK
    <3>3. page.epoch \in Nat /\ g[i].epoch \in Nat
      BY <3>2 DEF PageOK, ListRequests
    <3> QED
      BY <3>2, <3>3
  <2> QED
    BY <2>1, <2>2
<1>5. PageOK(page)'
  BY <1>1, <1>2, <1>4 DEF PageOK
<1> QED
  BY <1>1, <1>2, <1>5

(* The two ways the page asks for a list.                                  *)
LEMMA AskKeeps ==
  ASSUME PageOK(page), page' = Refreshed(page) \/ page' = Refreshed(Invalidated(page))
  PROVE  /\ PageOK(page)'
         /\ page' = Refreshed(Invalidated(page)) => page'.epoch = page.epoch + 1
         /\ page'.epoch \in {page.epoch, page.epoch + 1}
         /\ page'.requests[page'.latest] =
              [epoch |-> page'.epoch, at |-> "sent", list |-> {}, time |-> 0]
         /\ \A i \in DOMAIN page'.requests : i # page'.latest =>
               /\ i \in DOMAIN page.requests
               /\ page'.requests[i] = page.requests[i]
<1>0. page.epoch \in Nat /\ page.latest \in Nat /\ page.epoch + 1 # page.epoch
  BY DEF PageOK
<1>1. CASE page' = Refreshed(Invalidated(page))
  <2>1. page' = Refreshed([epoch |-> page.epoch + 1, latest |-> page.latest + 1,
                           record |-> 0, requests |-> page.requests])
    BY <1>1 DEF Invalidated
  <2>2. PICK e \in Nat, n \in Nat : e = page.epoch + 1 /\ n = page.latest + 1
    BY <1>0
  <2>3. n >= page.latest
    BY <1>0, <2>2
  <2>4. page' = Refreshed([epoch |-> e, latest |-> n, record |-> 0, requests |-> page.requests])
    BY <2>1, <2>2
  <2> QED
    BY <2>2, <2>3, <2>4, RefreshKeeps
<1>2. CASE page' = Refreshed(page) /\ page' # Refreshed(Invalidated(page))
  <2>1. PICK e \in Nat, n \in Nat : e = page.epoch /\ n = page.latest
    BY <1>0
  <2>2. page = [epoch |-> e, latest |-> n, record |-> page.record, requests |-> page.requests]
    BY <2>1 DEF PageOK
  <2>3. PICK r : r = page.record
    OBVIOUS
  <2>4. page' = Refreshed([epoch |-> e, latest |-> n, record |-> r, requests |-> page.requests])
    BY <2>2, <2>3, <1>2
  <2>5. n >= page.latest
    BY <1>0, <2>1
  <2> QED
    BY <2>1, <2>4, <2>5, <1>2, RefreshKeeps
<1> QED
  BY <1>1, <1>2

DialogStates ==
    {"closed", "unconfirmed", "create", "created", "terminate", "terminated", "wait"}

DialogOK(d) ==
    /\ DOMAIN d = {"at", "target", "time", "created", "epoch", "wait"}
    /\ d.at \in DialogStates /\ d.time \in Nat

(* The answer the page may still apply is newer than what it shows, and    *)
(* has none of the sessions it took away.                                  *)
LatestIsNewer ==
    LET q == page.requests[page.latest]
    IN  q.at = "answered" => q.list \cap buried = {} /\ q.time >= shown

(* While a create waits, the lists of its epoch are newer than it.         *)
WaitIsOlder ==
    dialog.at = "wait" =>
        \A i \in DOMAIN page.requests :
            LET q == page.requests[i]
            IN  q.epoch = dialog.epoch /\ q.at \in {"answered", "applied"}
                   => q.time >= dialog.time

TabsInv ==
    /\ served \in [TabIDs -> {"new", "live", "gone"}]
    /\ changes \in Nat /\ shown \in Nat /\ shown <= changes
    /\ buried \subseteq Gone /\ buried \cap tabs = {}
    /\ PageOK(page)
    /\ \A i \in DOMAIN page.requests : page.requests[i].time <= changes
    /\ LatestIsNewer
    /\ DialogOK(dialog) /\ dialog.time <= changes
    /\ WaitIsOlder

(* A dialog that is closed waits for nothing.                              *)
LEMMA ClosedOK == DialogOK(Closed) /\ DialogOK(Unconfirmed) /\ Closed.time = 0
                    /\ Unconfirmed.time = 0 /\ Closed.at = "closed"
                    /\ Unconfirmed.at = "unconfirmed"
BY DEF DialogOK, Closed, Unconfirmed, DialogStates

(* A step of the server or of a dialog that has not been answered yet.     *)
LEMMA ServerKeeps ==
  ASSUME TabsInv,
         served' \in [TabIDs -> {"new", "live", "gone"}], Gone \subseteq Gone',
         changes' \in Nat, changes' >= changes,
         UNCHANGED <<tabs, page, shown, buried>>,
         DialogOK(dialog)', dialog'.time <= changes',
         dialog'.at = "wait" => dialog' = dialog
  PROVE  TabsInv'
<1>1. /\ tabs' = tabs /\ page' = page /\ shown' = shown /\ buried' = buried
      /\ changes \in Nat /\ shown \in Nat /\ shown <= changes
  BY DEF TabsInv
<1>2. PageOK(page)' /\ LatestIsNewer'
  BY <1>1 DEF TabsInv, PageOK, LatestIsNewer
<1>3. WaitIsOlder'
  BY <1>1 DEF TabsInv, WaitIsOlder
<1>4. ASSUME NEW i \in DOMAIN page.requests PROVE page.requests[i].time <= changes'
  <2>1. page.requests[i].time \in Nat /\ page.requests[i].time <= changes
    BY DEF TabsInv, PageOK, ListRequests
  <2> QED
    BY <1>1, <2>1
<1>5. buried' \subseteq Gone' /\ buried' \cap tabs' = {}
  BY <1>1 DEF TabsInv
<1>6. \A i \in DOMAIN page'.requests : page'.requests[i].time <= changes'
  BY <1>1, <1>4
<1>7. shown' \in Nat /\ shown' <= changes'
  BY <1>1
<1> QED
  BY <1>2, <1>3, <1>5, <1>6, <1>7 DEF TabsInv

(* A step that asks for a list, whatever it shows from then on.            *)
LEMMA AskingKeeps ==
  ASSUME TabsInv, page' = Refreshed(page) \/ page' = Refreshed(Invalidated(page)),
         UNCHANGED <<served, changes>>,
         shown' \in Nat, shown' <= changes,
         buried' \subseteq Gone', buried' \cap tabs' = {},
         DialogOK(dialog)', dialog'.time <= changes,
         dialog'.at = "wait" => \/ dialog' = dialog
                                \/ /\ page' = Refreshed(Invalidated(page))
                                   /\ dialog'.epoch = page'.epoch
  PROVE  TabsInv'
<1>1. PageOK(page) /\ changes' = changes /\ served' = served /\ changes \in Nat
  BY DEF TabsInv
<1>2. /\ PageOK(page)'
      /\ page' = Refreshed(Invalidated(page)) => page'.epoch = page.epoch + 1
      /\ page'.epoch \in {page.epoch, page.epoch + 1}
      /\ page'.requests[page'.latest] =
            [epoch |-> page'.epoch, at |-> "sent", list |-> {}, time |-> 0]
      /\ \A i \in DOMAIN page'.requests : i # page'.latest =>
            i \in DOMAIN page.requests /\ page'.requests[i] = page.requests[i]
  BY <1>1, AskKeeps
<1>3. LatestIsNewer'
  BY <1>2 DEF LatestIsNewer
<1>4. \A i \in DOMAIN page'.requests : page'.requests[i].time <= changes'
  <2> TAKE i \in DOMAIN page'.requests
  <2>1. CASE i = page'.latest
    <3>1. page'.requests[i].time = 0
      BY <2>1, <1>2
    <3> QED
      BY <3>1, <1>1
  <2>2. CASE i # page'.latest
    BY <2>2, <1>1, <1>2 DEF TabsInv
  <2> QED
    BY <2>1, <2>2
<1>5. WaitIsOlder'
  <2> SUFFICES ASSUME dialog'.at = "wait", NEW i \in DOMAIN page'.requests,
                      page'.requests[i].epoch = dialog'.epoch,
                      page'.requests[i].at \in {"answered", "applied"}
               PROVE  page'.requests[i].time >= dialog'.time
    BY DEF WaitIsOlder
  <2>1. i # page'.latest
    BY <1>2
  <2>2. i \in DOMAIN page.requests /\ page'.requests[i] = page.requests[i]
    BY <1>2, <2>1
  <2>3. CASE dialog' = dialog
    BY <2>2, <2>3 DEF TabsInv, WaitIsOlder
  <2>4. CASE page' = Refreshed(Invalidated(page)) /\ dialog'.epoch = page'.epoch
    <3>1. page.requests[i].epoch \in Nat /\ page.epoch \in Nat
          /\ page.requests[i].epoch <= page.epoch
      BY <1>1, <2>2 DEF PageOK, ListRequests
    <3>2. page.requests[i].epoch = page.epoch + 1
      BY <2>2, <2>4, <1>2
    <3> QED
      BY <3>1, <3>2
  <2> QED
    BY <2>3, <2>4
<1> QED
  BY <1>1, <1>2, <1>3, <1>4, <1>5 DEF TabsInv, Gone

(* What becomes of a dialog when a request is settled.                     *)
LEMMA ContinuedIs ==
  ASSUME PageOK(page), DialogOK(dialog), NEW i, i \in DOMAIN page.requests,
         NEW outcome, outcome \in {"applied", "failed", "superseded"},
         dialog' = Continued(i, outcome)
  PROVE  /\ DialogOK(dialog)'
         /\ dialog'.time = dialog.time \/ dialog'.time = 0
         /\ dialog'.at = "wait" => /\ dialog.at = "wait"
                                   /\ dialog'.time = dialog.time
                                   /\ dialog'.epoch = dialog.epoch
         /\ dialog.at = "wait" /\ dialog'.at = "closed" =>
              \/ /\ outcome = "applied"
                 /\ page.requests[i].epoch = dialog.epoch
              \/ /\ page.latest # i
                 /\ page.requests[page.latest].epoch = dialog.epoch
                 /\ page.requests[page.latest].at = "applied"
<1>1. CASE dialog.at # "wait" \/ dialog.wait # i
  <2>1. dialog' = dialog
    BY <1>1 DEF Continued
  <2> QED
    BY <2>1, <1>1 DEF DialogOK
<1>2. CASE dialog.at = "wait" /\ dialog.wait = i
  <2>1. CASE dialog' = Unconfirmed
    BY <2>1, ClosedOK DEF DialogOK
  <2>2. CASE outcome = "applied" /\ page.requests[i].epoch = dialog.epoch /\ dialog' = Closed
    BY <2>2, ClosedOK DEF DialogOK
  <2>3. CASE dialog' = FollowSuperseded(i) /\ dialog' # Unconfirmed
    <3>1. page.record = page.latest /\ page.latest \in Nat /\ i \in Nat
      BY DEF PageOK
    <3>2. PICK j : j = page.latest
      OBVIOUS
    <3>3. PICK q : q = page.requests[j]
      OBVIOUS
    <3>4. /\ q.epoch = dialog.epoch /\ j # i
          /\ \/ q.at = "applied" /\ dialog' = Closed
             \/ dialog' = [dialog EXCEPT !.wait = j]
      BY <2>3, <3>1, <3>2, <3>3 DEF FollowSuperseded
    <3>5. CASE q.at = "applied" /\ dialog' = Closed
      BY <3>2, <3>3, <3>4, <3>5, ClosedOK DEF DialogOK
    <3>6. CASE dialog' = [dialog EXCEPT !.wait = j]
      <4>1. DOMAIN dialog' = DOMAIN dialog /\ dialog'.at = dialog.at
            /\ dialog'.time = dialog.time /\ dialog'.epoch = dialog.epoch
        BY <3>6 DEF DialogOK
      <4> QED
        BY <4>1, <1>2 DEF DialogOK
    <3> QED
      BY <3>4, <3>5, <3>6
  <2> QED
    BY <1>2, <2>1, <2>2, <2>3 DEF Continued
<1> QED
  BY <1>1, <1>2

(* The server reads the list for a request.                                *)
LEMMA ServeListKeeps ==
  ASSUME TabsInv, NEW i, i \in DOMAIN page.requests, NEW list, ServeList(i, list)
  PROVE  TabsInv'
<1> DEFINE q == page.requests[i]
           s == [epoch |-> q.epoch, at |-> "answered", list |-> list, time |-> changes]
           h == [page.requests EXCEPT ![i] = s]
<1>0. /\ PageOK(page) /\ changes \in Nat /\ shown \in Nat /\ shown <= changes
      /\ dialog.time <= changes /\ buried \subseteq Gone /\ list \subseteq Live
      /\ UNCHANGED <<served, changes, tabs, dialog, shown, buried>>
  BY DEF TabsInv, ServeList
<1>1. q \in ListRequests /\ q.epoch \in Nat
  BY <1>0 DEF PageOK, ListRequests
<1>2. s \in ListRequests
  BY <1>0, <1>1 DEF ListRequests, RequestStates, Live
<1>3. page' = [page EXCEPT !.requests[i] = s]
  BY DEF ServeList, ListRequest
<1>4. page' = [epoch |-> page.epoch, latest |-> page.latest, record |-> page.record,
               requests |-> h]
  <2> HIDE DEF s
  <2> QED
    BY <1>0, <1>3 DEF PageOK
<1>5. /\ page'.epoch = page.epoch /\ page'.latest = page.latest
      /\ page'.record = page.record /\ page'.requests = h
      /\ DOMAIN h = DOMAIN page.requests
  BY <1>4
<1>6. \A j \in DOMAIN h : h[j] = IF j = i THEN s ELSE page.requests[j]
  OBVIOUS
<1>7. s.epoch = q.epoch /\ s.at = "answered" /\ s.list = list /\ s.time = changes
  OBVIOUS
<1> HIDE DEF s, h
<1>8. PageOK(page)'
  <2>1. \A j \in DOMAIN h : /\ j \in Nat /\ j <= page.latest
                            /\ h[j] \in ListRequests /\ h[j].epoch <= page.epoch
    BY <1>0, <1>2, <1>5, <1>6, <1>7 DEF PageOK
  <2>2. h = [j \in DOMAIN h |-> h[j]]
    BY DEF h
  <2> QED
    BY <1>0, <1>4, <1>5, <2>1, <2>2 DEF PageOK
<1>9. LatestIsNewer'
  <2>1. list \cap buried = {}
    BY <1>0 DEF Live, Gone
  <2>2. page.latest \in DOMAIN h
    BY <1>0, <1>5 DEF PageOK
  <2>3. CASE page.latest = i
    BY <2>1, <2>2, <2>3, <1>0, <1>5, <1>6, <1>7 DEF LatestIsNewer
  <2>4. CASE page.latest # i
    BY <2>2, <2>4, <1>0, <1>5, <1>6 DEF LatestIsNewer, TabsInv
  <2> QED
    BY <2>3, <2>4
<1>10. \A j \in DOMAIN h : h[j].time <= changes
  BY <1>0, <1>5, <1>6, <1>7 DEF TabsInv
<1>11. WaitIsOlder'
  <2> SUFFICES ASSUME dialog.at = "wait", NEW j \in DOMAIN h,
                      h[j].epoch = dialog.epoch, h[j].at \in {"answered", "applied"}
               PROVE  h[j].time >= dialog.time
    BY <1>0, <1>5 DEF WaitIsOlder
  <2>0. dialog.time \in Nat
    BY DEF TabsInv, DialogOK
  <2>1. CASE j = i
    BY <2>0, <2>1, <1>0, <1>6, <1>7
  <2>2. CASE j # i
    BY <2>2, <1>5, <1>6 DEF TabsInv, WaitIsOlder
  <2> QED
    BY <2>1, <2>2
<1> QED
  BY <1>0, <1>5, <1>8, <1>9, <1>10, <1>11 DEF TabsInv, Gone, DialogOK

(* An answer arrives or a request fails.                                   *)
LEMMA SettleKeeps ==
  ASSUME TabsInv, NEW i, i \in DOMAIN page.requests, NEW outcome,
         outcome \in {"applied", "failed", "superseded"},
         page' = Settled(i, outcome), dialog' = Continued(i, outcome),
         UNCHANGED <<served, changes>>,
         \/ outcome # "applied" /\ UNCHANGED <<tabs, shown, buried>>
         \/ /\ outcome = "applied" /\ i = page.latest /\ page.requests[i].at = "answered"
            /\ tabs' = page.requests[i].list /\ shown' = page.requests[i].time
            /\ buried' = buried \cup ((tabs \ page.requests[i].list) \cap Gone)
  PROVE  TabsInv' /\ shown' >= shown
<1>0. /\ PageOK(page) /\ changes \in Nat /\ shown \in Nat /\ shown <= changes
      /\ DialogOK(dialog) /\ dialog.time <= changes
      /\ served' = served /\ changes' = changes
  BY DEF TabsInv
<1>1. PICK g : /\ page' = [epoch |-> page.epoch, latest |-> page.latest,
                           record |-> page.record, requests |-> g]
               /\ g = [j \in DOMAIN g |-> g[j]]
               /\ page.latest \in DOMAIN g
               /\ \A j \in DOMAIN g : j \in DOMAIN page.requests
               /\ \A j \in DOMAIN g : j # i => g[j] = page.requests[j]
               /\ i \in DOMAIN g =>
                    g[i] = [epoch |-> page.requests[i].epoch, at |-> outcome,
                            list |-> {}, time |-> page.requests[i].time]
  BY <1>0, SettledIs
<1>2. /\ page'.epoch = page.epoch /\ page'.latest = page.latest
      /\ page'.record = page.record /\ page'.requests = g
  BY <1>1
<1>3. page.requests[i] \in ListRequests /\ page.requests[i].time \in Nat
      /\ page.requests[i].time <= changes /\ page.requests[i].epoch \in Nat
      /\ page.requests[i].epoch <= page.epoch
  BY <1>0 DEF PageOK, ListRequests, TabsInv
<1>4. i \in DOMAIN g => /\ g[i] \in ListRequests
                        /\ g[i].epoch = page.requests[i].epoch
                        /\ g[i].time = page.requests[i].time
                        /\ g[i].at = outcome
  BY <1>1, <1>3 DEF ListRequests, RequestStates
<1>5. PageOK(page)'
  <2>1. \A j \in DOMAIN g : /\ j \in Nat /\ j <= page.latest
                            /\ g[j] \in ListRequests /\ g[j].epoch <= page.epoch
    BY <1>0, <1>1, <1>3, <1>4 DEF PageOK
  <2> QED
    BY <1>0, <1>1, <1>2, <2>1 DEF PageOK
<1>6. \A j \in DOMAIN g : g[j].time <= changes
  BY <1>1, <1>3, <1>4 DEF TabsInv
<1>7. /\ DialogOK(dialog)'
      /\ dialog'.time = dialog.time \/ dialog'.time = 0
      /\ dialog'.at = "wait" => /\ dialog.at = "wait"
                                /\ dialog'.time = dialog.time
                                /\ dialog'.epoch = dialog.epoch
  BY <1>0, ContinuedIs
<1>8. dialog'.time <= changes
  BY <1>0, <1>7
<1>9. WaitIsOlder'
  <2> SUFFICES ASSUME dialog'.at = "wait", NEW j \in DOMAIN g,
                      g[j].epoch = dialog'.epoch, g[j].at \in {"answered", "applied"}
               PROVE  g[j].time >= dialog'.time
    BY <1>2 DEF WaitIsOlder
  <2>1. CASE j # i
    BY <2>1, <1>1, <1>7 DEF TabsInv, WaitIsOlder
  <2>2. CASE j = i
    <3>1. outcome = "applied" /\ page.requests[i].at = "answered"
      BY <2>2, <1>4
    <3> QED
      BY <2>2, <3>1, <1>4, <1>7 DEF TabsInv, WaitIsOlder
  <2> QED
    BY <2>1, <2>2
<1>10. CASE outcome # "applied" /\ UNCHANGED <<tabs, shown, buried>>
  <2>1. LatestIsNewer'
    <3>1. CASE page.latest = i
      BY <3>1, <1>1, <1>2, <1>4 DEF LatestIsNewer
    <3>2. CASE page.latest # i
      BY <3>2, <1>1, <1>2, <1>10 DEF LatestIsNewer, TabsInv
    <3> QED
      BY <3>1, <3>2
  <2> QED
    BY <2>1, <1>0, <1>2, <1>5, <1>6, <1>7, <1>8, <1>9, <1>10 DEF TabsInv, Gone
<1>11. CASE /\ outcome = "applied" /\ i = page.latest /\ page.requests[i].at = "answered"
            /\ tabs' = page.requests[i].list /\ shown' = page.requests[i].time
            /\ buried' = buried \cup ((tabs \ page.requests[i].list) \cap Gone)
  <2>1. LatestIsNewer'
    BY <1>1, <1>2, <1>4, <1>11 DEF LatestIsNewer
  <2>2. page.requests[i].list \cap buried = {} /\ page.requests[i].time >= shown
    BY <1>11 DEF TabsInv, LatestIsNewer
  <2>3. buried' \cap tabs' = {} /\ buried' \subseteq Gone'
    BY <2>2, <1>0, <1>11 DEF TabsInv, Gone
  <2>4. shown' \in Nat /\ shown' <= changes /\ shown' >= shown
    BY <2>2, <1>3, <1>11
  <2> QED
    BY <2>1, <2>3, <2>4, <1>0, <1>2, <1>5, <1>6, <1>7, <1>8, <1>9 DEF TabsInv
<1> QED
  BY <1>10, <1>11

(* What a step of the page may do, with the invariant and the two claims.  *)
TabsGood ==
    /\ TabsInv'
    /\ shown' >= shown
    /\ dialog.at = "wait" /\ dialog'.at = "closed" =>
          \E i \in DOMAIN page'.requests :
              /\ page'.requests[i].at = "applied"
              /\ page'.requests[i].time >= dialog.time

(* An answer arrives, with the continuations it releases.                  *)
LEMMA SettleGood ==
  ASSUME TabsInv, NEW i, i \in DOMAIN page.requests, ListArrives(i) \/ ListFails(i)
  PROVE  TabsGood
<1>0. PageOK(page) /\ DialogOK(dialog)
  BY DEF TabsInv
<1>1. PICK outcome :
        /\ outcome \in {"applied", "failed", "superseded"}
        /\ page' = Settled(i, outcome) /\ dialog' = Continued(i, outcome)
        /\ UNCHANGED <<served, changes>>
        /\ \/ outcome # "applied" /\ UNCHANGED <<tabs, shown, buried>>
           \/ /\ outcome = "applied" /\ i = page.latest /\ page.requests[i].at = "answered"
              /\ tabs' = page.requests[i].list /\ shown' = page.requests[i].time
              /\ buried' = buried \cup ((tabs \ page.requests[i].list) \cap Gone)
  <2>1. CASE ListArrives(i)
    BY <2>1 DEF ListArrives, IsLatest
  <2>2. CASE ListFails(i)
    BY <2>2 DEF ListFails
  <2> QED
    BY <2>1, <2>2
<1>2. TabsInv' /\ shown' >= shown
  BY <1>1, SettleKeeps
<1>3. ASSUME dialog.at = "wait", dialog'.at = "closed"
      PROVE  \E j \in DOMAIN page'.requests :
                page'.requests[j].at = "applied" /\ page'.requests[j].time >= dialog.time
  <2>1. \/ /\ outcome = "applied"
           /\ page.requests[i].epoch = dialog.epoch
        \/ /\ page.latest # i
           /\ page.requests[page.latest].epoch = dialog.epoch
           /\ page.requests[page.latest].at = "applied"
    BY <1>0, <1>1, <1>3, ContinuedIs
  <2>2. PICK g : /\ page' = [epoch |-> page.epoch, latest |-> page.latest,
                             record |-> page.record, requests |-> g]
                 /\ page.latest \in DOMAIN g
                 /\ \A j \in DOMAIN g : j \in DOMAIN page.requests
                 /\ \A j \in DOMAIN g : j # i => g[j] = page.requests[j]
                 /\ i \in DOMAIN g =>
                      g[i] = [epoch |-> page.requests[i].epoch, at |-> outcome,
                              list |-> {}, time |-> page.requests[i].time]
    BY <1>0, <1>1, SettledIs
  <2>3. page'.requests = g
    BY <2>2
  <2>4. CASE outcome = "applied" /\ page.requests[i].epoch = dialog.epoch
    <3>1. i = page.latest /\ page.requests[i].at = "answered" /\ i \in DOMAIN g
      BY <2>2, <2>4, <1>1
    <3>2. page.requests[i].time >= dialog.time
      BY <3>1, <2>4, <1>3 DEF TabsInv, WaitIsOlder
    <3>3. g[i].at = "applied" /\ g[i].time = page.requests[i].time
      BY <3>1, <2>2, <2>4
    <3> QED
      BY <2>3, <3>1, <3>2, <3>3
  <2>5. CASE /\ page.latest # i
             /\ page.requests[page.latest].epoch = dialog.epoch
             /\ page.requests[page.latest].at = "applied"
    <3>1. page.requests[page.latest].time >= dialog.time
      BY <2>5, <2>2, <1>3 DEF TabsInv, WaitIsOlder
    <3> QED
      BY <2>2, <2>3, <2>5, <3>1
  <2> QED
    BY <2>1, <2>4, <2>5
<1> QED
  BY <1>2, <1>3 DEF TabsGood

(* What every step of the page and of the server keeps and may do.         *)
LEMMA TabsStep == TabsInv /\ [TabsNext]_tabsVars => TabsGood
<1> SUFFICES ASSUME TabsInv, [TabsNext]_tabsVars PROVE TabsGood
  OBVIOUS
<1>0. /\ served \in [TabIDs -> {"new", "live", "gone"}]
      /\ changes \in Nat /\ shown \in Nat /\ shown <= changes /\ shown >= shown
      /\ buried \subseteq Gone /\ buried \cap tabs = {}
      /\ DialogOK(dialog) /\ dialog.time \in Nat /\ dialog.time <= changes
      /\ DOMAIN dialog = {"at", "target", "time", "created", "epoch", "wait"}
  BY DEF TabsInv, DialogOK
<1>1. /\ DialogOK(Closed) /\ DialogOK(Unconfirmed) /\ Closed.time = 0
      /\ Unconfirmed.time = 0 /\ Closed.at = "closed" /\ Unconfirmed.at = "unconfirmed"
  BY ClosedOK
<1>2. CASE Poll
  <2>1. /\ page' = Refreshed(page)
        /\ UNCHANGED <<served, changes, tabs, dialog, shown, buried>>
    BY <1>2 DEF Poll
  <2>2. TabsInv'
    BY <2>1, <1>0, AskingKeeps DEF Gone, DialogOK
  <2> QED
    BY <2>1, <2>2, <1>0 DEF TabsGood
<1>3. CASE SubmitCreate
  <2>1. /\ dialog' = [Closed EXCEPT !.at = "create"]
        /\ UNCHANGED <<served, changes, tabs, page, shown, buried>>
        /\ dialog.at # "wait"
    BY <1>3 DEF SubmitCreate, MaySubmit
  <2>2. DialogOK(dialog)' /\ dialog'.time = 0 /\ dialog'.at = "create"
    BY <2>1 DEF DialogOK, Closed, DialogStates
  <2>3. TabsInv'
    BY <2>1, <2>2, <1>0, ServerKeeps DEF Gone
  <2> QED
    BY <2>1, <2>3, <1>0 DEF TabsGood
<1>4. CASE CreateArrives
  <2>1. /\ page' = Refreshed(Invalidated(page)) /\ UNCHANGED <<served, changes>>
        /\ dialog.at = "created"
    BY <1>4 DEF CreateArrives
  <2>2. shown' \in Nat /\ shown' <= changes /\ shown' >= shown
    BY <1>0, <1>4 DEF CreateArrives, Later
  <2>3. buried' \subseteq Gone' /\ buried' \cap tabs' = {}
    BY <1>0, <1>4 DEF CreateArrives, Gone
  <2>4. /\ DialogOK(dialog)' /\ dialog'.time <= changes
        /\ dialog'.at = "wait" => dialog'.epoch = page'.epoch
    <3>1. CASE dialog' = Closed
      BY <3>1, <1>0, <1>1 DEF DialogOK
    <3>2. CASE dialog' = [dialog EXCEPT !.at = "wait", !.epoch = page'.epoch,
                                        !.wait = page'.record]
      <4>1. /\ DOMAIN dialog' = DOMAIN dialog /\ dialog'.at = "wait"
            /\ dialog'.time = dialog.time /\ dialog'.epoch = page'.epoch
        BY <3>2, <1>0
      <4> QED
        BY <4>1, <1>0 DEF DialogOK, DialogStates
    <3> QED
      BY <1>4, <3>1, <3>2 DEF CreateArrives
  <2>5. TabsInv'
    BY <2>1, <2>2, <2>3, <2>4, AskingKeeps
  <2> QED
    BY <2>1, <2>2, <2>5 DEF TabsGood
<1>5. CASE WaitExpires
  <2>1. /\ dialog' = Unconfirmed
        /\ UNCHANGED <<served, changes, tabs, page, shown, buried>>
    BY <1>5 DEF WaitExpires
  <2>2. TabsInv'
    BY <2>1, <1>0, <1>1, ServerKeeps DEF Gone, DialogOK
  <2> QED
    BY <2>1, <2>2, <1>0, <1>1 DEF TabsGood
<1>6. CASE ServeTerminate
  <2>1. /\ served' = [served EXCEPT ![dialog.target] = "gone"]
        /\ changes' = changes + 1
        /\ dialog' = [dialog EXCEPT !.at = "terminated", !.time = changes']
        /\ UNCHANGED <<tabs, page, shown, buried>>
        /\ dialog.at = "terminate"
    BY <1>6 DEF ServeTerminate
  <2>2. /\ DialogOK(dialog)' /\ dialog'.time = changes' /\ dialog'.at = "terminated"
        /\ changes' \in Nat
    BY <2>1, <1>0 DEF DialogOK, DialogStates
  <2>3. served' \in [TabIDs -> {"new", "live", "gone"}] /\ Gone \subseteq Gone'
    BY <2>1, <1>0 DEF Gone
  <2>4. changes' >= changes /\ dialog'.time <= changes'
    BY <2>1, <2>2, <1>0
  <2>5. TabsInv'
    BY <2>1, <2>2, <2>3, <2>4, ServerKeeps
  <2> QED
    BY <2>1, <2>5, <1>0 DEF TabsGood
<1>7. CASE ServeNotFound
  <2>1. /\ dialog' = [dialog EXCEPT !.at = "terminated", !.time = changes]
        /\ UNCHANGED <<served, changes, tabs, page, shown, buried>>
        /\ dialog.at = "terminate"
    BY <1>7 DEF ServeNotFound
  <2>2. /\ DialogOK(dialog)' /\ dialog'.time = changes /\ dialog'.at = "terminated"
    BY <2>1, <1>0 DEF DialogOK, DialogStates
  <2>3. TabsInv'
    BY <2>1, <2>2, <1>0, ServerKeeps DEF Gone
  <2> QED
    BY <2>1, <2>3, <1>0 DEF TabsGood
<1>8. CASE TerminateRefused
  <2>1. /\ dialog' = Unconfirmed /\ page' = Refreshed(Invalidated(page))
        /\ UNCHANGED <<served, changes, tabs, shown, buried>>
        /\ dialog.at = "terminate"
    BY <1>8 DEF TerminateRefused
  <2>2. TabsInv'
    BY <2>1, <1>0, <1>1, AskingKeeps DEF Gone, DialogOK
  <2> QED
    BY <2>1, <2>2, <1>0 DEF TabsGood
<1>9. CASE TerminateArrives
  <2>1. /\ page' = Refreshed(Invalidated(page)) /\ UNCHANGED <<served, changes>>
        /\ dialog.at = "terminated" /\ dialog' = Closed
    BY <1>9 DEF TerminateArrives
  <2>2. shown' \in Nat /\ shown' <= changes /\ shown' >= shown
    BY <1>0, <1>9 DEF TerminateArrives, Later
  <2>3. buried' \subseteq Gone' /\ buried' \cap tabs' = {}
    BY <1>0, <1>9 DEF TerminateArrives, Gone
  <2>4. TabsInv'
    BY <2>1, <2>2, <2>3, <1>0, <1>1, AskingKeeps DEF DialogOK
  <2> QED
    BY <2>1, <2>2, <2>4 DEF TabsGood
<1>10. CASE SubmitFails
  <2>1. /\ dialog' = Unconfirmed
        /\ UNCHANGED <<served, changes, tabs, page, shown, buried>>
    BY <1>10 DEF SubmitFails
  <2>2. TabsInv'
    BY <2>1, <1>0, <1>1, ServerKeeps DEF Gone, DialogOK
  <2> QED
    BY <2>1, <2>2, <1>0, <1>1 DEF TabsGood
<1>11. ASSUME NEW i \in DOMAIN page.requests, ListArrives(i) \/ ListFails(i) PROVE TabsGood
  BY <1>11, SettleGood
<1>12. ASSUME NEW i \in DOMAIN page.requests, NEW list \in SUBSET Live, ServeList(i, list)
       PROVE  TabsGood
  <2>1. TabsInv'
    BY <1>12, ServeListKeeps
  <2>2. UNCHANGED <<dialog, shown>>
    BY <1>12 DEF ServeList
  <2> QED
    BY <2>1, <2>2, <1>0 DEF TabsGood
<1>13. ASSUME NEW s \in TabIDs, SubmitTerminate(s) PROVE TabsGood
  <2>1. /\ dialog' = [Closed EXCEPT !.at = "terminate", !.target = s]
        /\ UNCHANGED <<served, changes, tabs, page, shown, buried>>
        /\ dialog.at # "wait"
    BY <1>13 DEF SubmitTerminate, MaySubmit
  <2>2. DialogOK(dialog)' /\ dialog'.time = 0 /\ dialog'.at = "terminate"
    BY <2>1 DEF DialogOK, Closed, DialogStates
  <2>3. TabsInv'
    BY <2>1, <2>2, <1>0, ServerKeeps DEF Gone
  <2> QED
    BY <2>1, <2>3, <1>0 DEF TabsGood
<1>14. ASSUME NEW s \in TabIDs, ServeCreate(s) PROVE TabsGood
  <2>1. /\ served[s] # "gone" /\ served' = [served EXCEPT ![s] = "live"]
        /\ changes' \in Nat /\ changes' >= changes
        /\ dialog' = [dialog EXCEPT !.at = "created", !.target = s,
                        !.created = (served[s] = "new"), !.time = changes']
        /\ UNCHANGED <<tabs, page, shown, buried>>
        /\ dialog.at = "create"
    BY <1>14, <1>0 DEF ServeCreate
  <2>2. /\ DialogOK(dialog)' /\ dialog'.time = changes' /\ dialog'.at = "created"
    BY <2>1, <1>0 DEF DialogOK, DialogStates
  <2>3. served' \in [TabIDs -> {"new", "live", "gone"}] /\ Gone \subseteq Gone'
    BY <2>1, <1>0 DEF Gone
  <2>4. TabsInv'
    BY <2>1, <2>2, <2>3, ServerKeeps
  <2> QED
    BY <2>1, <2>4, <1>0 DEF TabsGood
<1>15. ASSUME NEW s \in TabIDs, OthersCreate(s) \/ OthersEnd(s) PROVE TabsGood
  <2>1. /\ served' \in [TabIDs -> {"new", "live", "gone"}] /\ Gone \subseteq Gone'
        /\ changes' = changes + 1
        /\ UNCHANGED <<tabs, page, dialog, shown, buried>>
    BY <1>15, <1>0 DEF OthersCreate, OthersEnd, Gone
  <2>2. changes' \in Nat /\ changes' >= changes /\ dialog'.time <= changes' /\ DialogOK(dialog)'
    BY <2>1, <1>0 DEF DialogOK
  <2>3. TabsInv'
    BY <2>1, <2>2, ServerKeeps
  <2> QED
    BY <2>1, <2>3, <1>0 DEF TabsGood
<1>16. CASE UNCHANGED tabsVars
  <2>1. UNCHANGED <<served, changes, tabs, page, dialog, shown, buried>>
    BY <1>16 DEF tabsVars
  <2>2. TabsInv'
    BY <2>1, <1>0, ServerKeeps DEF Gone, DialogOK
  <2> QED
    BY <2>1, <2>2, <1>0 DEF TabsGood
<1> QED
  BY <1>2, <1>3, <1>4, <1>5, <1>6, <1>7, <1>8, <1>9, <1>10, <1>11, <1>12, <1>13,
     <1>14, <1>15, <1>16 DEF TabsNext

(* A page that has been opened.                                            *)
LEMMA TabsStart == TabsInit => TabsInv
<1> SUFFICES ASSUME TabsInit PROVE TabsInv
  OBVIOUS
<1>1. /\ served = [s \in TabIDs |-> "new"] /\ changes = 0 /\ tabs = {} /\ shown = 0
      /\ buried = {} /\ dialog = Closed
      /\ page = Refreshed([epoch |-> 0, latest |-> 0, record |-> 0, requests |-> <<>>])
  BY DEF TabsInit
<1>2. PICK f : f = <<>>
  OBVIOUS
<1>3. PICK z \in Nat : z = 0
  OBVIOUS
<1>4. \A i \in DOMAIN f : i \in Nat /\ i <= z
  BY <1>2
<1>5. PICK g : /\ Refreshed([epoch |-> z, latest |-> z, record |-> z, requests |-> f])
                    = [epoch |-> z, latest |-> z + 1, record |-> z + 1, requests |-> g]
               /\ g = [i \in DOMAIN g |-> g[i]]
               /\ z + 1 \in DOMAIN g
               /\ g[z + 1] = [epoch |-> z, at |-> "sent", list |-> {}, time |-> 0]
               /\ \A i \in DOMAIN g : i # z + 1 => i \in DOMAIN f /\ g[i] = f[i]
  BY ONLY <1>4, z \in Nat, RefreshedIs, SMTT(60)
<1>6. /\ page = [epoch |-> 0, latest |-> 1, record |-> 1, requests |-> g]
      /\ 1 \in DOMAIN g /\ \A i \in DOMAIN g : i = 1
      /\ g[1] = [epoch |-> 0, at |-> "sent", list |-> {}, time |-> 0]
  <2>1. page = Refreshed([epoch |-> z, latest |-> z, record |-> z, requests |-> f])
    BY ONLY <1>1, <1>2, <1>3
  <2>2. page = [epoch |-> z, latest |-> z + 1, record |-> z + 1, requests |-> g]
    BY ONLY <2>1, <1>5
  <2>3. z + 1 = 1
    BY <1>3
  <2>4. DOMAIN f = {}
    BY <1>2
  <2>5. \A i \in DOMAIN g : i = 1
    BY <2>3, <2>4, <1>5
  <2>6. 1 \in DOMAIN g /\ g[1] = [epoch |-> 0, at |-> "sent", list |-> {}, time |-> 0]
    BY ONLY <2>3, <1>3, <1>5
  <2>7. page = [epoch |-> 0, latest |-> 1, record |-> 1, requests |-> g]
    BY ONLY <2>2, <2>3, <1>3
  <2> QED
    BY <2>5, <2>6, <2>7
<1>7. g[1] \in ListRequests /\ g[1].epoch = 0 /\ g[1].at = "sent" /\ g[1].time = 0
  BY <1>6 DEF ListRequests, RequestStates
<1>8. page.epoch = 0 /\ page.latest = 1 /\ page.record = 1 /\ page.requests = g
  BY <1>6
<1>9. PageOK(page)
  <2>1. page = [epoch |-> page.epoch, latest |-> page.latest, record |-> page.record,
                requests |-> page.requests]
    BY ONLY <1>6, <1>8
  <2>2. g = [i \in DOMAIN g |-> g[i]]
    BY ONLY <1>5
  <2>3. \A i \in DOMAIN g : /\ i \in Nat /\ i <= 1
                            /\ g[i] \in ListRequests /\ g[i].epoch <= 0
    BY <1>6, <1>7
  <2> QED
    BY <2>1, <2>2, <2>3, <1>6, <1>8 DEF PageOK
<1>10. LatestIsNewer /\ WaitIsOlder
  BY <1>1, <1>7, <1>8, ClosedOK DEF LatestIsNewer, WaitIsOlder
<1>11. \A i \in DOMAIN page.requests : page.requests[i].time <= changes
  BY <1>1, <1>6, <1>7, <1>8
<1>12. DialogOK(dialog) /\ dialog.time <= changes
  BY <1>1, ClosedOK
<1> QED
  BY <1>1, <1>9, <1>10, <1>11, <1>12 DEF TabsInv, Gone

(* No late list brings a tab back whose session was gone, and none takes   *)
(* the page back behind what it shows (performSessionRefresh,              *)
(* invalidateSessionRefreshes), for any sessions and number of requests.   *)
THEOREM KeepUp == TabsSpec => TabsKeepUp
<1>1. TabsGood => TabsInv' /\ NoGhostTabs' /\ ShownNeverGoesBack
  BY DEF TabsGood, TabsInv, NoGhostTabs, ShownNeverGoesBack
<1>2. TabsInv /\ [TabsNext]_tabsVars => TabsInv' /\ [NoGhostTabs' /\ ShownNeverGoesBack]_tabsVars
  BY <1>1, TabsStep
<1> QED
  BY <1>2, TabsStart, PTL DEF TabsSpec, TabsKeepUp

(* A create dialog closes only when a list that is newer than its session  *)
(* has been applied (waitForCreatedSessionReconciliation).                 *)
THEOREM Listed == TabsSpec => ClosedMeansListed
<1> DEFINE A == dialog.at = "wait" /\ dialog'.at = "closed" =>
                  \E i \in DOMAIN page'.requests :
                      /\ page'.requests[i].at = "applied"
                      /\ page'.requests[i].time >= dialog.time
<1>1. TabsGood => TabsInv' /\ A
  BY DEF TabsGood
<1>2. TabsInv /\ [TabsNext]_tabsVars => TabsInv' /\ [A]_tabsVars
  BY <1>1, TabsStep
<1> QED
  BY <1>2, TabsStart, PTL DEF TabsSpec, ClosedMeansListed

-----------------------------------------------------------------------------
(* OutputActivity                                                          *)

ViewFields == {"step", "ref", "text", "before", "after", "seen", "answer"}

(* The type of a view, field by field.                                     *)
ViewOK(v) ==
    /\ DOMAIN v = ViewFields /\ v = [f \in DOMAIN v |-> v[f]]
    /\ v.step \in ViewSteps /\ v.ref \in Sessions
    /\ v.text \in Nat /\ v.before \in Reading /\ v.after \in Reading
    /\ v.seen \in 0..1 /\ v.answer \in {"none", "quiet", "new"}

(* A view is its fields.                                                   *)
LEMMA ViewIsRecord ==
  ASSUME NEW v, ViewOK(v), NEW n \in Nat, v.text <= n
  PROVE  v \in [step: ViewSteps, ref: Sessions, text: 0..n,
                before: Reading, after: Reading, seen: 0..1,
                answer: {"none", "quiet", "new"}]
BY DEF ViewOK, ViewFields

Capturing == {"capture", "after epoch", "after", "open", "activity", "activity epoch"}
Captured == {"after epoch", "after", "open", "activity", "activity epoch"}
Answerable == {"open", "activity", "activity epoch"}

(* The epoch a capture began with: as long as it stands, and is not the    *)
(* largest integer, no output after the captured text has been recorded.   *)
NothingMissed ==
    LET v == view IN
    running[v.ref] =>
        /\ v.step \in Capturing => v.before.epoch <= epochs[v.ref]
        /\ v.step \in Captured /\ epochs[v.ref] = v.before.epoch /\ v.before.epoch < MaxEpoch
              => recorded[v.ref] <= v.text

(* While nothing disturbs the session, what was read is what is there.     *)
NothingInvented ==
    LET v == view IN
    v.step # "none" /\ ~disturbed /\ running[v.ref] =>
        /\ v.step # "before" => v.before.bytes = historyBytes[v.ref]
        /\ v.step \in Capturing => v.before.epoch = epochs[v.ref]
        /\ v.step \in Captured \ {"after epoch"} => v.after.epoch = epochs[v.ref]
        /\ v.step \in Answerable => v.after.bytes = historyBytes[v.ref]
        /\ v.step = "activity epoch" => v.seen = historyBytes[v.ref]
        /\ v.answer # "new"

OutputOK ==
    /\ drawn \in [Sessions -> Nat] /\ recorded \in [Sessions -> Nat]
    /\ \A s \in Sessions : drawn[s] <= MaxOutput[s] /\ recorded[s] <= drawn[s]
    /\ historyBytes \in [Sessions -> 0..1]
    /\ DOMAIN onTheWay = Browsers
    /\ \A b \in Browsers : onTheWay[b] \in Seq(1..drawn[Shows[b]])
    /\ epochs \in [Sessions -> 0..MaxEpoch]
    /\ running \in [Sessions -> BOOLEAN]
    /\ disturbed \in BOOLEAN

ActivityInv ==
    /\ OutputOK
    /\ ViewOK(view) /\ view.text <= drawn[view.ref]
    /\ NothingMissed /\ NothingInvented

(* A view that shows nothing.                                              *)
LEMMA NoViewOK == /\ ViewOK(NoView) /\ NoView.text = 0 /\ NoView.step = "none"
                  /\ NoView.answer = "none"
<1>0. (CHOOSE s \in Sessions : TRUE) \in Sessions
  BY ActivityAssumption
<1>1. 0 \in 0..MaxEpoch
  BY ActivityAssumption
<1> QED
  BY <1>0, <1>1 DEF ViewOK, NoView, ViewFields, ViewSteps, Reading

(* The invariant gives the types,                                          *)
LEMMA ActivityTyped == ActivityInv => ActivityTypeOK
<1> SUFFICES ASSUME ActivityInv PROVE ActivityTypeOK
  OBVIOUS
<1>1. view.ref \in Sessions /\ drawn[view.ref] \in Nat
  BY DEF ActivityInv, OutputOK, ViewOK
<1>2. view \in [step: ViewSteps, ref: Sessions, text: 0..drawn[view.ref],
                before: Reading, after: Reading, seen: 0..1,
                answer: {"none", "quiet", "new"}]
  BY <1>1, ViewIsRecord DEF ActivityInv
<1>3. \A s \in Sessions : drawn[s] \in 0..MaxOutput[s] /\ recorded[s] \in 0..drawn[s]
  BY ActivityAssumption DEF ActivityInv, OutputOK
<1> QED
  BY <1>2, <1>3 DEF ActivityInv, OutputOK, ActivityTypeOK

(* that a quiet terminal is told to be quiet,                              *)
LEMMA ActivityQuiet == ActivityInv => QuietIsQuiet
<1> SUFFICES ASSUME ActivityInv, view.step = "open", ~disturbed, running[view.ref]
             PROVE  ~FollowedByOutput /\ view.answer # "new"
  BY DEF QuietIsQuiet, Ref
<1>1. /\ view.before.bytes = historyBytes[view.ref] /\ view.before.epoch = epochs[view.ref]
      /\ view.after.bytes = historyBytes[view.ref] /\ view.after.epoch = epochs[view.ref]
      /\ view.answer # "new"
  BY DEF ActivityInv, NothingInvented, Capturing, Captured, Answerable
<1>2. view.before \in Reading /\ view.after \in Reading
  BY DEF ActivityInv, ViewOK
<1>3. view.before = view.after
  BY <1>1, <1>2 DEF Reading
<1> QED
  BY <1>1, <1>3 DEF FollowedByOutput

(* and that nothing recorded is missed.                                    *)
LEMMA ActivityNotMissed == ActivityInv => NoMissedOutput
<1> SUFFICES ASSUME ActivityInv, AnswerActivity, view'.answer = "quiet", ~FollowedByOutput,
                    running[view.ref], view.after.epoch < MaxEpoch
             PROVE  recorded[view.ref] <= view.text
  BY DEF NoMissedOutput, Ref
<1>1. view.step = "activity epoch" /\ view.before = view.after
  BY DEF AnswerActivity, FollowedByOutput
<1>2. epochs[view.ref] = view.after.epoch
  <2>1. DOMAIN view = ViewFields
    BY DEF ActivityInv, ViewOK
  <2> QED
    BY <2>1 DEF AnswerActivity, Advance, Ref, ViewFields
<1> QED
  BY <1>1, <1>2 DEF ActivityInv, NothingMissed, Captured

(* A step of a view leaves the output alone.                               *)
LEMMA OutputSame ==
  ASSUME OutputOK,
         UNCHANGED <<drawn, historyBytes, onTheWay, epochs, running, recorded, disturbed>>
  PROVE  OutputOK'
BY DEF OutputOK

(* The steps of a capture and of an activity request.                      *)
LEMMA ViewKeeps ==
  ASSUME ActivityInv,
         \/ ReadBefore \/ ReadBeforeEpoch \/ CapturePane \/ ReadAfterEpoch \/ ReadAfter
         \/ Activity \/ ReadActivity \/ ActivityFails
  PROVE  ActivityInv'
<1>1. /\ ViewOK(view) /\ view.text <= drawn[view.ref] /\ OutputOK
      /\ NothingMissed /\ NothingInvented
  BY DEF ActivityInv
<1>2. /\ view.ref \in Sessions /\ drawn[view.ref] \in Nat
      /\ recorded[view.ref] \in Nat /\ recorded[view.ref] <= drawn[view.ref]
      /\ historyBytes[view.ref] \in 0..1
      /\ epochs[view.ref] \in 0..MaxEpoch /\ MaxEpoch \in Nat
  BY <1>1, ActivityAssumption DEF ViewOK, OutputOK
<1>3. CASE ReadBefore
  <2>1. /\ view.step = "before" /\ view'.step = "before epoch"
        /\ view'.ref = view.ref /\ view'.text = view.text
        /\ view'.before = [view.before EXCEPT !.bytes = historyBytes[view.ref]] /\ view'.after = view.after
        /\ view'.seen = view.seen /\ view'.answer = view.answer
        /\ UNCHANGED <<drawn, historyBytes, onTheWay, epochs, running, recorded, disturbed>>
    BY <1>3, <1>1 DEF ReadBefore, Advance, Ref, ViewOK, ViewFields
  <2>5. DOMAIN view' = ViewFields /\ view' = [f \in DOMAIN view' |-> view'[f]]
    BY <1>3, <1>1 DEF ReadBefore, Advance, ViewOK
  <2>2. ViewOK(view)' /\ view'.text <= drawn'[view'.ref]
    <3>1. view'.text \in Nat /\ view'.text <= drawn'[view'.ref] /\ view'.step \in ViewSteps
      BY <2>1, <1>1, <1>2 DEF ViewOK, ViewSteps
    <3>2. view'.before \in Reading /\ view'.after \in Reading /\ view'.ref \in Sessions
          /\ view'.seen \in 0..1 /\ view'.answer \in {"none", "quiet", "new"}
      BY <2>1, <1>1, <1>2 DEF ViewOK, Reading
    <3> QED
      BY <2>5, <3>1, <3>2 DEF ViewOK
  <2>3. NothingMissed'
    BY <2>1, <1>1, <1>2 DEF NothingMissed, Capturing, Captured, ViewOK, Reading
  <2>4. NothingInvented'
    <3>1. view'.before.bytes = historyBytes[view.ref]
      <4>1. view.before \in Reading
        BY <1>1 DEF ViewOK
      <4> QED
        BY ONLY <4>1, <2>1 DEF Reading
    <3>2. view'.step \notin Capturing /\ view'.step \notin Captured
          /\ view'.step \notin Answerable /\ view'.step # "activity epoch"
      BY ONLY <2>1 DEF Capturing, Captured, Answerable
    <3>3. ~disturbed /\ running[view.ref] => view.answer # "new"
      BY ONLY <1>1, <2>1 DEF NothingInvented
    <3> QED
      BY ONLY <2>1, <3>1, <3>2, <3>3 DEF NothingInvented
  <2> QED
    BY <2>1, <2>2, <2>3, <2>4, OutputSame DEF ActivityInv
<1>4. CASE ReadBeforeEpoch
  <2>1. /\ view.step = "before epoch" /\ view'.step = "capture"
        /\ view'.ref = view.ref /\ view'.text = view.text
        /\ view'.before = [view.before EXCEPT !.epoch = epochs[view.ref]] /\ view'.after = view.after
        /\ view'.seen = view.seen /\ view'.answer = view.answer
        /\ UNCHANGED <<drawn, historyBytes, onTheWay, epochs, running, recorded, disturbed>>
    BY <1>4, <1>1 DEF ReadBeforeEpoch, Advance, Ref, ViewOK, ViewFields
  <2>5. DOMAIN view' = ViewFields /\ view' = [f \in DOMAIN view' |-> view'[f]]
    BY <1>4, <1>1 DEF ReadBeforeEpoch, Advance, ViewOK
  <2>2. ViewOK(view)' /\ view'.text <= drawn'[view'.ref]
    <3>1. view'.text \in Nat /\ view'.text <= drawn'[view'.ref] /\ view'.step \in ViewSteps
      BY <2>1, <1>1, <1>2 DEF ViewOK, ViewSteps
    <3>2. view'.before \in Reading /\ view'.after \in Reading /\ view'.ref \in Sessions
          /\ view'.seen \in 0..1 /\ view'.answer \in {"none", "quiet", "new"}
      BY <2>1, <1>1, <1>2 DEF ViewOK, Reading
    <3> QED
      BY <2>5, <3>1, <3>2 DEF ViewOK
  <2>3. NothingMissed'
    <3>0. view.before \in Reading /\ epochs'[view'.ref] = epochs[view.ref]
      BY <2>1, <1>1 DEF ViewOK
    <3>3. view'.before.epoch = epochs[view.ref]
      BY ONLY <2>1, <3>0 DEF Reading
    <3>4. epochs[view.ref] \in Nat
      BY ONLY <1>2
    <3>1. view'.before.epoch = epochs'[view'.ref] /\ epochs'[view'.ref] \in Nat
      BY ONLY <3>0, <3>3, <3>4
    <3>2. view'.step \notin Captured
      BY <2>1 DEF Captured
    <3> QED
      BY <3>1, <3>2 DEF NothingMissed
  <2>4. NothingInvented'
    BY <2>1, <1>1, <1>2 DEF NothingInvented, Capturing, Captured, Answerable, ViewOK, Reading
  <2> QED
    BY <2>1, <2>2, <2>3, <2>4, OutputSame DEF ActivityInv
<1>5. CASE CapturePane
  <2>1. /\ view.step = "capture" /\ view'.step = "after epoch"
        /\ view'.ref = view.ref /\ view'.text = drawn[view.ref]
        /\ view'.before = view.before /\ view'.after = view.after
        /\ view'.seen = view.seen /\ view'.answer = view.answer
        /\ UNCHANGED <<drawn, historyBytes, onTheWay, epochs, running, recorded, disturbed>>
    BY <1>5, <1>1 DEF CapturePane, Advance, Ref, ViewOK, ViewFields
  <2>5. DOMAIN view' = ViewFields /\ view' = [f \in DOMAIN view' |-> view'[f]]
    BY <1>5, <1>1 DEF CapturePane, Advance, ViewOK
  <2>2. ViewOK(view)' /\ view'.text <= drawn'[view'.ref]
    <3>1. PICK n : n = drawn[view.ref]
      OBVIOUS
    <3>2. view'.text = n /\ drawn'[view'.ref] = n /\ n \in Nat
      BY ONLY <2>1, <1>2, <3>1
    <3>3. view'.text <= drawn'[view'.ref] /\ view'.text \in Nat
      BY ONLY <3>2
    <3>4. view'.step \in ViewSteps
      BY ONLY <2>1 DEF ViewSteps
    <3> QED
      BY <2>1, <2>5, <3>3, <3>4, <1>1 DEF ViewOK
  <2>3. NothingMissed'
    <3>1. recorded'[view'.ref] <= view'.text
      BY <2>1, <1>2
    <3>2. running'[view'.ref] => view'.before.epoch <= epochs'[view'.ref]
      BY <2>1, <1>1 DEF NothingMissed, Capturing
    <3> QED
      BY <3>1, <3>2 DEF NothingMissed
  <2>4. NothingInvented'
    BY <2>1, <1>1, <1>2 DEF NothingInvented, Capturing, Captured, Answerable, ViewOK, Reading
  <2> QED
    BY <2>1, <2>2, <2>3, <2>4, OutputSame DEF ActivityInv
<1>6. CASE ReadAfterEpoch
  <2>1. /\ view.step = "after epoch" /\ view'.step = "after"
        /\ view'.ref = view.ref /\ view'.text = view.text
        /\ view'.before = view.before /\ view'.after = [view.after EXCEPT !.epoch = epochs[view.ref]]
        /\ view'.seen = view.seen /\ view'.answer = view.answer
        /\ UNCHANGED <<drawn, historyBytes, onTheWay, epochs, running, recorded, disturbed>>
    BY <1>6, <1>1 DEF ReadAfterEpoch, Advance, Ref, ViewOK, ViewFields
  <2>5. DOMAIN view' = ViewFields /\ view' = [f \in DOMAIN view' |-> view'[f]]
    BY <1>6, <1>1 DEF ReadAfterEpoch, Advance, ViewOK
  <2>2. ViewOK(view)' /\ view'.text <= drawn'[view'.ref]
    <3>1. view'.text \in Nat /\ view'.text <= drawn'[view'.ref] /\ view'.step \in ViewSteps
      BY <2>1, <1>1, <1>2 DEF ViewOK, ViewSteps
    <3>2. view'.before \in Reading /\ view'.after \in Reading /\ view'.ref \in Sessions
          /\ view'.seen \in 0..1 /\ view'.answer \in {"none", "quiet", "new"}
      BY <2>1, <1>1, <1>2 DEF ViewOK, Reading
    <3> QED
      BY <2>5, <3>1, <3>2 DEF ViewOK
  <2>3. NothingMissed'
    BY <2>1, <1>1, <1>2 DEF NothingMissed, Capturing, Captured, ViewOK, Reading
  <2>4. NothingInvented'
    BY <2>1, <1>1, <1>2, ZenonT(60) DEF NothingInvented, Capturing, Captured, Answerable, ViewOK, Reading
  <2> QED
    BY <2>1, <2>2, <2>3, <2>4, OutputSame DEF ActivityInv
<1>7. CASE ReadAfter
  <2>1. /\ view.step = "after" /\ view'.step = "open"
        /\ view'.ref = view.ref /\ view'.text = view.text
        /\ view'.before = view.before /\ view'.after = [view.after EXCEPT !.bytes = historyBytes[view.ref]]
        /\ view'.seen = view.seen /\ view'.answer = view.answer
        /\ UNCHANGED <<drawn, historyBytes, onTheWay, epochs, running, recorded, disturbed>>
    BY <1>7, <1>1 DEF ReadAfter, Advance, Ref, ViewOK, ViewFields
  <2>5. DOMAIN view' = ViewFields /\ view' = [f \in DOMAIN view' |-> view'[f]]
    BY <1>7, <1>1 DEF ReadAfter, Advance, ViewOK
  <2>2. ViewOK(view)' /\ view'.text <= drawn'[view'.ref]
    <3>1. view'.text \in Nat /\ view'.text <= drawn'[view'.ref] /\ view'.step \in ViewSteps
      BY <2>1, <1>1, <1>2 DEF ViewOK, ViewSteps
    <3>2. view'.before \in Reading /\ view'.after \in Reading /\ view'.ref \in Sessions
          /\ view'.seen \in 0..1 /\ view'.answer \in {"none", "quiet", "new"}
      BY <2>1, <1>1, <1>2 DEF ViewOK, Reading
    <3> QED
      BY <2>5, <3>1, <3>2 DEF ViewOK
  <2>3. NothingMissed'
    BY <2>1, <1>1, <1>2 DEF NothingMissed, Capturing, Captured, ViewOK, Reading
  <2>4. NothingInvented'
    BY <2>1, <1>1, <1>2 DEF NothingInvented, Capturing, Captured, Answerable, ViewOK, Reading
  <2> QED
    BY <2>1, <2>2, <2>3, <2>4, OutputSame DEF ActivityInv
<1>8. CASE Activity
  <2>1. /\ view.step = "open" /\ view'.step = "activity"
        /\ view'.ref = view.ref /\ view'.text = view.text
        /\ view'.before = view.before /\ view'.after = view.after
        /\ view'.seen = view.seen /\ view'.answer = "none"
        /\ UNCHANGED <<drawn, historyBytes, onTheWay, epochs, running, recorded, disturbed>>
    BY <1>8, <1>1 DEF Activity, Advance, Ref, ViewOK, ViewFields
  <2>5. DOMAIN view' = ViewFields /\ view' = [f \in DOMAIN view' |-> view'[f]]
    BY <1>8, <1>1 DEF Activity, Advance, ViewOK
  <2>2. ViewOK(view)' /\ view'.text <= drawn'[view'.ref]
    <3>1. view'.text \in Nat /\ view'.text <= drawn'[view'.ref] /\ view'.step \in ViewSteps
      BY <2>1, <1>1, <1>2 DEF ViewOK, ViewSteps
    <3>2. view'.before \in Reading /\ view'.after \in Reading /\ view'.ref \in Sessions
          /\ view'.seen \in 0..1 /\ view'.answer \in {"none", "quiet", "new"}
      BY <2>1, <1>1, <1>2 DEF ViewOK, Reading
    <3> QED
      BY <2>5, <3>1, <3>2 DEF ViewOK
  <2>3. NothingMissed'
    BY <2>1, <1>1, <1>2 DEF NothingMissed, Capturing, Captured, ViewOK, Reading
  <2>4. NothingInvented'
    BY <2>1, <1>1, <1>2 DEF NothingInvented, Capturing, Captured, Answerable, ViewOK, Reading
  <2> QED
    BY <2>1, <2>2, <2>3, <2>4, OutputSame DEF ActivityInv
<1>9. CASE ReadActivity
  <2>1. /\ view.step = "activity" /\ view'.step = "activity epoch"
        /\ view'.ref = view.ref /\ view'.text = view.text
        /\ view'.before = view.before /\ view'.after = view.after
        /\ view'.seen = historyBytes[view.ref] /\ view'.answer = view.answer
        /\ UNCHANGED <<drawn, historyBytes, onTheWay, epochs, running, recorded, disturbed>>
    BY <1>9, <1>1 DEF ReadActivity, Advance, Ref, ViewOK, ViewFields
  <2>5. DOMAIN view' = ViewFields /\ view' = [f \in DOMAIN view' |-> view'[f]]
    BY <1>9, <1>1 DEF ReadActivity, Advance, ViewOK
  <2>2. ViewOK(view)' /\ view'.text <= drawn'[view'.ref]
    <3>1. view'.text \in Nat /\ view'.text <= drawn'[view'.ref] /\ view'.step \in ViewSteps
      BY <2>1, <1>1, <1>2 DEF ViewOK, ViewSteps
    <3>2. view'.before \in Reading /\ view'.after \in Reading /\ view'.ref \in Sessions
          /\ view'.seen \in 0..1 /\ view'.answer \in {"none", "quiet", "new"}
      BY <2>1, <1>1, <1>2 DEF ViewOK, Reading
    <3> QED
      BY <2>5, <3>1, <3>2 DEF ViewOK
  <2>3. NothingMissed'
    BY <2>1, <1>1, <1>2 DEF NothingMissed, Capturing, Captured, ViewOK, Reading
  <2>4. NothingInvented'
    BY <2>1, <1>1, <1>2 DEF NothingInvented, Capturing, Captured, Answerable, ViewOK, Reading
  <2> QED
    BY <2>1, <2>2, <2>3, <2>4, OutputSame DEF ActivityInv
<1>10. CASE ActivityFails
  <2>1. /\ view.step = "activity" /\ view'.step = "open"
        /\ view'.ref = view.ref /\ view'.text = view.text
        /\ view'.before = view.before /\ view'.after = view.after
        /\ view'.seen = view.seen /\ view'.answer = view.answer
        /\ UNCHANGED <<drawn, historyBytes, onTheWay, epochs, running, recorded, disturbed>>
    BY <1>10, <1>1 DEF ActivityFails, Advance, Ref, ViewOK, ViewFields
  <2>5. DOMAIN view' = ViewFields /\ view' = [f \in DOMAIN view' |-> view'[f]]
    BY <1>10, <1>1 DEF ActivityFails, Advance, ViewOK
  <2>2. ViewOK(view)' /\ view'.text <= drawn'[view'.ref]
    <3>1. view'.text \in Nat /\ view'.text <= drawn'[view'.ref] /\ view'.step \in ViewSteps
      BY <2>1, <1>1, <1>2 DEF ViewOK, ViewSteps
    <3>2. view'.before \in Reading /\ view'.after \in Reading /\ view'.ref \in Sessions
          /\ view'.seen \in 0..1 /\ view'.answer \in {"none", "quiet", "new"}
      BY <2>1, <1>1, <1>2 DEF ViewOK, Reading
    <3> QED
      BY <2>5, <3>1, <3>2 DEF ViewOK
  <2>3. NothingMissed'
    BY <2>1, <1>1, <1>2 DEF NothingMissed, Capturing, Captured, ViewOK, Reading
  <2>4. NothingInvented'
    BY <2>1, <1>1, <1>2 DEF NothingInvented, Capturing, Captured, Answerable, ViewOK, Reading
  <2> QED
    BY <2>1, <2>2, <2>3, <2>4, OutputSame DEF ActivityInv
<1> QED
  BY <1>3, <1>4, <1>5, <1>6, <1>7, <1>8, <1>9, <1>10

(* The answer to an activity request.                                      *)
LEMMA AnswerKeeps ==
  ASSUME ActivityInv, AnswerActivity
  PROVE  ActivityInv'
<1>1. /\ ViewOK(view) /\ view.text <= drawn[view.ref] /\ OutputOK
      /\ NothingMissed /\ NothingInvented
  BY DEF ActivityInv
<1>2. /\ view.step = "activity epoch" /\ view'.step = "open"
      /\ view'.ref = view.ref /\ view'.text = view.text
      /\ view'.before = view.before /\ view'.after = view.after
      /\ view'.seen = 0 /\ view'.answer \in {"new", "quiet"}
      /\ view'.answer = "new" => \/ epochs[view.ref] # view.after.epoch
                                 \/ view.seen # view.after.bytes
      /\ UNCHANGED <<drawn, historyBytes, onTheWay, epochs, running, recorded, disturbed>>
  BY <1>1 DEF AnswerActivity, Advance, Ref, ViewOK, ViewFields
<1>6. DOMAIN view' = ViewFields /\ view' = [f \in DOMAIN view' |-> view'[f]]
  BY <1>1 DEF AnswerActivity, Advance, ViewOK
<1>3. ViewOK(view)' /\ view'.text <= drawn'[view'.ref]
  <2>1. view'.text <= drawn'[view'.ref]
    BY <1>1, <1>2
  <2>2. view'.step \in ViewSteps
    BY ONLY <1>2 DEF ViewSteps
  <2>3. view'.seen \in 0..1
    <3>1. view'.seen = 0
      BY <1>2
    <3>2. 0 \in 0..1
      OBVIOUS
    <3> QED
      BY ONLY <3>1, <3>2
  <2>4. view'.answer \in {"none", "quiet", "new"}
    BY ONLY <1>2
  <2> QED
    BY <2>1, <2>2, <2>3, <2>4, <1>1, <1>2, <1>6 DEF ViewOK
<1>4. NothingMissed'
  BY <1>1, <1>2 DEF NothingMissed, Capturing, Captured
<1>5. NothingInvented'
  BY <1>1, <1>2 DEF NothingInvented, Capturing, Captured, Answerable
<1> QED
  BY <1>1, <1>2, <1>3, <1>4, <1>5, OutputSame DEF ActivityInv

(* The view is given up, or a capture begins.                              *)
LEMMA FreshKeeps ==
  ASSUME ActivityInv, ViewOK(view)', view'.text = 0, view'.answer = "none",
         view'.step \in {"none", "before"},
         UNCHANGED <<drawn, historyBytes, onTheWay, recorded>>,
         OutputOK'
  PROVE  ActivityInv'
<1>1. NothingMissed' /\ NothingInvented'
  BY DEF NothingMissed, NothingInvented, Capturing, Captured, Answerable
<1>2. view'.text <= drawn'[view'.ref]
  <2>1. drawn'[view'.ref] \in Nat
    BY DEF ViewOK, OutputOK
  <2> QED
    BY <2>1
<1> QED
  BY <1>1, <1>2 DEF ActivityInv

(* A capture begins.                                                       *)
LEMMA StartKeeps ==
  ASSUME ActivityInv, NEW s \in Sessions, StartCapture(s)
  PROVE  ActivityInv'
<1>1. ViewOK(NoView) /\ NoView.text = 0 /\ NoView.answer = "none"
  BY NoViewOK
<1>2. /\ view' = [NoView EXCEPT !.step = "before", !.ref = s] /\ disturbed' = FALSE
      /\ UNCHANGED <<drawn, historyBytes, onTheWay, epochs, running, recorded>>
  BY DEF StartCapture
<1>3. PICK v : v = NoView
  OBVIOUS
<1>4. /\ view'.step = "before" /\ view'.ref = s /\ view'.text = v.text
      /\ view'.before = v.before /\ view'.after = v.after
      /\ view'.seen = v.seen /\ view'.answer = v.answer
  BY <1>1, <1>2, <1>3 DEF ViewOK, ViewFields
<1>7. DOMAIN view' = ViewFields /\ view' = [f \in DOMAIN view' |-> view'[f]]
  BY <1>1, <1>2, <1>3 DEF ViewOK
<1>5. ViewOK(view)' /\ view'.text = 0 /\ view'.answer = "none"
  BY <1>1, <1>3, <1>4, <1>7 DEF ViewOK, ViewSteps
<1>6. OutputOK'
  BY <1>2 DEF ActivityInv, OutputOK
<1> QED
  BY <1>2, <1>4, <1>5, <1>6, FreshKeeps

(* A capture fails, or the view is closed.                                 *)
LEMMA GiveUpKeeps ==
  ASSUME ActivityInv, CaptureFails \/ CloseView
  PROVE  ActivityInv'
<1>1. view' = NoView
      /\ UNCHANGED <<drawn, historyBytes, onTheWay, epochs, running, recorded, disturbed>>
  BY DEF CaptureFails, CloseView, Advance
<1>2. OutputOK'
  BY <1>1, OutputSame DEF ActivityInv
<1>3. ViewOK(view)' /\ view'.text = 0 /\ view'.answer = "none" /\ view'.step = "none"
  BY <1>1, NoViewOK DEF ViewOK
<1> QED
  BY <1>1, <1>2, <1>3, FreshKeeps

(* A termination takes the view or leaves it to a session that is gone.    *)
LEMMA TerminateKeeps ==
  ASSUME ActivityInv, NEW s \in Sessions, TerminateSession(s)
  PROVE  ActivityInv'
<1>1. /\ ViewOK(view) /\ view.text <= drawn[view.ref] /\ OutputOK
      /\ NothingMissed /\ NothingInvented
  BY DEF ActivityInv
<1>2. /\ running' = [running EXCEPT ![s] = FALSE] /\ epochs' = [epochs EXCEPT ![s] = 0]
      /\ UNCHANGED <<drawn, historyBytes, onTheWay, recorded, disturbed>>
      /\ view' = NoView \/ view' = view
  BY DEF TerminateSession
<1>3. OutputOK'
  BY <1>1, <1>2, ActivityAssumption, SMTT(60) DEF OutputOK
<1>4. CASE view' = NoView
  <2>1. ViewOK(view)' /\ view'.text = 0 /\ view'.answer = "none" /\ view'.step = "none"
    BY <1>4, NoViewOK DEF ViewOK
  <2> QED
    BY <1>2, <1>3, <2>1, FreshKeeps
<1>5. CASE view' = view
  <2>0. view.ref \in Sessions
    BY <1>1 DEF ViewOK
  <2>1. running'[view.ref] => /\ view.ref # s /\ running[view.ref]
                              /\ epochs'[view.ref] = epochs[view.ref]
    BY <2>0, <1>1, <1>2 DEF OutputOK
  <2>2. NothingMissed'
    BY <2>1, <1>1, <1>2, <1>5 DEF NothingMissed
  <2>3. NothingInvented'
    BY <2>1, <1>1, <1>2, <1>5 DEF NothingInvented
  <2>4. ViewOK(view)' /\ view'.text <= drawn'[view'.ref]
    BY <1>1, <1>2, <1>5 DEF ViewOK
  <2> QED
    BY <1>3, <2>2, <2>3, <2>4 DEF ActivityInv
<1> QED
  BY <1>2, <1>4, <1>5

(* tmux draws: the browsers of the session have more to come, and the view *)
(* of that session is disturbed.                                           *)
LEMMA DrawKeeps ==
  ASSUME ActivityInv, NEW s \in Sessions, Draw(s)
  PROVE  ActivityInv'
<1>1. /\ ViewOK(view) /\ view.text <= drawn[view.ref] /\ OutputOK
      /\ NothingMissed /\ NothingInvented
  BY DEF ActivityInv
<1>2. /\ drawn[s] < MaxOutput[s] /\ drawn' = [drawn EXCEPT ![s] = @ + 1]
      /\ onTheWay' = [b \in Browsers |->
            IF Shows[b] = s THEN Append(onTheWay[b], drawn[s] + 1) ELSE onTheWay[b]]
      /\ disturbed' = (disturbed \/ (view.step # "none" /\ view.ref = s))
      /\ UNCHANGED <<epochs, running, view, recorded>>
  BY DEF Draw, Disturbs
<1>3. PICK n \in 0..1 : historyBytes' = [historyBytes EXCEPT ![s] = n]
  BY DEF Draw
<1>4. \A t \in Sessions : /\ drawn[t] \in Nat /\ drawn[t] <= MaxOutput[t]
                          /\ recorded[t] \in Nat /\ recorded[t] <= drawn[t]
                          /\ MaxOutput[t] \in Nat
  BY <1>1, ActivityAssumption DEF OutputOK
<1>5. /\ drawn' \in [Sessions -> Nat]
      /\ \A t \in Sessions : drawn'[t] = IF t = s THEN drawn[t] + 1 ELSE drawn[t]
  BY <1>1, <1>2, <1>4 DEF OutputOK
<1>6. \A t \in Sessions : drawn'[t] <= MaxOutput[t] /\ recorded[t] <= drawn'[t]
                            /\ drawn[t] <= drawn'[t]
  BY <1>2, <1>4, <1>5
<1>7. ASSUME NEW b \in Browsers PROVE onTheWay'[b] \in Seq(1..drawn'[Shows[b]])
  <2>1. Shows[b] \in Sessions /\ onTheWay[b] \in Seq(1..drawn[Shows[b]])
    BY <1>1, ActivityAssumption DEF OutputOK
  <2>2. CASE Shows[b] # s
    BY <2>1, <2>2, <1>2, <1>5
  <2>3. CASE Shows[b] = s
    <3>0. PICK q : q = onTheWay[b]
      OBVIOUS
    <3>1. PICK m \in Nat : m = drawn[s]
      BY <1>4
    <3>2. q \in Seq(1..m)
      BY <2>1, <2>3, <3>0, <3>1
    <3>3. q \in Seq(1..(m + 1))
      <4>1. Len(q) \in Nat /\ DOMAIN q = 1..Len(q) /\ \A i \in 1..Len(q) : q[i] \in 1..m
        BY <3>2
      <4>2. \A i \in 1..Len(q) : q[i] \in 1..(m + 1)
        BY <4>1
      <4>3. q = [i \in 1..Len(q) |-> q[i]]
        BY <3>2, <4>1
      <4> QED
        BY <4>1, <4>2, <4>3, <3>2
    <3>4. Append(q, m + 1) \in Seq(1..(m + 1))
      BY <3>3
    <3>5. onTheWay'[b] = Append(q, m + 1) /\ drawn'[Shows[b]] = m + 1
      BY <2>1, <2>3, <3>0, <3>1, <1>2, <1>5
    <3> QED
      BY <3>4, <3>5
  <2> QED
    BY <2>2, <2>3
<1>8. historyBytes' \in [Sessions -> 0..1] /\ disturbed' \in BOOLEAN
  BY <1>1, <1>2, <1>3 DEF OutputOK
<1>9. DOMAIN onTheWay' = Browsers
  BY <1>2
<1>10. OutputOK'
  BY <1>1, <1>2, <1>5, <1>6, <1>7, <1>8, <1>9 DEF OutputOK
<1>11. view.ref \in Sessions /\ view.text \in Nat /\ view' = view
  BY <1>1, <1>2 DEF ViewOK
<1>12. ViewOK(view)' /\ view'.text <= drawn'[view'.ref]
  <2>1. view.text <= drawn'[view.ref]
    BY <1>1, <1>4, <1>5, <1>6, <1>11
  <2> QED
    BY <2>1, <1>1, <1>11 DEF ViewOK
<1>13. NothingMissed'
  BY <1>1, <1>2, <1>11 DEF NothingMissed
<1>14. NothingInvented'
  <2>1. CASE view.ref = s
    BY <2>1, <1>2, <1>11 DEF NothingInvented
  <2>2. CASE view.ref # s
    <3>1. historyBytes'[view.ref] = historyBytes[view.ref] /\ disturbed' = disturbed
      BY <2>2, <1>1, <1>2, <1>3, <1>11 DEF OutputOK
    <3> QED
      BY <3>1, <1>1, <1>2, <1>11 DEF NothingInvented
  <2> QED
    BY <2>1, <2>2
<1> QED
  BY <1>10, <1>12, <1>13, <1>14 DEF ActivityInv

(* A sequence and its first element.                                       *)
LEMMA HeadAndTail ==
  ASSUME NEW S, NEW q, q \in Seq(S), q # <<>>
  PROVE  q[1] \in S /\ Tail(q) \in Seq(S)
OBVIOUS

(* The proxy records output: the epoch of the session moves on, or is at   *)
(* its end.                                                                *)
LEMMA ObserveKeeps ==
  ASSUME ActivityInv, NEW b \in Browsers, Observe(b)
  PROVE  ActivityInv'
<1> DEFINE s == Shows[b]
<1>1. /\ ViewOK(view) /\ view.text <= drawn[view.ref] /\ OutputOK
      /\ NothingMissed /\ NothingInvented
  BY DEF ActivityInv
<1>2. s \in Sessions /\ MaxEpoch \in Nat /\ epochs[s] \in Nat /\ epochs[s] <= MaxEpoch
  BY <1>1, ActivityAssumption DEF OutputOK
<1>3. /\ onTheWay[b] # <<>>
      /\ recorded' = [recorded EXCEPT ![s] = IF onTheWay[b][1] > @ THEN onTheWay[b][1] ELSE @]
      /\ onTheWay' = [onTheWay EXCEPT ![b] = Tail(@)] \/ onTheWay' = onTheWay
      /\ disturbed' = (disturbed \/ (view.step # "none" /\ view.ref = s))
      /\ UNCHANGED <<drawn, historyBytes, running, view>>
  BY DEF Observe, Disturbs
<1>4. PICK n \in Chunks : epochs' = [epochs EXCEPT ![s] = IF n > MaxEpoch - @ THEN MaxEpoch ELSE @ + n]
  BY DEF Observe, Record
<1>5. n \in Nat /\ n > 0
  BY ActivityAssumption
<1>6. PICK e : e = IF n > MaxEpoch - epochs[s] THEN MaxEpoch ELSE epochs[s] + n
  OBVIOUS
<1>7. e \in Nat /\ e <= MaxEpoch /\ e >= epochs[s] /\ (e = epochs[s] => e = MaxEpoch)
  BY <1>2, <1>5, <1>6
<1>8. epochs' = [epochs EXCEPT ![s] = e]
  BY <1>4, <1>6
<1>9. /\ epochs' \in [Sessions -> 0..MaxEpoch] /\ epochs'[s] = e
      /\ \A t \in Sessions : t # s => epochs'[t] = epochs[t]
  BY <1>1, <1>2, <1>7, <1>8 DEF OutputOK
<1>10. onTheWay[b] \in Seq(1..drawn[s]) /\ drawn[s] \in Nat
       /\ recorded[s] \in Nat /\ recorded[s] <= drawn[s]
  BY <1>1, <1>2 DEF OutputOK
<1>11. onTheWay[b][1] \in 1..drawn[s] /\ Tail(onTheWay[b]) \in Seq(1..drawn[s])
  <2>1. PICK q : q = onTheWay[b]
    OBVIOUS
  <2>2. PICK m : m = drawn[s]
    OBVIOUS
  <2>3. q \in Seq(1..m) /\ q # <<>>
    BY <1>3, <1>10, <2>1, <2>2
  <2>4. q[1] \in 1..m /\ Tail(q) \in Seq(1..m)
    BY ONLY <2>3, HeadAndTail
  <2> QED
    BY ONLY <2>1, <2>2, <2>4
<1>12. PICK r : r = IF onTheWay[b][1] > recorded[s] THEN onTheWay[b][1] ELSE recorded[s]
  OBVIOUS
<1>13. r \in Nat /\ r <= drawn[s]
  BY <1>10, <1>11, <1>12
<1>14. recorded' = [recorded EXCEPT ![s] = r]
  BY <1>3, <1>12
<1>15. /\ recorded' \in [Sessions -> Nat] /\ \A t \in Sessions : recorded'[t] <= drawn[t]
       /\ \A t \in Sessions : t # s => recorded'[t] = recorded[t]
  BY <1>1, <1>2, <1>13, <1>14 DEF OutputOK
<1>16. DOMAIN onTheWay' = Browsers
       /\ \A c \in Browsers : onTheWay'[c] \in Seq(1..drawn[Shows[c]])
  BY <1>1, <1>3, <1>11 DEF OutputOK
<1>17. OutputOK'
  <2>1. disturbed' \in BOOLEAN
    BY <1>1, <1>3 DEF OutputOK
  <2> QED
    BY <2>1, <1>1, <1>3, <1>9, <1>15, <1>16 DEF OutputOK
<1>18. view.ref \in Sessions /\ view' = view /\ view.before \in Reading
  BY <1>1, <1>3 DEF ViewOK
<1>19. ViewOK(view)' /\ view'.text <= drawn'[view'.ref]
  BY <1>1, <1>3, <1>18 DEF ViewOK
<1>20. CASE view.ref # s
  <2>1. /\ epochs'[view.ref] = epochs[view.ref] /\ recorded'[view.ref] = recorded[view.ref]
        /\ disturbed' = disturbed
    <3>1. disturbed' = disturbed
      <4>1. disturbed \in BOOLEAN
        BY <1>1 DEF OutputOK
      <4>2. disturbed' = (disturbed \/ (view.step # "none" /\ view.ref = s))
        BY <1>3
      <4> QED
        BY ONLY <4>1, <4>2, <1>20
    <3> QED
      BY <3>1, <1>9, <1>15, <1>18, <1>20
  <2>2. NothingMissed'
    BY <2>1, <1>1, <1>3, <1>18 DEF NothingMissed
  <2>3. NothingInvented'
    BY <2>1, <1>1, <1>3, <1>18 DEF NothingInvented
  <2> QED
    BY <2>2, <2>3, <1>17, <1>19 DEF ActivityInv
<1>21. CASE view.ref = s
  <2>1. NothingInvented'
    BY <1>3, <1>18, <1>21 DEF NothingInvented
  <2>2. NothingMissed'
    <3>1. view.before.epoch \in Nat
      BY <1>18, <1>2 DEF Reading
    <3>2. ASSUME running[s], view.step \in Capturing
          PROVE  view.before.epoch <= e /\ (e = view.before.epoch => e = MaxEpoch)
      <4>1. view.before.epoch <= epochs[s]
        BY <1>1, <1>21, <3>2 DEF NothingMissed
      <4> QED
        BY <4>1, <3>1, <1>2, <1>7
    <3>3. \A c \in Captured : c \in Capturing
      BY DEF Captured, Capturing
    <3>4. ~(MaxEpoch < MaxEpoch)
      BY <1>2
    <3> QED
      BY <3>2, <3>3, <3>4, <1>3, <1>9, <1>18, <1>21 DEF NothingMissed
  <2> QED
    BY <2>1, <2>2, <1>17, <1>19 DEF ActivityInv
<1> QED
  BY <1>20, <1>21

(* Every step keeps the invariant.                                         *)
LEMMA ActivityStep == ActivityInv /\ [ActivityNext]_activityVars => ActivityInv'
<1> SUFFICES ASSUME ActivityInv, [ActivityNext]_activityVars PROVE ActivityInv'
  OBVIOUS
<1>1. CASE UNCHANGED activityVars
  BY <1>1 DEF activityVars, ActivityInv, OutputOK, ViewOK, NothingMissed, NothingInvented
<1> QED
  BY <1>1, DrawKeeps, StartKeeps, TerminateKeeps, ObserveKeeps, ViewKeeps, AnswerKeeps,
     GiveUpKeeps DEF ActivityNext

(* Nothing has been drawn.                                                 *)
LEMMA ActivityStart == ActivityInit => ActivityInv
<1> SUFFICES ASSUME ActivityInit PROVE ActivityInv
  OBVIOUS
<1>1. ViewOK(view) /\ view.text = 0 /\ view.step = "none"
  BY NoViewOK DEF ActivityInit
<1>2. OutputOK
  <2>1. \A s \in Sessions : MaxOutput[s] \in Nat
    BY ActivityAssumption
  <2>2. 0 \in 0..MaxEpoch
    BY ActivityAssumption
  <2>3. \A b \in Browsers : onTheWay[b] \in Seq(1..drawn[Shows[b]])
    BY DEF ActivityInit
  <2>4. /\ drawn \in [Sessions -> Nat] /\ recorded \in [Sessions -> Nat]
        /\ historyBytes \in [Sessions -> 0..1] /\ epochs \in [Sessions -> 0..MaxEpoch]
        /\ running \in [Sessions -> BOOLEAN] /\ DOMAIN onTheWay = Browsers
    BY <2>2 DEF ActivityInit
  <2>5. \A s \in Sessions : drawn[s] <= MaxOutput[s] /\ recorded[s] <= drawn[s]
    BY <2>1 DEF ActivityInit
  <2> QED
    BY <2>3, <2>4, <2>5 DEF ActivityInit, OutputOK
<1>3. view.text <= drawn[view.ref]
  BY <1>1 DEF ActivityInit, ViewOK
<1>4. NothingMissed /\ NothingInvented
  BY <1>1 DEF NothingMissed, NothingInvented, Capturing, Captured
<1> QED
  BY <1>1, <1>2, <1>3, <1>4 DEF ActivityInv

(* A view is told of new output exactly when there was some (Record,       *)
(* CaptureHistory, the activity request): for all sessions, browsers and   *)
(* chunks, also at the largest epoch and over terminations.                *)
THEOREM ToldExactly == ActivitySpec => ActivityExact
BY ActivityStart, ActivityStep, ActivityTyped, ActivityQuiet, ActivityNotMissed, PTL
   DEF ActivitySpec, ActivityExact

-----------------------------------------------------------------------------
(* OutputObserver                                                          *)

(* A byte on its way, marked as data payload or not.                       *)
WireByte == [value: 0..255, data: BOOLEAN]

(* Length of the header of a frame.                                        *)
HeadLength(f) ==
    2 + (CASE f.form = 7 -> 0 [] f.form = 16 -> 2 [] OTHER -> 8)
      + (IF f.masked THEN 4 ELSE 0)

(* A frame whose length fits its form.                                     *)
Fitting(f) ==
    /\ f \in Frame
    /\ f.form = 7 => Len(f.payload) < 126
    /\ f.form = 16 => Len(f.payload) < 256 * 256
    /\ f.form = 64 => Len(f.payload) < 256 * 256 * 256

(* Frame f lies in w after position a, as far as the observer is concerned.*)
FrameAt(w, a, f) ==
    /\ w[a + 1].value = 128 + f.opcode
    /\ w[a + 2].value = (IF f.masked THEN 128 ELSE 0) + LengthCode(f)
    /\ f.form = 16 => 256 * w[a + 3].value + w[a + 4].value = Len(f.payload)
    /\ f.form = 64 => 256 * (256 * w[a + 8].value + w[a + 9].value) + w[a + 10].value
                        = Len(f.payload)
    /\ \A j \in 1..HeadLength(f) : w[a + j].data = FALSE
    /\ \A j \in HeadLength(f) + 1 .. HeadLength(f) + Len(f.payload) :
          w[a + j].data = IsData(f.opcode)

(* Header bytes are marked as no data, one by one.                         *)
LEMMA PlainIs ==
  ASSUME NEW s \in Seq(0..255)
  PROVE  /\ Plain(s) \in Seq(WireByte) /\ Len(Plain(s)) = Len(s)
         /\ \A i \in 1..Len(s) : Plain(s)[i] = [value |-> s[i], data |-> FALSE]
<1>1. DOMAIN s = 1..Len(s) /\ Len(s) \in Nat
  OBVIOUS
<1>0. \A i \in 1..Len(s) : s[i] \in 0..255
  BY ElementOfSeq
<1>2. Plain(s) = [i \in 1..Len(s) |-> [value |-> s[i], data |-> FALSE]]
  BY <1>1 DEF Plain
<1>3. \A i \in 1..Len(s) : [value |-> s[i], data |-> FALSE] \in WireByte
  BY <1>0 DEF WireByte
<1>4. Plain(s) \in Seq(WireByte)
  BY <1>1, <1>2, <1>3
<1> QED
  BY <1>1, <1>2, <1>4

(* The bytes before the payload.                                           *)
HeadBytes(f) ==
    <<128 + f.opcode, (IF f.masked THEN 128 ELSE 0) + LengthCode(f)>>
      \o Extended(f) \o (IF f.masked THEN <<1, 126, 127, 2>> ELSE <<>>)

(* How each form of the length is written.                                 *)
LEMMA ByForm ==
  ASSUME NEW f
  PROVE  /\ f.form = 7 => /\ LengthCode(f) = Len(f.payload)
                          /\ Extended(f) = <<>>
                          /\ HeadLength(f) = 2 + (IF f.masked THEN 4 ELSE 0)
         /\ f.form = 16 => /\ LengthCode(f) = 126
                           /\ Extended(f) = <<Len(f.payload) \div 256, Len(f.payload) % 256>>
                           /\ HeadLength(f) = 4 + (IF f.masked THEN 4 ELSE 0)
         /\ f.form = 64 => /\ LengthCode(f) = 127
                           /\ Extended(f) = <<0, 0, 0, 0, 0, (Len(f.payload) \div 256) \div 256,
                                              (Len(f.payload) \div 256) % 256,
                                              Len(f.payload) % 256>>
                           /\ HeadLength(f) = 10 + (IF f.masked THEN 4 ELSE 0)
<1>1. 16 # 7 /\ 64 # 7 /\ 64 # 16
  OBVIOUS
<1>2. CASE f.form = 7
  <2>1. Extended(f) = <<>>
    BY <1>1, <1>2, Zenon DEF Extended
  <2> QED
    BY <1>1, <1>2, <2>1 DEF LengthCode, HeadLength
<1>3. CASE f.form = 16
  <2>1. Extended(f) = <<Len(f.payload) \div 256, Len(f.payload) % 256>>
    BY <1>1, <1>3, Zenon DEF Extended
  <2> QED
    BY <1>1, <1>3, <2>1 DEF LengthCode, HeadLength
<1>4. CASE f.form = 64
  <2>1. Extended(f) = <<0, 0, 0, 0, 0, (Len(f.payload) \div 256) \div 256,
                        (Len(f.payload) \div 256) % 256, Len(f.payload) % 256>>
    BY <1>1, <1>4, Zenon DEF Extended
  <2> QED
    BY <1>1, <1>4, <2>1 DEF LengthCode, HeadLength
<1> QED
  BY <1>2, <1>3, <1>4

(* A header fits frameHeader, and holds the extended length.               *)
LEMMA HeadLengths ==
  ASSUME NEW f, Fitting(f)
  PROVE  /\ HeadLength(f) \in 2..14
         /\ f.form = 16 => HeadLength(f) >= 4
         /\ f.form = 64 => HeadLength(f) >= 10
<1>1. f.form \in {7, 16, 64}
  BY DEF Fitting, Frame
<1> DEFINE k == IF f.masked THEN 4 ELSE 0
<1>2. k \in {0, 4}
  OBVIOUS
<1>3. /\ f.form = 7 => HeadLength(f) = 2 + k
      /\ f.form = 16 => HeadLength(f) = 4 + k
      /\ f.form = 64 => HeadLength(f) = 10 + k
  BY ByForm, ZenonT(60)
<1> HIDE DEF k
<1> QED
  BY <1>1, <1>2, <1>3

(* A length is its bytes.                                                  *)
LEMMA LengthIsBytes ==
  ASSUME NEW n \in Nat
  PROVE  /\ n % 256 \in 0..255 /\ (n \div 256) % 256 \in 0..255
         /\ 256 * (n \div 256) + (n % 256) = n
         /\ n < 256 * 256 => n \div 256 \in 0..255
         /\ n < 256 * 256 * 256 =>
               /\ (n \div 256) \div 256 \in 0..255
               /\ 256 * (256 * ((n \div 256) \div 256) + ((n \div 256) % 256)) + (n % 256) = n
<1>1. /\ n \div 256 \in Nat /\ n % 256 \in 0..255
      /\ 256 * (n \div 256) + (n % 256) = n
      /\ n < 256 * 256 => n \div 256 < 256
  OBVIOUS
<1> DEFINE q == n \div 256
<1> HIDE DEF q
<1>2. q \in Nat /\ (n < 256 * 256 * 256 => q < 256 * 256)
  BY <1>1 DEF q
<1>3. /\ q \div 256 \in Nat /\ q % 256 \in 0..255
      /\ 256 * (q \div 256) + (q % 256) = q
      /\ q < 256 * 256 => q \div 256 < 256
  BY <1>2
<1> QED
  BY <1>1, <1>2, <1>3 DEF q

(* Two sequences, one after the other ...                                  *)
LEMMA Concat2 ==
  ASSUME NEW S, NEW a \in Seq(S), NEW b \in Seq(S)
  PROVE  /\ a \o b \in Seq(S) /\ Len(a \o b) = Len(a) + Len(b)
         /\ \A i \in 1..Len(a) : (a \o b)[i] = a[i]
         /\ \A i \in 1..Len(b) : (a \o b)[Len(a) + i] = b[i]
<1> DEFINE d == a \o b
<1>0. Len(a) \in Nat /\ Len(b) \in Nat
  OBVIOUS
<1>1. /\ d \in Seq(S) /\ Len(d) = Len(a) + Len(b)
      /\ \A i \in 1..Len(a) + Len(b) : d[i] = IF i <= Len(a) THEN a[i] ELSE b[i - Len(a)]
  BY ConcatProperties
<1> HIDE DEF d
<1>2. \A i \in 1..Len(a) : d[i] = a[i]
  BY <1>0, <1>1
<1>3. ASSUME NEW i \in 1..Len(b) PROVE d[Len(a) + i] = b[i]
  <2>1. Len(a) + i \in 1..Len(a) + Len(b) /\ ~(Len(a) + i <= Len(a)) /\ (Len(a) + i) - Len(a) = i
    BY <1>0
  <2> QED
    BY <1>1, <2>1
<1> QED
  BY <1>1, <1>2, <1>3 DEF d

(* ... and three.                                                          *)
LEMMA Concat3 ==
  ASSUME NEW S, NEW a \in Seq(S), NEW b \in Seq(S), NEW c \in Seq(S)
  PROVE  /\ (a \o b) \o c \in Seq(S)
         /\ Len((a \o b) \o c) = Len(a) + Len(b) + Len(c)
         /\ \A i \in 1..Len(a) : ((a \o b) \o c)[i] = a[i]
         /\ \A i \in 1..Len(b) : ((a \o b) \o c)[Len(a) + i] = b[i]
<1>0. Len(a) \in Nat /\ Len(b) \in Nat /\ Len(c) \in Nat
  OBVIOUS
<1> DEFINE d == a \o b
           e == d \o c
<1>1. /\ d \in Seq(S) /\ Len(d) = Len(a) + Len(b)
      /\ \A i \in 1..Len(a) : d[i] = a[i]
      /\ \A i \in 1..Len(b) : d[Len(a) + i] = b[i]
  BY Concat2
<1> HIDE DEF d
<1>2. /\ e \in Seq(S) /\ Len(e) = Len(d) + Len(c)
      /\ \A i \in 1..Len(d) : e[i] = d[i]
  <2>1. d \in Seq(S)
    BY <1>1
  <2> QED
    BY ONLY <2>1, c \in Seq(S), Concat2
<1>3. e = (a \o b) \o c
  BY DEF d
<1> HIDE DEF e
<1>4. Len(e) = Len(a) + Len(b) + Len(c)
  BY <1>0, <1>1, <1>2
<1>5. \A i \in 1..Len(a) : i \in 1..Len(d)
  BY <1>0, <1>1
<1>6. \A i \in 1..Len(b) : Len(a) + i \in 1..Len(d)
  BY <1>0, <1>1
<1> QED
  BY <1>1, <1>2, <1>3, <1>4, <1>5, <1>6, Zenon

(* The length a header announces, and its code.                            *)
LEMMA ExtendedIs ==
  ASSUME NEW f, Fitting(f)
  PROVE  LET x == Extended(f)
             n == Len(f.payload)
         IN  /\ x \in Seq(0..255) /\ LengthCode(f) \in 0..127 /\ n \in Nat
             /\ HeadLength(f) = 2 + Len(x) + (IF f.masked THEN 4 ELSE 0)
             /\ f.form = 7 => LengthCode(f) = n /\ n < 126
             /\ f.form = 16 => Len(x) = 2 /\ 256 * x[1] + x[2] = n
             /\ f.form = 64 => Len(x) = 8 /\ 256 * (256 * x[6] + x[7]) + x[8] = n
<1> DEFINE n == Len(f.payload)
           x == Extended(f)
           k == IF f.masked THEN 4 ELSE 0
<1>1. f.form \in {7, 16, 64} /\ f.masked \in BOOLEAN /\ n \in Nat /\ k \in {0, 4}
  BY DEF Fitting, Frame
<1>2. CASE f.form = 7
  <2>1. n < 126 /\ LengthCode(f) = n /\ x = <<>> /\ HeadLength(f) = 2 + k
    <3>1. n < 126
      BY <1>2 DEF Fitting
    <3>2. LengthCode(f) = n /\ x = <<>> /\ HeadLength(f) = 2 + k
      BY <1>2, ByForm, ZenonT(60)
    <3> QED
      BY <3>1, <3>2
  <2> HIDE DEF n, x, k
  <2>2. x \in Seq(0..255) /\ Len(x) = 0 /\ LengthCode(f) \in 0..127
    BY <1>1, <2>1
  <2> QED
    BY <1>1, <1>2, <2>1, <2>2 DEF n, x, k
<1>3. CASE f.form = 16
  <2> DEFINE u == n \div 256
             v == n % 256
  <2>1. n < 256 * 256 /\ LengthCode(f) = 126 /\ x = <<u, v>> /\ HeadLength(f) = 4 + k
    BY <1>3, ByForm, ZenonT(60) DEF Fitting
  <2>2. u \in 0..255 /\ v \in 0..255 /\ 256 * u + v = n
    <3> HIDE DEF n
    <3> QED
      BY <1>1, <2>1, LengthIsBytes
  <2> HIDE DEF n, x, k, u, v
  <2>3. x \in Seq(0..255) /\ Len(x) = 2 /\ x[1] = u /\ x[2] = v
    BY <2>1, <2>2
  <2>4. HeadLength(f) = 2 + Len(x) + k /\ LengthCode(f) \in 0..127
    BY <1>1, <2>1, <2>3
  <2> QED
    BY <1>1, <1>3, <2>2, <2>3, <2>4 DEF n, x, k
<1>4. CASE f.form = 64
  <2> DEFINE u == (n \div 256) \div 256
             v == (n \div 256) % 256
             w == n % 256
  <2>1. n < 256 * 256 * 256 /\ LengthCode(f) = 127 /\ HeadLength(f) = 10 + k
    <3>1. n < 256 * 256 * 256
      BY <1>4 DEF Fitting
    <3>2. LengthCode(f) = 127 /\ HeadLength(f) = 10 + k
      BY <1>4, ByForm, ZenonT(60)
    <3> QED
      BY <3>1, <3>2
  <2>5. x = <<0, 0, 0, 0, 0, u, v, w>>
    BY <1>4, ByForm, ZenonT(60)
  <2>2. u \in 0..255 /\ v \in 0..255 /\ w \in 0..255 /\ 256 * (256 * u + v) + w = n
    <3> HIDE DEF n
    <3> QED
      BY <1>1, <2>1, LengthIsBytes
  <2> HIDE DEF n, x, k, u, v, w
  <2>3. x \in Seq(0..255) /\ Len(x) = 8 /\ x[6] = u /\ x[7] = v /\ x[8] = w
    BY <2>5, <2>2
  <2>4. HeadLength(f) = 2 + Len(x) + k /\ LengthCode(f) \in 0..127
    BY <1>1, <2>1, <2>3
  <2> QED
    BY <1>1, <1>4, <2>2, <2>3, <2>4 DEF n, x, k
<1> QED
  BY <1>1, <1>2, <1>3, <1>4

(* The header of a frame, byte by byte where the observer looks.           *)
LEMMA HeadIs ==
  ASSUME NEW f, Fitting(f)
  PROVE  LET h == HeadBytes(f)
         IN  /\ h \in Seq(0..255) /\ Len(h) = HeadLength(f) /\ HeadLength(f) \in Nat
             /\ h[1] = 128 + f.opcode
             /\ h[2] = (IF f.masked THEN 128 ELSE 0) + LengthCode(f)
             /\ f.form = 16 => 256 * h[3] + h[4] = Len(f.payload)
             /\ f.form = 64 => 256 * (256 * h[8] + h[9]) + h[10] = Len(f.payload)
<1> DEFINE n == Len(f.payload)
           m == IF f.masked THEN 128 ELSE 0
           k == IF f.masked THEN 4 ELSE 0
           key == IF f.masked THEN <<1, 126, 127, 2>> ELSE <<>>
           x == Extended(f)
           c == LengthCode(f)
           o == 128 + f.opcode
           lead == <<o, m + c>>
           z == (lead \o x) \o key
<1>0. f.opcode \in 0..15 /\ f.masked \in BOOLEAN
  BY DEF Fitting, Frame
<1>1. o \in 128..143 /\ m \in {0, 128} /\ k \in {0, 4} /\ f.masked \in BOOLEAN
  BY <1>0
<1>2. /\ x \in Seq(0..255) /\ c \in 0..127 /\ n \in Nat
      /\ HeadLength(f) = 2 + Len(x) + k
      /\ f.form = 16 => Len(x) = 2 /\ 256 * x[1] + x[2] = n
      /\ f.form = 64 => Len(x) = 8 /\ 256 * (256 * x[6] + x[7]) + x[8] = n
  BY ExtendedIs
<1>3. key \in Seq(0..255) /\ Len(key) = k
  <2>1. <<1, 126, 127, 2>> \in Seq(0..255) /\ Len(<<1, 126, 127, 2>>) = 4
    OBVIOUS
  <2>2. <<>> \in Seq(0..255) /\ Len(<<>>) = 0
    OBVIOUS
  <2> QED
    BY <2>1, <2>2, <1>1
<1>4. HeadBytes(f) = z
  BY DEF HeadBytes
<1> HIDE DEF n, m, k, key, x, c, o
<1>5. lead \in Seq(0..255) /\ Len(lead) = 2 /\ lead[1] = o /\ lead[2] = m + c
  <2>1. o \in 0..255 /\ m + c \in 0..255
    BY <1>1, <1>2
  <2> DEFINE e == m + c
  <2> HIDE DEF e
  <2>2. <<o, e>> \in Seq(0..255) /\ Len(<<o, e>>) = 2 /\ <<o, e>>[1] = o /\ <<o, e>>[2] = e
    BY <2>1 DEF e
  <2> QED
    BY <2>2 DEF e
<1> HIDE DEF lead
<1>6. /\ z \in Seq(0..255) /\ Len(z) = Len(lead) + Len(x) + Len(key)
      /\ \A i \in 1..Len(lead) : z[i] = lead[i]
      /\ \A i \in 1..Len(x) : z[Len(lead) + i] = x[i]
  <2>1. lead \in Seq(0..255) /\ x \in Seq(0..255) /\ key \in Seq(0..255)
    BY <1>2, <1>3, <1>5
  <2> QED
    BY ONLY <2>1, Concat3
<1> HIDE DEF z
<1>7. Len(z) = HeadLength(f) /\ z[1] = o /\ z[2] = m + c /\ Len(x) \in Nat
      /\ HeadLength(f) \in Nat
  BY <1>1, <1>2, <1>3, <1>5, <1>6
<1>8. f.form = 16 => z[3] = x[1] /\ z[4] = x[2]
  <2> SUFFICES ASSUME f.form = 16 PROVE z[2 + 1] = x[1] /\ z[2 + 2] = x[2]
    OBVIOUS
  <2>1. Len(lead) = 2 /\ Len(x) = 2 /\ \A i \in 1..Len(x) : z[Len(lead) + i] = x[i]
    BY <1>2, <1>5, <1>6
  <2> QED
    BY <2>1
<1>9. f.form = 64 => z[8] = x[6] /\ z[9] = x[7] /\ z[10] = x[8]
  <2> SUFFICES ASSUME f.form = 64 PROVE z[2 + 6] = x[6] /\ z[2 + 7] = x[7] /\ z[2 + 8] = x[8]
    OBVIOUS
  <2>1. Len(lead) = 2 /\ Len(x) = 8 /\ \A i \in 1..Len(x) : z[Len(lead) + i] = x[i]
    BY <1>2, <1>5, <1>6
  <2> QED
    BY <2>1
<1>10. f.form = 16 => 256 * z[3] + z[4] = n
  BY <1>2, <1>8
<1>11. f.form = 64 => 256 * (256 * z[8] + z[9]) + z[10] = n
  BY <1>2, <1>9
<1> QED
  BY <1>4, <1>6, <1>7, <1>10, <1>11 DEF n, m, c, o

(* The length of an encoded frame, and its bytes in their place.           *)
LEMMA EncodedIs ==
  ASSUME NEW f, Fitting(f)
  PROVE  /\ Encoded(f) \in Seq(WireByte)
         /\ Len(Encoded(f)) = HeadLength(f) + Len(f.payload)
         /\ HeadLength(f) \in 2..14 /\ Len(f.payload) \in Nat
         /\ FrameAt(Encoded(f), 0, f)
<1> DEFINE h == HeadBytes(f)
           p == [i \in DOMAIN f.payload |-> [value |-> f.payload[i], data |-> IsData(f.opcode)]]
           e == Plain(h) \o p
           n == Len(f.payload)
           k == HeadLength(f)
<1>1. f.payload \in Seq(0..255) /\ f.form \in {7, 16, 64} /\ f.masked \in BOOLEAN
  BY DEF Fitting, Frame
<1>2. DOMAIN f.payload = 1..n /\ n \in Nat /\ \A i \in 1..n : f.payload[i] \in 0..255
  BY <1>1, ElementOfSeq, LenProperties
<1>3. p \in Seq(WireByte) /\ Len(p) = n /\ \A i \in 1..n : p[i].data = IsData(f.opcode)
  <2>1. p = [i \in 1..n |-> [value |-> f.payload[i], data |-> IsData(f.opcode)]]
    BY <1>2
  <2>2. \A i \in 1..n : [value |-> f.payload[i], data |-> IsData(f.opcode)] \in WireByte
    <3> DEFINE d == IsData(f.opcode)
    <3>1. d \in BOOLEAN
      BY DEF IsData
    <3> HIDE DEF d
    <3>2. \A i \in 1..n : [value |-> f.payload[i], data |-> d] \in WireByte
      BY ONLY <1>2, <3>1 DEF WireByte
    <3> QED
      BY ONLY <3>2 DEF d
  <2> HIDE DEF n, p
  <2>3. p \in Seq(WireByte) /\ Len(p) = n
    BY <1>2, <2>1, <2>2
  <2> QED
    BY <2>1, <2>3
<1>4. /\ h \in Seq(0..255) /\ Len(h) = k /\ k \in Nat
      /\ h[1] = 128 + f.opcode
      /\ h[2] = (IF f.masked THEN 128 ELSE 0) + LengthCode(f)
      /\ f.form = 16 => 256 * h[3] + h[4] = n
      /\ f.form = 64 => 256 * (256 * h[8] + h[9]) + h[10] = n
  BY HeadIs
<1>5. /\ k \in 2..14
      /\ f.form = 16 => k >= 4
      /\ f.form = 64 => k >= 10
  BY HeadLengths
<1>6. Encoded(f) = e
  BY DEF Encoded, HeadBytes
<1> HIDE DEF h, p, n, k
<1>7. /\ Plain(h) \in Seq(WireByte) /\ Len(Plain(h)) = k
      /\ \A i \in 1..k : Plain(h)[i] = [value |-> h[i], data |-> FALSE]
  BY <1>4, PlainIs
<1>8. /\ e \in Seq(WireByte) /\ Len(e) = Len(Plain(h)) + Len(p)
      /\ \A i \in 1..Len(Plain(h)) : e[i] = Plain(h)[i]
      /\ \A i \in 1..Len(p) : e[Len(Plain(h)) + i] = p[i]
  <2>1. Plain(h) \in Seq(WireByte) /\ p \in Seq(WireByte)
    BY <1>3, <1>7
  <2> HIDE DEF Plain
  <2> QED
    BY ONLY <2>1, Concat2
<1> HIDE DEF e
<1>9. /\ \A i \in 1..k : e[i].value = h[i] /\ e[i].data = FALSE
      /\ \A i \in 1..n : e[k + i].data = IsData(f.opcode)
  BY <1>3, <1>7, <1>8
<1>10. \A j \in k + 1 .. k + n : e[j].data = IsData(f.opcode)
  <2> SUFFICES ASSUME NEW j \in k + 1 .. k + n PROVE e[j].data = IsData(f.opcode)
    OBVIOUS
  <2>1. j - k \in 1..n /\ k + (j - k) = j
    BY <1>2, <1>4
  <2> QED
    BY <1>9, <2>1
<1>11. /\ e[1].value = h[1] /\ e[2].value = h[2]
       /\ f.form = 16 => e[3].value = h[3] /\ e[4].value = h[4]
       /\ f.form = 64 => e[8].value = h[8] /\ e[9].value = h[9] /\ e[10].value = h[10]
  BY <1>5, <1>9
<1>12. FrameAt(e, 0, f)
  <2>1. 0 + 1 = 1 /\ 0 + 2 = 2 /\ 0 + 3 = 3 /\ 0 + 4 = 4 /\ 0 + 8 = 8 /\ 0 + 9 = 9 /\ 0 + 10 = 10
    OBVIOUS
  <2>2. (\A j \in 1..k : 0 + j = j) /\ \A j \in k + 1 .. k + n : 0 + j = j
    BY <1>2, <1>4
  <2> QED
    BY <1>4, <1>9, <1>10, <1>11, <2>1, <2>2 DEF FrameAt, k, n
<1> QED
  BY <1>2, <1>3, <1>5, <1>6, <1>7, <1>8, <1>12 DEF n, k

(* A frame is the same wherever its bytes lie.                             *)
LEMMA FrameMoves ==
  ASSUME NEW f, Fitting(f), NEW w, NEW a \in Nat,
         \A j \in 1..Len(Encoded(f)) : w[a + j] = Encoded(f)[j]
  PROVE  FrameAt(w, a, f)
<1> DEFINE e == Encoded(f)
           n == Len(f.payload)
           k == HeadLength(f)
<1>1. Len(e) = k + n /\ k \in 2..14 /\ n \in Nat /\ FrameAt(e, 0, f)
  BY EncodedIs
<1>2. /\ f.form = 16 => k >= 4
      /\ f.form = 64 => k >= 10
  BY HeadLengths
<1>3. \A j \in 1..k + n : w[a + j] = e[j] /\ 0 + j = j
  BY <1>1
<1> HIDE DEF e
<1>4. /\ w[a + 1] = e[0 + 1] /\ w[a + 2] = e[0 + 2]
      /\ f.form = 16 => w[a + 3] = e[0 + 3] /\ w[a + 4] = e[0 + 4]
      /\ f.form = 64 => w[a + 8] = e[0 + 8] /\ w[a + 9] = e[0 + 9] /\ w[a + 10] = e[0 + 10]
  <2> HIDE DEF n, k
  <2> QED
    BY <1>1, <1>2, <1>3
<1>5. /\ \A j \in 1..k : w[a + j] = e[0 + j]
      /\ \A j \in k + 1 .. k + n : w[a + j] = e[0 + j]
  <2> HIDE DEF n, k
  <2> QED
    BY <1>1, <1>3
<1> QED
  BY <1>1, <1>4, <1>5, ZenonT(60) DEF FrameAt

(* R joins the first n frames of fs.                                       *)
Joins(R, fs, n) == R = [i \in 0..n |-> IF i = 0 THEN <<>> ELSE R[i - 1] \o Encoded(fs[i])]

(* Stream is some function with this equation.                             *)
LEMMA StreamIs ==
  ASSUME NEW fs
  PROVE  Stream(fs) = (CHOOSE R : Joins(R, fs, Len(fs)))[Len(fs)]
BY DEF Stream, Joins

(* The equation, step by step.                                             *)
LEMMA JoinsStep ==
  ASSUME NEW R, NEW fs, NEW n \in Nat, Joins(R, fs, n)
  PROVE  R[0] = <<>> /\ \A i \in 1..n : R[i] = R[i - 1] \o Encoded(fs[i])
<1>1. R = [i \in 0..n |-> IF i = 0 THEN <<>> ELSE R[i - 1] \o Encoded(fs[i])]
  BY DEF Joins
<1>2. \A i \in 0..n : R[i] = IF i = 0 THEN <<>> ELSE R[i - 1] \o Encoded(fs[i])
  BY <1>1
<1>3. 0 \in 0..n /\ \A i \in 1..n : i \in 0..n /\ i # 0
  OBVIOUS
<1> QED
  BY ONLY <1>2, <1>3

(* There is such a function, by induction on n.                            *)
LEMMA JoinsExist ==
  ASSUME NEW fs, NEW n \in Nat
  PROVE  \E R : Joins(R, fs, n)
<1> DEFINE G == {m \in Nat : \E R : Joins(R, fs, m)}
<1>1. 0 \in G
  <2> DEFINE R == [i \in 0..0 |-> <<>>]
  <2>1. R = [i \in 0..0 |-> IF i = 0 THEN <<>> ELSE R[i - 1] \o Encoded(fs[i])]
    OBVIOUS
  <2>2. Joins(R, fs, 0)
    BY <2>1 DEF Joins
  <2> QED
    BY <2>2
<1>2. ASSUME NEW m \in Nat, m \in G PROVE m + 1 \in G
  <2>1. PICK R : Joins(R, fs, m)
    BY <1>2
  <2> DEFINE V(i) == IF i = 0 THEN <<>> ELSE R[i - 1] \o Encoded(fs[i])
             Q == [i \in 0..(m + 1) |-> V(i)]
  <2>2. \A i \in 0..m : R[i] = V(i)
    <3>1. R[0] = <<>> /\ \A i \in 1..m : R[i] = R[i - 1] \o Encoded(fs[i])
      BY <2>1, JoinsStep, ZenonT(60)
    <3>2. \A i \in 0..m : i # 0 => i \in 1..m
      OBVIOUS
    <3> QED
      BY ONLY <3>1, <3>2
  <2>3. \A i \in 0..m : Q[i] = R[i]
    <3>1. \A i \in 0..m : i \in 0..(m + 1)
      OBVIOUS
    <3>2. \A i \in 0..(m + 1) : Q[i] = V(i)
      OBVIOUS
    <3> HIDE DEF Q, V
    <3> QED
      BY <2>2, <3>1, <3>2
  <2>4. \A i \in 0..(m + 1) : i # 0 => i - 1 \in 0..m
    OBVIOUS
  <2>5. \A i \in 0..(m + 1) : V(i) = IF i = 0 THEN <<>> ELSE Q[i - 1] \o Encoded(fs[i])
    <3> HIDE DEF Q
    <3> QED
      BY <2>3, <2>4
  <2>6. Q = [i \in 0..(m + 1) |-> IF i = 0 THEN <<>> ELSE Q[i - 1] \o Encoded(fs[i])]
    <3>1. Q = [i \in 0..(m + 1) |-> V(i)]
      OBVIOUS
    <3> HIDE DEF Q, V
    <3> QED
      BY <2>5, <3>1
  <2>7. Joins(Q, fs, m + 1)
    <3> HIDE DEF Q
    <3> QED
      BY <2>6 DEF Joins
  <2> HIDE DEF Q
  <2> QED
    BY <2>7
<1>3. Nat \subseteq G
  <2> HIDE DEF G
  <2> QED
    BY <1>1, <1>2, NatSteps
<1> QED
  BY <1>3

(* The frames of fs lie in w one after the other, from b[1] to its end.    *)
Lays(w, fs, b) ==
    /\ w \in Seq(WireByte) /\ b \in [1..Len(fs) + 1 -> Nat]
    /\ b[Len(fs) + 1] = Len(w)
    /\ \A i \in 1..Len(fs) : /\ b[i + 1] = b[i] + HeadLength(fs[i]) + Len(fs[i].payload)
                             /\ b[i + 1] <= Len(w)
                             /\ FrameAt(w, b[i], fs[i])

(* What has been joined is a sequence, longer by a frame at every step.    *)
Grown(R, fs) ==
    /\ R[0] = <<>>
    /\ \A i \in 0..Len(fs) : R[i] \in Seq(WireByte) /\ Len(R[i]) \in Nat
    /\ \A i \in 1..Len(fs) :
          /\ Len(Encoded(fs[i])) \in Nat
          /\ Len(R[i]) = Len(R[i - 1]) + Len(Encoded(fs[i]))
          /\ \A x \in 1..Len(R[i - 1]) : R[i][x] = R[i - 1][x]
          /\ \A x \in 1..Len(Encoded(fs[i])) :
                R[i][Len(R[i - 1]) + x] = Encoded(fs[i])[x]

(* By induction, again.                                                    *)
LEMMA JoinsGrow ==
  ASSUME NEW fs, \A i \in 1..Len(fs) : Fitting(fs[i]), Len(fs) \in Nat,
         NEW R, Joins(R, fs, Len(fs))
  PROVE  Grown(R, fs)
<1> DEFINE n == Len(fs)
           E(i) == Encoded(fs[i])
           G == {i \in Nat : i <= n => R[i] \in Seq(WireByte)}
<1>1. R[0] = <<>> /\ \A i \in 1..n : R[i] = R[i - 1] \o E(i)
  BY JoinsStep
<1>2. \A i \in 1..n : E(i) \in Seq(WireByte)
  BY EncodedIs
<1>3. n \in Nat
  OBVIOUS
<1> HIDE DEF n, E
<1>4. 0 \in G
  <2>1. R[0] \in Seq(WireByte)
    BY <1>1, EmptySeq
  <2> QED
    BY <2>1
<1>5. ASSUME NEW m \in Nat, m \in G PROVE m + 1 \in G
  <2> SUFFICES ASSUME m + 1 <= n PROVE R[m + 1] \in Seq(WireByte)
    OBVIOUS
  <2>1. m + 1 \in 1..n /\ (m + 1) - 1 = m /\ m <= n
    BY <1>3
  <2>2. R[m + 1] = R[m] \o E(m + 1) /\ E(m + 1) \in Seq(WireByte) /\ R[m] \in Seq(WireByte)
    BY <1>1, <1>2, <1>5, <2>1
  <2> QED
    BY ONLY <2>2, Concat2
<1>6. \A i \in 0..n : R[i] \in Seq(WireByte)
  <2>1. Nat \subseteq G
    <3> HIDE DEF G
    <3> QED
      BY <1>4, <1>5, NatSteps
  <2> QED
    BY <2>1, <1>3
<1>7. \A i \in 0..n : R[i] \in Seq(WireByte) /\ Len(R[i]) \in Nat
  BY <1>6
<1>8. ASSUME NEW i \in 1..n
      PROVE  /\ Len(R[i]) = Len(R[i - 1]) + Len(E(i))
             /\ \A x \in 1..Len(R[i - 1]) : R[i][x] = R[i - 1][x]
             /\ \A x \in 1..Len(E(i)) : R[i][Len(R[i - 1]) + x] = E(i)[x]
             /\ Len(E(i)) \in Nat
  <2>1. i - 1 \in 0..n
    BY <1>3
  <2>2. R[i] = R[i - 1] \o E(i) /\ E(i) \in Seq(WireByte) /\ R[i - 1] \in Seq(WireByte)
    BY <1>1, <1>2, <1>7, <2>1
  <2>3. Len(E(i)) \in Nat
    BY <2>2
  <2> QED
    BY ONLY <2>2, <2>3, Concat2
<1> QED
  BY <1>1, <1>7, <1>8 DEF n, E, Grown

(* Every frame stays where it was joined.                                  *)
LEMMA JoinsStay ==
  ASSUME NEW fs, \A i \in 1..Len(fs) : Fitting(fs[i]), Len(fs) \in Nat,
         NEW R, Joins(R, fs, Len(fs)), NEW j \in 1..Len(fs)
  PROVE  /\ Len(R[j]) <= Len(R[Len(fs)])
         /\ \A x \in 1..Len(R[j]) : R[Len(fs)][x] = R[j][x]
<1> DEFINE n == Len(fs)
           G == {i \in Nat : j + i <= n => /\ Len(R[j]) <= Len(R[j + i])
                                          /\ \A x \in 1..Len(R[j]) : R[j + i][x] = R[j][x]}
<1>1. /\ \A i \in 0..n : Len(R[i]) \in Nat
      /\ \A i \in 1..n :
            /\ Len(R[i]) = Len(R[i - 1]) + Len(Encoded(fs[i]))
            /\ Len(Encoded(fs[i])) \in Nat
            /\ \A x \in 1..Len(R[i - 1]) : R[i][x] = R[i - 1][x]
  <2>1. Grown(R, fs)
    BY JoinsGrow
  <2> QED
    BY ONLY <2>1 DEF Grown
<1>3. n \in Nat /\ j \in 1..n
  OBVIOUS
<1> HIDE DEF n
<1>4. 0 \in G
  <2>1. j + 0 = j /\ Len(R[j]) \in Nat
    BY <1>1, <1>3
  <2> QED
    BY <2>1
<1>5. ASSUME NEW m \in Nat, m \in G PROVE m + 1 \in G
  <2> SUFFICES ASSUME j + (m + 1) <= n
               PROVE  /\ Len(R[j]) <= Len(R[j + (m + 1)])
                      /\ \A x \in 1..Len(R[j]) : R[j + (m + 1)][x] = R[j][x]
    OBVIOUS
  <2> DEFINE k == j + (m + 1)
  <2>1. k \in 1..n /\ k - 1 = j + m /\ j + m <= n /\ k - 1 \in 0..n /\ j \in 0..n /\ k \in 0..n
    BY <1>3
  <2>2. Len(R[j]) <= Len(R[k - 1]) /\ \A x \in 1..Len(R[j]) : R[k - 1][x] = R[j][x]
    BY <1>5, <2>1
  <2> HIDE DEF k
  <2>3. /\ Len(R[k]) = Len(R[k - 1]) + Len(Encoded(fs[k]))
        /\ \A x \in 1..Len(R[k - 1]) : R[k][x] = R[k - 1][x]
        /\ Len(R[k]) \in Nat /\ Len(R[k - 1]) \in Nat /\ Len(R[j]) \in Nat
        /\ Len(Encoded(fs[k])) \in Nat
    BY <1>1, <2>1
  <2>4. Len(R[j]) <= Len(R[k]) /\ \A x \in 1..Len(R[j]) : x \in 1..Len(R[k - 1])
    <3> DEFINE p == Len(R[j])
               q == Len(R[k - 1])
               r == Len(R[k])
               e == Len(Encoded(fs[k]))
    <3>1. p \in Nat /\ q \in Nat /\ e \in Nat /\ r = q + e /\ p <= q
      BY <2>2, <2>3
    <3> HIDE DEF p, q, r, e
    <3>2. p <= r /\ \A x \in 1..p : x \in 1..q
      BY <3>1
    <3> QED
      BY <3>2 DEF p, q, r
  <2>5. \A x \in 1..Len(R[j]) : R[k][x] = R[j][x]
    BY <2>2, <2>3, <2>4
  <2> QED
    BY <2>4, <2>5 DEF k
<1>6. n - j \in G
  <2>1. Nat \subseteq G
    <3> HIDE DEF G
    <3> QED
      BY <1>4, <1>5, NatSteps
  <2>2. n - j \in Nat
    BY <1>3
  <2> HIDE DEF G
  <2> QED
    BY <2>1, <2>2
<1>7. j + (n - j) = n
  BY <1>3
<1> QED
  BY <1>3, <1>6, <1>7 DEF n

(* Every sequence of frames is laid out so, after any header.              *)
LEMMA StreamLays ==
  ASSUME NEW fs, \A i \in 1..Len(fs) : Fitting(fs[i]), Len(fs) \in Nat, NEW h \in Seq(WireByte)
  PROVE  /\ Stream(fs) \in Seq(WireByte)
         /\ \E b : Lays(h \o Stream(fs), fs, b) /\ b[1] = Len(h)
<1> DEFINE n == Len(fs)
           R == CHOOSE R : Joins(R, fs, n)
           E(i) == Encoded(fs[i])
           b == [i \in 1..n + 1 |-> Len(h) + Len(R[i - 1])]
           t == R[n]
           w == h \o t
<1>1. n \in Nat /\ Len(h) \in Nat
  OBVIOUS
<1>2. Stream(fs) = t
  BY StreamIs
<1>3. Joins(R, fs, n)
  BY <1>1, JoinsExist
<1> HIDE DEF R
<1>4. /\ \A i \in 0..n : R[i] \in Seq(WireByte) /\ Len(R[i]) \in Nat
      /\ R[0] = <<>>
      /\ \A i \in 1..n : /\ Len(R[i]) = Len(R[i - 1]) + Len(E(i))
                         /\ Len(E(i)) \in Nat
                         /\ \A x \in 1..Len(E(i)) : R[i][Len(R[i - 1]) + x] = E(i)[x]
  <2>1. Grown(R, fs)
    BY <1>1, <1>3, JoinsGrow
  <2> QED
    BY ONLY <2>1 DEF Grown
<1>5. \A j \in 1..n : /\ Len(R[j]) <= Len(t)
                      /\ \A x \in 1..Len(R[j]) : t[x] = R[j][x]
  BY <1>1, <1>3, JoinsStay
<1>6. \A i \in 1..n : /\ Len(E(i)) = HeadLength(fs[i]) + Len(fs[i].payload)
                      /\ HeadLength(fs[i]) \in 2..14 /\ Len(fs[i].payload) \in Nat
  BY EncodedIs
<1>7. t \in Seq(WireByte) /\ Len(t) \in Nat
  BY <1>1, <1>4
<1>8. /\ w \in Seq(WireByte) /\ Len(w) = Len(h) + Len(t)
      /\ \A i \in 1..Len(t) : w[Len(h) + i] = t[i]
  <2> HIDE DEF t
  <2> QED
    BY ONLY <1>7, h \in Seq(WireByte), Concat2
<1> HIDE DEF t, w, E, n
<1>9. b \in [1..n + 1 -> Nat] /\ b[n + 1] = Len(w) /\ b[1] = Len(h)
  <2>1. \A i \in 1..n + 1 : i - 1 \in 0..n
    BY <1>1
  <2>2. \A i \in 1..n + 1 : Len(h) + Len(R[i - 1]) \in Nat
    BY <1>1, <1>4, <2>1
  <2>3. 1 \in 1..n + 1 /\ n + 1 \in 1..n + 1 /\ (n + 1) - 1 = n /\ 1 - 1 = 0
    BY <1>1
  <2>4. Len(R[0]) = 0
    BY <1>4
  <2> QED
    BY <1>1, <1>8, <2>2, <2>3, <2>4 DEF t
<1>10. ASSUME NEW i \in 1..n
       PROVE  /\ b[i + 1] = b[i] + HeadLength(fs[i]) + Len(fs[i].payload)
              /\ b[i + 1] <= Len(w)
              /\ FrameAt(w, b[i], fs[i])
  <2>1. i \in 1..n + 1 /\ i + 1 \in 1..n + 1 /\ (i + 1) - 1 = i /\ i - 1 \in 0..n /\ i \in 0..n
    BY <1>1
  <2>2. b[i] = Len(h) + Len(R[i - 1]) /\ b[i + 1] = Len(h) + Len(R[i]) /\ b[i] \in Nat
    BY <1>9, <2>1
  <2>3. /\ Len(R[i]) \in Nat /\ Len(R[i - 1]) \in Nat
        /\ Len(R[i]) = Len(R[i - 1]) + Len(E(i))
        /\ Len(E(i)) \in Nat
        /\ Len(E(i)) = HeadLength(fs[i]) + Len(fs[i].payload)
        /\ HeadLength(fs[i]) \in 2..14 /\ Len(fs[i].payload) \in Nat
    BY <1>4, <1>6, <2>1
  <2> DEFINE lh == Len(h)
             lt == Len(t)
             p == Len(R[i - 1])
             q == Len(R[i])
             e == Len(E(i))
             k == HeadLength(fs[i])
             m == Len(fs[i].payload)
             bi == b[i]
             bj == b[i + 1]
  <2>8. /\ lh \in Nat /\ p \in Nat /\ q \in Nat /\ e \in Nat /\ k \in Nat /\ m \in Nat /\ lt \in Nat
        /\ bi = lh + p /\ bj = lh + q /\ q = p + e /\ e = k + m /\ q <= lt /\ Len(w) = lh + lt
    <3>1. \A v \in 2..14 : v \in Nat
      OBVIOUS
    <3>2. lh \in Nat /\ p \in Nat /\ q \in Nat /\ e \in Nat /\ k \in Nat /\ m \in Nat /\ lt \in Nat
      BY ONLY <1>1, <1>7, <2>3, <3>1
    <3>3. bi = lh + p /\ bj = lh + q
      BY ONLY <2>2
    <3>4. q = p + e /\ e = k + m
      BY ONLY <2>3
    <3>5. q <= lt
      BY ONLY <1>5, i \in 1..n
    <3>6. Len(w) = lh + lt
      BY ONLY <1>8
    <3> QED
      BY ONLY <3>2, <3>3, <3>4, <3>5, <3>6
  <2> HIDE DEF lh, lt, p, q, e, k, m, bi, bj
  <2>9. bj = bi + k + m /\ bj <= lh + lt
    BY <2>8
  <2>4. b[i + 1] = b[i] + HeadLength(fs[i]) + Len(fs[i].payload)
    BY <2>9 DEF bi, bj, k, m
  <2>5. b[i + 1] <= Len(w)
    BY <2>8, <2>9 DEF bj
  <2>6. ASSUME NEW x \in 1..Len(E(i)) PROVE w[b[i] + x] = E(i)[x]
    <3> DEFINE y == Len(R[i - 1]) + x
    <3>1. y \in 1..Len(R[i]) /\ y \in 1..Len(t) /\ b[i] + x = Len(h) + y
      <4>1. x \in 1..e
        BY DEF e
      <4>2. p + x \in 1..q /\ p + x \in 1..lt /\ bi + x = lh + (p + x)
        BY <2>8, <4>1
      <4> QED
        BY <4>2 DEF p, q, lt, bi, lh
    <3>2. R[i][y] = E(i)[x]
      BY <1>4
    <3> HIDE DEF y
    <3>3. t[y] = R[i][y]
      BY <1>5, <3>1
    <3> QED
      BY <1>8, <3>1, <3>2, <3>3
  <2>7. FrameAt(w, b[i], fs[i])
    <3>1. Fitting(fs[i]) /\ \A x \in 1..Len(Encoded(fs[i])) : w[b[i] + x] = Encoded(fs[i])[x]
      BY <2>6 DEF E, n
    <3> HIDE DEF b
    <3> QED
      BY ONLY <2>2, <3>1, FrameMoves
  <2> QED
    BY <2>4, <2>5, <2>7
<1> HIDE DEF b
<1>11. Lays(w, fs, b)
  BY <1>8, <1>9, <1>10 DEF Lays, n
<1> QED
  BY <1>2, <1>7, <1>9, <1>11 DEF w

(* Data payload bytes among the first k of w.                              *)
DataIn(w, k) == Cardinality({i \in 1..k : w[i].data})

(* One byte more.                                                          *)
LEMMA DataStep ==
  ASSUME NEW w, NEW k \in Nat
  PROVE  /\ DataIn(w, k) \in Nat /\ DataIn(w, 0) = 0
         /\ DataIn(w, k + 1) = DataIn(w, k) + (IF w[k + 1].data THEN 1 ELSE 0)
<1> DEFINE C == {i \in 1..k : w[i].data}
           E == {i \in 1..(k + 1) : w[i].data}
<1>1. IsFiniteSet(1..k) /\ C \in SUBSET (1..k)
  BY FS_Interval
<1>2. IsFiniteSet(C)
  <2> HIDE DEF C
  <2> QED
    BY <1>1, FS_Subset
<1>3. Cardinality(C) \in Nat
  <2> HIDE DEF C
  <2> QED
    BY <1>2, FS_CardinalityType
<1>4. DataIn(w, 0) = 0
  <2>1. {i \in 1..0 : w[i].data} = {}
    OBVIOUS
  <2> QED
    BY <2>1, FS_EmptySet DEF DataIn
<1>5. CASE w[k + 1].data
  <2>1. E = C \cup {k + 1} /\ k + 1 \notin C
    BY <1>5
  <2> HIDE DEF C, E
  <2>2. Cardinality(E) = Cardinality(C) + 1
    BY <1>2, <2>1, FS_AddElement
  <2> QED
    BY <1>3, <1>4, <1>5, <2>2 DEF DataIn, C, E
<1>6. CASE ~w[k + 1].data
  <2>1. E = C
    BY <1>6
  <2> HIDE DEF C, E
  <2>2. Cardinality(E) = Cardinality(C) + 0
    BY <1>3, <2>1
  <2> QED
    BY <1>3, <1>4, <1>6, <2>2 DEF DataIn, C, E
<1> QED
  BY <1>5, <1>6

(* A part s of w after position k counts for itself.                       *)
LEMMA DataOfPart ==
  ASSUME NEW w, NEW k \in Nat, NEW n \in Nat, NEW s,
         \A j \in 1..n : s[j] = w[k + j]
  PROVE  DataIn(w, k + n) = DataIn(w, k) + DataIn(s, n)
<1> DEFINE G == {m \in Nat : m <= n => DataIn(w, k + m) = DataIn(w, k) + DataIn(s, m)}
<1>1. 0 \in G
  <2>1. k + 0 = k /\ DataIn(s, 0) = 0 /\ DataIn(w, k) \in Nat
    BY DataStep
  <2> QED
    BY <2>1
<1>2. ASSUME NEW m \in Nat, m \in G PROVE m + 1 \in G
  <2> SUFFICES ASSUME m + 1 <= n
               PROVE  DataIn(w, k + (m + 1)) = DataIn(w, k) + DataIn(s, m + 1)
    OBVIOUS
  <2>1. m <= n /\ m + 1 \in 1..n /\ k + (m + 1) = (k + m) + 1 /\ k + m \in Nat
    OBVIOUS
  <2>2. s[m + 1] = w[(k + m) + 1]
    BY <2>1
  <2>3. DataIn(w, k + m) = DataIn(w, k) + DataIn(s, m)
    BY <1>2, <2>1
  <2> DEFINE d == IF s[m + 1].data THEN 1 ELSE 0
  <2>4. DataIn(w, (k + m) + 1) = DataIn(w, k + m) + d
    BY <2>1, <2>2, DataStep
  <2>5. DataIn(s, m + 1) = DataIn(s, m) + d /\ d \in Nat
    BY DataStep
  <2>6. DataIn(w, k) \in Nat /\ DataIn(s, m) \in Nat
    BY DataStep
  <2> HIDE DEF d
  <2> QED
    BY <2>1, <2>3, <2>4, <2>5, <2>6
<1>3. n \in G
  <2>1. Nat \subseteq G
    <3> HIDE DEF G
    <3> QED
      BY <1>1, <1>2, NatSteps
  <2> QED
    BY <2>1
<1> QED
  BY <1>3

(* A part that is data throughout, or nowhere.                             *)
LEMMA DataOfEven ==
  ASSUME NEW w, NEW k \in Nat, NEW n \in Nat, NEW d \in BOOLEAN,
         \A j \in 1..n : w[k + j].data = d
  PROVE  DataIn(w, k + n) = IF d THEN DataIn(w, k) + n ELSE DataIn(w, k)
<1> DEFINE s == [j \in 1..n |-> w[k + j]]
           C == {j \in 1..n : s[j].data}
<1>1. \A j \in 1..n : s[j] = w[k + j]
  OBVIOUS
<1>2. DataIn(w, k) \in Nat
  BY DataStep
<1> HIDE DEF s
<1>3. DataIn(w, k + n) = DataIn(w, k) + DataIn(s, n)
  BY <1>1, DataOfPart
<1>4. CASE d
  <2>1. C = 1..n
    BY <1>1, <1>4
  <2>3. Cardinality(1..n) = n
    BY FS_Interval
  <2>2. DataIn(s, n) = n
    BY <2>1, <2>3 DEF DataIn
  <2> QED
    BY <1>3, <1>4, <2>2
<1>5. CASE ~d
  <2>1. C = {}
    BY <1>1, <1>5
  <2>2. DataIn(s, n) = 0
    BY <2>1, FS_EmptySet DEF DataIn
  <2> QED
    BY <1>2, <1>3, <1>5, <2>2
<1> QED
  BY <1>4, <1>5

(* A sequence cut in two.                                                  *)
LEMMA Halves ==
  ASSUME NEW S, NEW s \in Seq(S), NEW n \in 0..Len(s)
  PROVE  /\ SubSeq(s, 1, n) \in Seq(S) /\ Len(SubSeq(s, 1, n)) = n
         /\ \A i \in 1..n : SubSeq(s, 1, n)[i] = s[i]
         /\ SubSeq(s, n + 1, Len(s)) \in Seq(S)
         /\ Len(SubSeq(s, n + 1, Len(s))) = Len(s) - n
         /\ \A i \in 1..Len(s) - n : SubSeq(s, n + 1, Len(s))[i] = s[n + i]
<1>1. Len(s) \in Nat /\ n \in Int /\ Len(s) \in Int /\ n + 1 \in Int /\ 1 \in Int
  OBVIOUS
<1>2. \A i \in 1..Len(s) : s[i] \in S
  BY ElementOfSeq
<1>3. (\A i \in 1..n : s[i] \in S) /\ (\A i \in n + 1 .. Len(s) : s[i] \in S)
  BY <1>1, <1>2
<1> DEFINE a == SubSeq(s, 1, n)
           b == SubSeq(s, n + 1, Len(s))
           l == Len(s)
<1>4. /\ a \in Seq(S) /\ Len(a) = (IF 1 <= n THEN n - 1 + 1 ELSE 0)
      /\ \A i \in 1..n - 1 + 1 : a[i] = s[1 + i - 1]
  BY <1>1, <1>3, SubSeqProperties
<1>5. /\ b \in Seq(S) /\ Len(b) = (IF n + 1 <= l THEN l - (n + 1) + 1 ELSE 0)
      /\ \A i \in 1..l - (n + 1) + 1 : b[i] = s[n + 1 + i - 1]
  BY <1>1, <1>3, SubSeqProperties
<1>6. l \in Nat /\ n \in 0..l
  BY <1>1
<1> HIDE DEF a, b, l
<1>7. Len(a) = n /\ Len(b) = l - n
  BY <1>4, <1>5, <1>6
<1>8. \A i \in 1..n : a[i] = s[i]
  <2>1. \A i \in 1..n : i \in 1..n - 1 + 1 /\ 1 + i - 1 = i
    BY <1>6
  <2> QED
    BY <1>4, <2>1
<1>9. \A i \in 1..l - n : b[i] = s[n + i]
  <2>1. \A i \in 1..l - n : i \in 1..l - (n + 1) + 1 /\ n + 1 + i - 1 = n + i
    BY <1>6
  <2> QED
    BY <1>5, <2>1
<1> QED
  BY <1>4, <1>5, <1>7, <1>8, <1>9 DEF a, b, l

(* Bytes up to k of w are inspected, bu is read and wi is on its way.      *)
Cut(w, k, bu, wi) ==
    /\ bu \in Seq(WireByte) /\ wi \in Seq(WireByte) /\ k \in Nat
    /\ k + Len(bu) + Len(wi) = Len(w)
    /\ \A j \in 1..Len(bu) : bu[j] = w[k + j]
    /\ \A j \in 1..Len(wi) : wi[j] = w[k + Len(bu) + j]

(* A Read moves the second cut, and carries what it moves over ...         *)
LEMMA CutRead ==
  ASSUME NEW w, NEW k, NEW wi, Cut(w, k, <<>>, wi), NEW n \in 1..Len(wi)
  PROVE  /\ Cut(w, k, SubSeq(wi, 1, n), SubSeq(wi, n + 1, Len(wi)))
         /\ Len(SubSeq(wi, 1, n)) = n
         /\ DataIn(w, k + n) = DataIn(w, k) + DataBytes(SubSeq(wi, 1, n))
<1> DEFINE l == Len(wi)
           a == SubSeq(wi, 1, n)
           b == SubSeq(wi, n + 1, Len(wi))
<1>1. wi \in Seq(WireByte) /\ k \in Nat /\ k + Len(<<>>) + l = Len(w)
      /\ \A j \in 1..l : wi[j] = w[k + Len(<<>>) + j]
  BY DEF Cut
<1>2. Len(<<>>) = 0 /\ l \in Nat /\ n \in 0..l /\ n \in Nat /\ n \in 1..l
  BY <1>1
<1>3. k + l = Len(w) /\ \A j \in 1..l : wi[j] = w[k + j]
  BY <1>1, <1>2
<1>4. /\ a \in Seq(WireByte) /\ Len(a) = n /\ (\A i \in 1..n : a[i] = wi[i])
      /\ b \in Seq(WireByte) /\ Len(b) = l - n /\ (\A i \in 1..l - n : b[i] = wi[n + i])
  <2>1. n \in 0..Len(wi)
    BY <1>2
  <2> QED
    BY ONLY <1>1, <2>1, Halves
<1> HIDE DEF a, b, l
<1>5. \A j \in 1..n : a[j] = w[k + j]
  <2>1. \A j \in 1..n : j \in 1..l
    BY <1>2
  <2> QED
    BY ONLY <1>3, <1>4, <2>1
<1>6. \A j \in 1..l - n : b[j] = w[k + n + j]
  <2> SUFFICES ASSUME NEW j \in 1..l - n PROVE b[j] = w[k + n + j]
    OBVIOUS
  <2>1. n + j \in 1..l /\ k + (n + j) = k + n + j
    BY <1>1, <1>2
  <2> QED
    BY <1>3, <1>4, <2>1
<1>7. k + n + (l - n) = Len(w)
  BY <1>1, <1>2, <1>3
<1>8. Cut(w, k, a, b)
  BY <1>1, <1>4, <1>5, <1>6, <1>7 DEF Cut
<1>9. DataBytes(a) = DataIn(a, n)
  <2>1. DOMAIN a = 1..n
    BY <1>4
  <2> QED
    BY <2>1 DEF DataBytes, DataIn
<1>10. DataIn(w, k + n) = DataIn(w, k) + DataIn(a, n)
  <2>1. k \in Nat /\ n \in Nat
    BY <1>1, <1>2
  <2> QED
    BY ONLY <1>5, <2>1, DataOfPart, SMTT(60)
<1> QED
  BY <1>4, <1>8, <1>9, <1>10 DEF a, b, l

(* ... and the inspection of n bytes the first.                            *)
LEMMA CutDrop ==
  ASSUME NEW w, NEW k, NEW bu, NEW wi, Cut(w, k, bu, wi), NEW n \in 0..Len(bu)
  PROVE  /\ Cut(w, k + n, SubSeq(bu, n + 1, Len(bu)), wi)
         /\ (k + n) + Len(SubSeq(bu, n + 1, Len(bu))) = k + Len(bu)
<1> DEFINE l == Len(bu)
           b == SubSeq(bu, n + 1, Len(bu))
           v == Len(wi)
           t == Len(w)
<1>1. bu \in Seq(WireByte) /\ wi \in Seq(WireByte) /\ k \in Nat /\ k + l + v = t
      /\ (\A j \in 1..l : bu[j] = w[k + j])
      /\ \A j \in 1..v : wi[j] = w[k + l + j]
  BY DEF Cut
<1>2. l \in Nat /\ v \in Nat /\ n \in 0..l
  BY <1>1
<1>3. b \in Seq(WireByte) /\ Len(b) = l - n /\ (\A i \in 1..l - n : b[i] = bu[n + i])
  <2>1. n \in 0..Len(bu)
    OBVIOUS
  <2> QED
    BY ONLY <1>1, <2>1, Halves
<1> HIDE DEF l, b, v, t
<1>4. /\ (k + n) + (l - n) = k + l /\ k + n \in Nat
      /\ (k + n) + (l - n) + v = t
  BY <1>1, <1>2
<1>5. \A j \in 1..l - n : b[j] = w[(k + n) + j]
  <2> SUFFICES ASSUME NEW j \in 1..l - n PROVE b[j] = w[(k + n) + j]
    OBVIOUS
  <2>1. n + j \in 1..l /\ k + (n + j) = (k + n) + j
    BY <1>1, <1>2
  <2> QED
    BY <1>1, <1>3, <2>1
<1>6. \A j \in 1..v : wi[j] = w[(k + n) + (l - n) + j]
  BY <1>1, <1>4
<1>7. Cut(w, k + n, b, wi)
  BY <1>1, <1>3, <1>4, <1>5, <1>6 DEF Cut, v, t
<1> QED
  BY <1>3, <1>4, <1>7 DEF b, l

(* A blank line after position i of w.                                     *)
BlankAt(w, i) ==
    /\ w[i + 1].value = CR /\ w[i + 2].value = LF
    /\ w[i + 3].value = CR /\ w[i + 4].value = LF

(* The response header ends at position H of w, and nowhere before.        *)
Greets(w, H) ==
    /\ w \in Seq(WireByte) /\ H \in Nat /\ 4 <= H /\ H <= Len(w)
    /\ BlankAt(w, H - 4)
    /\ \A i \in Nat : i + 4 < H => ~BlankAt(w, i)
    /\ \A i \in 1..H : w[i].data = FALSE

(* How much of the blank line the first k bytes of w end with.             *)
EndsWith1(w, k) == 1 <= k /\ w[k].value = CR
EndsWith2(w, k) == 2 <= k /\ w[k - 1].value = CR /\ w[k].value = LF
EndsWith3(w, k) == 3 <= k /\ w[k - 2].value = CR /\ w[k - 1].value = LF /\ w[k].value = CR
Match(w, k) ==
    IF EndsWith3(w, k) THEN 3 ELSE IF EndsWith2(w, k) THEN 2
    ELSE IF EndsWith1(w, k) THEN 1 ELSE 0

(* matched after one more byte.                                            *)
Matched(m, value) ==
    CASE value = HeaderEnd[m + 1] -> m + 1
      [] value # HeaderEnd[m + 1] /\ value = HeaderEnd[1] -> 1
      [] OTHER -> 0

(* ... written out.                                                        *)
LEMMA MatchedIs ==
  ASSUME NEW v
  PROVE  /\ v = CR => Matched(0, v) = 1 /\ Matched(1, v) = 1
                      /\ Matched(2, v) = 3 /\ Matched(3, v) = 1
         /\ v = LF => Matched(0, v) = 0 /\ Matched(1, v) = 2
                      /\ Matched(2, v) = 0 /\ Matched(3, v) = 4
         /\ v # CR /\ v # LF => \A m \in 0..3 : Matched(m, v) = 0
<1>1. /\ HeaderEnd[1] = CR /\ HeaderEnd[2] = LF /\ HeaderEnd[3] = CR /\ HeaderEnd[4] = LF
      /\ CR # LF
  BY DEF HeaderEnd, CR, LF
<1>2. 0 + 1 = 1 /\ 1 + 1 = 2 /\ 2 + 1 = 3 /\ 3 + 1 = 4
  OBVIOUS
<1>3. CASE v = CR
  <2>1. Matched(0, v) = 1 /\ Matched(1, v) = 1
    BY <1>1, <1>2, <1>3 DEF Matched
  <2>2. Matched(2, v) = 3 /\ Matched(3, v) = 1
    BY <1>1, <1>2, <1>3 DEF Matched
  <2> QED
    BY <1>1, <1>3, <2>1, <2>2
<1>4. CASE v = LF
  <2>1. Matched(0, v) = 0 /\ Matched(1, v) = 2
    BY <1>1, <1>2, <1>4 DEF Matched
  <2>2. Matched(2, v) = 0 /\ Matched(3, v) = 4
    BY <1>1, <1>2, <1>4 DEF Matched
  <2> QED
    BY <1>1, <1>4, <2>1, <2>2
<1>5. CASE v # CR /\ v # LF
  <2>1. \A m \in 0..3 : m + 1 \in {1, 2, 3, 4}
    OBVIOUS
  <2>2. \A m \in 0..3 : v # HeaderEnd[m + 1]
    BY <1>1, <1>5, <2>1
  <2> QED
    BY <1>1, <1>5, <2>2 DEF Matched
<1> QED
  BY <1>3, <1>4, <1>5

(* The matching of inspect: it reaches the whole blank line with the last  *)
(* byte of the header, and not before.                                     *)
LEMMA MatchStep ==
  ASSUME NEW w, NEW H, Greets(w, H), NEW k \in Nat, k < H
  PROVE  /\ Match(w, k) \in 0..3
         /\ k + 1 < H => Matched(Match(w, k), w[k + 1].value) = Match(w, k + 1)
         /\ k + 1 = H => Matched(Match(w, k), w[k + 1].value) = 4
<1> DEFINE v == w[k + 1].value
           m == Match(w, k)
           a == w[k].value
           b == w[k - 1].value
           c == w[k - 2].value
<1>1. CR # LF /\ H \in Nat
  BY DEF CR, LF, Greets
<1>2. (k + 1) - 1 = k /\ (k + 1) - 2 = k - 1 /\ 1 <= k + 1 /\ (2 <= k + 1 <=> 1 <= k)
      /\ (3 <= k + 1 <=> 2 <= k) /\ (3 <= k => 2 <= k) /\ (2 <= k => 1 <= k)
  OBVIOUS
<1>3. /\ EndsWith1(w, k) <=> (1 <= k /\ a = CR)
      /\ EndsWith2(w, k) <=> (2 <= k /\ b = CR /\ a = LF)
      /\ EndsWith3(w, k) <=> (3 <= k /\ c = CR /\ b = LF /\ a = CR)
  BY DEF EndsWith1, EndsWith2, EndsWith3
<1>4. /\ EndsWith1(w, k + 1) <=> v = CR
      /\ EndsWith2(w, k + 1) <=> (1 <= k /\ a = CR /\ v = LF)
      /\ EndsWith3(w, k + 1) <=> (2 <= k /\ b = CR /\ a = LF /\ v = CR)
  <2>1. /\ w[(k + 1) - 1].value = a /\ w[(k + 1) - 2].value = b
    BY <1>2
  <2> QED
    BY <1>2, <2>1 DEF EndsWith1, EndsWith2, EndsWith3
<1>5. k + 1 < H => ~(3 <= k /\ c = CR /\ b = LF /\ a = CR /\ v = LF)
  <2> SUFFICES ASSUME k + 1 < H, 3 <= k, c = CR, b = LF, a = CR, v = LF PROVE FALSE
    OBVIOUS
  <2> DEFINE i == k - 3
  <2>1. i \in Nat /\ i + 1 = k - 2 /\ i + 2 = k - 1 /\ i + 3 = k /\ i + 4 = k + 1 /\ i + 4 < H
    BY <1>1
  <2> HIDE DEF i
  <2>2. BlankAt(w, i)
    BY <2>1 DEF BlankAt
  <2> QED
    BY <2>1, <2>2 DEF Greets
<1>6. k + 1 = H => 3 <= k /\ c = CR /\ b = LF /\ a = CR /\ v = LF
  <2> SUFFICES ASSUME k + 1 = H PROVE 3 <= k /\ c = CR /\ b = LF /\ a = CR /\ v = LF
    OBVIOUS
  <2> DEFINE i == H - 4
  <2>1. 4 <= H /\ BlankAt(w, i)
    BY DEF Greets
  <2>2. 3 <= k /\ i + 1 = k - 2 /\ i + 2 = k - 1 /\ i + 3 = k /\ i + 4 = k + 1
    BY <1>1, <2>1
  <2> HIDE DEF i
  <2> QED
    BY <2>1, <2>2 DEF BlankAt
<1>7. m \in {0, 1, 2, 3} /\ m \in 0..3
  BY DEF Match
<1>8. /\ v = CR => Matched(0, v) = 1 /\ Matched(1, v) = 1
                      /\ Matched(2, v) = 3 /\ Matched(3, v) = 1
      /\ v = LF => Matched(0, v) = 0 /\ Matched(1, v) = 2
                      /\ Matched(2, v) = 0 /\ Matched(3, v) = 4
      /\ v # CR /\ v # LF => \A j \in 0..3 : Matched(j, v) = 0
  BY MatchedIs
<1>9. /\ m = 3 <=> EndsWith3(w, k)
      /\ m = 2 <=> EndsWith2(w, k) /\ ~EndsWith3(w, k)
      /\ m = 1 <=> EndsWith1(w, k) /\ ~EndsWith2(w, k) /\ ~EndsWith3(w, k)
      /\ m = 0 <=> ~EndsWith1(w, k) /\ ~EndsWith2(w, k) /\ ~EndsWith3(w, k)
  BY DEF Match
<1>10. Match(w, k + 1) = IF EndsWith3(w, k + 1) THEN 3 ELSE IF EndsWith2(w, k + 1) THEN 2
                         ELSE IF EndsWith1(w, k + 1) THEN 1 ELSE 0
  BY DEF Match
<1> HIDE DEF v, m, a, b, c
<1>11. k + 1 = H => Matched(m, v) = 4
  BY <1>3, <1>6, <1>8, <1>9
<1>12. k + 1 < H => Matched(m, v) = Match(w, k + 1)
  <2> SUFFICES ASSUME k + 1 < H PROVE Matched(m, v) = Match(w, k + 1)
    OBVIOUS
  <2>1. CASE v # CR /\ v # LF
    BY <2>1, <1>4, <1>7, <1>8, <1>10
  <2>2. CASE v = CR
    <3>1. Matched(m, v) = IF m = 2 THEN 3 ELSE 1
      BY <2>2, <1>7, <1>8
    <3>2. EndsWith3(w, k + 1) <=> m = 2
      BY <1>1, <1>2, <1>3, <1>4, <1>9, <2>2
    <3>3. ~EndsWith2(w, k + 1) /\ EndsWith1(w, k + 1)
      BY <1>1, <1>4, <2>2
    <3> QED
      BY <3>1, <3>2, <3>3, <1>10
  <2>3. CASE v = LF
    <3>1. m # 3
      BY <1>3, <1>5, <1>9, <2>3
    <3>2. Matched(m, v) = IF m = 1 THEN 2 ELSE 0
      BY <2>3, <3>1, <1>7, <1>8
    <3>3. EndsWith2(w, k + 1) <=> m = 1
      BY <1>1, <1>2, <1>3, <1>4, <1>9, <2>3, <3>1
    <3>4. ~EndsWith3(w, k + 1) /\ ~EndsWith1(w, k + 1)
      BY <1>1, <1>4, <2>3
    <3> QED
      BY <3>2, <3>3, <3>4, <1>10
  <2> QED
    BY <2>1, <2>2, <2>3
<1> QED
  BY <1>7, <1>11, <1>12 DEF m, v

(* What the header of a frame says.                                        *)
LEMMA HeaderSays ==
  ASSUME NEW f, Fitting(f), NEW w, NEW a, FrameAt(w, a, f), NEW STATE h,
         \A j \in 1..Len(h) : h[j] = w[a + j].value, Len(h) \in Nat
  PROVE  /\ Len(h) >= 2 => HeaderNeed(h) = HeadLength(f)
         /\ Len(h) = HeadLength(f) =>
               PayloadLength(h) = Len(f.payload) /\ IsData(h[1] % 16) = IsData(f.opcode)
<1> DEFINE n == Len(f.payload)
           c == LengthCode(f)
           l == Len(h)
           e == IF f.masked THEN 128 ELSE 0
<1>1. f.form \in {7, 16, 64} /\ f.masked \in BOOLEAN /\ f.opcode \in 0..15 /\ n \in Nat
  BY DEF Fitting, Frame
<1>2. /\ HeadLength(f) \in 2..14
      /\ f.form = 16 => HeadLength(f) >= 4
      /\ f.form = 64 => HeadLength(f) >= 10
  BY HeadLengths
<1>3. /\ f.form = 7 => c = n /\ HeadLength(f) = 2 + (IF f.masked THEN 4 ELSE 0)
      /\ f.form = 16 => c = 126 /\ HeadLength(f) = 4 + (IF f.masked THEN 4 ELSE 0)
      /\ f.form = 64 => c = 127 /\ HeadLength(f) = 10 + (IF f.masked THEN 4 ELSE 0)
  <2>1. f.form = 7 => c = n /\ HeadLength(f) = 2 + (IF f.masked THEN 4 ELSE 0)
    BY ByForm, ZenonT(60)
  <2>2. f.form = 16 => c = 126 /\ HeadLength(f) = 4 + (IF f.masked THEN 4 ELSE 0)
    BY ByForm, ZenonT(60)
  <2>3. f.form = 64 => c = 127 /\ HeadLength(f) = 10 + (IF f.masked THEN 4 ELSE 0)
    BY ByForm, ZenonT(60)
  <2> QED
    BY ONLY <2>1, <2>2, <2>3, Zenon
<1>4. f.form = 7 => n < 126
  BY DEF Fitting
<1>5. /\ w[a + 1].value = 128 + f.opcode /\ w[a + 2].value = e + c
      /\ f.form = 16 => 256 * w[a + 3].value + w[a + 4].value = n
      /\ f.form = 64 => 256 * (256 * w[a + 8].value + w[a + 9].value) + w[a + 10].value = n
  BY DEF FrameAt
<1> HIDE DEF n, c, e, l
<1>6. c \in 0..127 /\ (c = 126 <=> f.form = 16) /\ (c = 127 <=> f.form = 64)
  <2>1. CASE f.form = 7
    <3>1. c = n /\ n < 126 /\ n \in Nat /\ f.form # 16 /\ f.form # 64
      BY <1>1, <1>3, <1>4, <2>1
    <3> QED
      BY ONLY <3>1
  <2>2. CASE f.form = 16
    <3>1. c = 126 /\ f.form = 16 /\ f.form # 64
      BY <1>3, <2>2
    <3> QED
      BY ONLY <3>1
  <2>3. CASE f.form = 64
    <3>1. c = 127 /\ f.form = 64 /\ f.form # 16
      BY <1>3, <2>3
    <3> QED
      BY ONLY <3>1
  <2> QED
    BY <1>1, <2>1, <2>2, <2>3
<1>7. ASSUME l >= 2 PROVE h[2] % 128 = c /\ (h[2] \div 128 = 1 <=> f.masked)
  <2>1. h[2] = e + c
    BY <1>5, <1>7 DEF l
  <2>4. /\ (128 + c) % 128 = c /\ (128 + c) \div 128 = 1
        /\ (0 + c) % 128 = c /\ (0 + c) \div 128 = 0
    <3>1. c \in 0..127
      BY <1>6
    <3> QED
      BY ONLY <3>1
  <2>2. CASE f.masked
    <3>1. e = 128
      BY <2>2 DEF e
    <3> QED
      BY <2>1, <2>2, <2>4, <3>1
  <2>3. CASE ~f.masked
    <3>1. e = 0
      BY <2>3 DEF e
    <3> QED
      BY <2>1, <2>3, <2>4, <3>1
  <2> QED
    BY <2>2, <2>3
<1>8. ASSUME l >= 2 PROVE HeaderNeed(h) = HeadLength(f)
  <2>0. 126 # 127
    OBVIOUS
  <2> DEFINE r == h[2] % 128
             x == CASE r = 126 -> 2 [] r = 127 -> 8 [] OTHER -> 0
             y == IF h[2] \div 128 = 1 THEN 4 ELSE 0
  <2>1. r = c /\ y = IF f.masked THEN 4 ELSE 0
    BY <1>7, <1>8
  <2>5. HeaderNeed(h) = 2 + x + y
    BY DEF HeaderNeed
  <2> HIDE DEF r, y
  <2>2. x = IF f.form = 16 THEN 2 ELSE IF f.form = 64 THEN 8 ELSE 0
    <3>1. CASE f.form = 16
      BY <3>1, <1>6, <2>0, <2>1
    <3>2. CASE f.form = 64
      <4>1. 64 # 16
        OBVIOUS
      <4> QED
        BY <3>2, <4>1, <1>6, <2>0, <2>1
    <3>3. CASE f.form # 16 /\ f.form # 64
      BY <3>3, <1>6, <2>0, <2>1
    <3> QED
      BY <3>1, <3>2, <3>3
  <2> HIDE DEF x
  <2> QED
    BY <1>1, <1>3, <2>1, <2>2, <2>5
<1>9. ASSUME l = HeadLength(f) PROVE PayloadLength(h) = n
  <2>1. h[2] % 128 = c /\ \A j \in 1..l : h[j] = w[a + j].value
    BY <1>2, <1>7, <1>9 DEF l
  <2>2. CASE f.form = 7
    <3>1. c # 126 /\ c # 127 /\ c = n
      BY <1>6, <1>3, <2>2
    <3> QED
      BY <2>1, <3>1 DEF PayloadLength
  <2>3. CASE f.form = 16
    <3>1. c = 126 /\ h[3] = w[a + 3].value /\ h[4] = w[a + 4].value
      BY <1>2, <1>6, <1>9, <2>1, <2>3
    <3>2. PayloadLength(h) = 256 * h[3] + h[4]
      BY <2>1, <3>1 DEF PayloadLength
    <3> QED
      BY <1>5, <2>3, <3>1, <3>2
  <2>4. CASE f.form = 64
    <3>1. c = 127 /\ h[8] = w[a + 8].value /\ h[9] = w[a + 9].value /\ h[10] = w[a + 10].value
      BY <1>2, <1>6, <1>9, <2>1, <2>4
    <3>2. PayloadLength(h) = 256 * (256 * h[8] + h[9]) + h[10]
      <4>1. h[2] % 128 # 126 /\ h[2] % 128 = 127
        BY <2>1, <3>1
      <4> QED
        BY <4>1, Zenon DEF PayloadLength
    <3> QED
      BY <1>5, <2>4, <3>1, <3>2, SMTT(60)
  <2> QED
    BY <1>1, <2>2, <2>3, <2>4
<1>10. ASSUME l = HeadLength(f) PROVE IsData(h[1] % 16) = IsData(f.opcode)
  <2>1. h[1] = 128 + f.opcode
    BY <1>2, <1>5, <1>10 DEF l
  <2>2. (128 + f.opcode) % 16 = f.opcode
    BY <1>1, SMTT(60)
  <2> QED
    BY <2>1, <2>2
<1> QED
  BY <1>8, <1>9, <1>10 DEF l, n

(* The fields of outputObservingConn.                                      *)
Connection == [match: 0..4, upgraded: BOOLEAN, header: Seq(0..255), need: 0..14,
               payload: Nat, dataFrame: BOOLEAN]

(* k is in the header of frame i, or in front of it: the observer holds    *)
(* the bytes since the frame began, and the length the header has.         *)
BetweenFrames(c, w, fs, b, k, i) ==
    /\ c.payload = 0 /\ k = b[i] + Len(c.header)
    /\ \A j \in 1..Len(c.header) : c.header[j] = w[b[i] + j].value
    /\ \/ c.need = 0 /\ Len(c.header) = 0
       \/ i <= Len(fs) /\ c.need = 2 /\ Len(c.header) = 1
       \/ /\ i <= Len(fs) /\ c.need = HeadLength(fs[i])
          /\ 2 <= Len(c.header) /\ Len(c.header) < c.need

(* k is in the payload of frame i, payload bytes before its end.           *)
InFrame(c, fs, b, k, i) ==
    /\ i <= Len(fs) /\ 1 <= c.payload /\ c.payload <= Len(fs[i].payload)
    /\ k + c.payload = b[i + 1]
    /\ c.dataFrame = IsData(fs[i].opcode) /\ Len(c.header) <= 14

(* What the fields say about the k bytes inspected.                        *)
Position(c, w, H, fs, b, k) ==
    /\ ~c.upgraded => /\ k < H /\ c.match = Match(w, k)
                      /\ c.header = <<>> /\ c.need = 0 /\ c.payload = 0
    /\ c.upgraded => \E i \in 1..Len(fs) + 1 :
                        BetweenFrames(c, w, fs, b, k, i) \/ InFrame(c, fs, b, k, i)

(* w is a response header of H bytes and the frames fs.                    *)
Response(w, H, fs, b) ==
    /\ Greets(w, H) /\ Lays(w, fs, b) /\ b[1] = H
    /\ Len(fs) \in Nat /\ \A i \in 1..Len(fs) : Fitting(fs[i])

(* There is a response, and a position in it, that explain all variables:  *)
(* observed counts the data before the position, carried the data read.    *)
ObserverInv ==
    \E w, H, fs, b, k :
      /\ Response(w, H, fs, b) /\ Cut(w, k, buffer, wire)
      /\ conn \in Connection /\ Position(conn, w, H, fs, b, k)
      /\ observed = DataIn(w, k) /\ carried = DataIn(w, k + Len(buffer))

(* Where a frame lies.                                                     *)
LEMMA FrameIn ==
  ASSUME NEW w, NEW H, NEW fs, NEW b, Response(w, H, fs, b), NEW i \in 1..Len(fs)
  PROVE  /\ Fitting(fs[i]) /\ FrameAt(w, b[i], fs[i])
         /\ b[i] \in Nat /\ b[i + 1] \in Nat /\ Len(w) \in Nat
         /\ HeadLength(fs[i]) \in 2..14 /\ Len(fs[i].payload) \in Nat
         /\ b[i + 1] = b[i] + HeadLength(fs[i]) + Len(fs[i].payload)
         /\ b[i + 1] <= Len(w) /\ i + 1 \in 1..Len(fs) + 1
<1>1. Len(fs) \in Nat /\ Fitting(fs[i]) /\ Lays(w, fs, b)
  BY DEF Response
<1>2. i \in 1..Len(fs) + 1 /\ i + 1 \in 1..Len(fs) + 1
  BY <1>1
<1>3. b \in [1..Len(fs) + 1 -> Nat] /\ w \in Seq(WireByte)
  BY <1>1 DEF Lays
<1>4. b[i] \in Nat /\ b[i + 1] \in Nat /\ Len(w) \in Nat
  BY <1>2, <1>3
<1>5. /\ b[i + 1] = b[i] + HeadLength(fs[i]) + Len(fs[i].payload)
      /\ b[i + 1] <= Len(w) /\ FrameAt(w, b[i], fs[i])
  BY <1>1 DEF Lays
<1>6. HeadLength(fs[i]) \in 2..14
  BY <1>1, HeadLengths
<1>7. Len(fs[i].payload) \in Nat
  BY <1>1 DEF Fitting, Frame
<1> QED
  BY <1>1, <1>2, <1>4, <1>5, <1>6, <1>7

(* With nothing left to inspect the two counts are of the same bytes.      *)
LEMMA ObserverInvExact == ObserverInv => ObserverExact
<1> SUFFICES ASSUME ObserverInv PROVE ObserverExact
  OBVIOUS
<1>1. PICK w, H, fs, b, k :
        /\ Response(w, H, fs, b) /\ Cut(w, k, buffer, wire)
        /\ conn \in Connection /\ Position(conn, w, H, fs, b, k)
        /\ observed = DataIn(w, k) /\ carried = DataIn(w, k + Len(buffer))
  BY DEF ObserverInv
<1>2. k \in Nat /\ buffer \in Seq(WireByte) /\ Len(buffer) \in Nat
  BY <1>1 DEF Cut
<1>3. observed \in Nat /\ carried \in Nat
  <2>1. k + Len(buffer) \in Nat
    BY <1>2
  <2> QED
    BY <1>1, <1>2, <2>1, DataStep
<1>4. CountsDataExactly
  <2>1. Len(<<>>) = 0 /\ k + 0 = k
    BY <1>2
  <2> QED
    BY <1>1, <2>1 DEF CountsDataExactly
<1> DEFINE l == Len(conn.header)
<1>5. conn.header \in Seq(0..255) /\ l \in Nat /\ conn.need \in 0..14 /\ conn.payload \in Nat
      /\ conn.match \in 0..4 /\ conn.upgraded \in BOOLEAN /\ conn.dataFrame \in BOOLEAN
  BY <1>1 DEF Connection
<1>6. /\ l <= 14
      /\ conn.upgraded /\ conn.payload = 0 => l < (IF conn.need = 0 THEN 2 ELSE conn.need)
  <2>1. CASE ~conn.upgraded
    <3>1. conn.header = <<>>
      BY <1>1, <2>1 DEF Position
    <3> QED
      BY <2>1, <3>1
  <2>2. CASE conn.upgraded
    <3>1. PICK i \in 1..Len(fs) + 1 :
            BetweenFrames(conn, w, fs, b, k, i) \/ InFrame(conn, fs, b, k, i)
      BY <1>1, <2>2 DEF Position
    <3>2. CASE BetweenFrames(conn, w, fs, b, k, i)
      <4>1. \/ conn.need = 0 /\ l = 0
            \/ conn.need = 2 /\ l = 1
            \/ l < conn.need /\ 2 <= l
        BY <3>2 DEF BetweenFrames
      <4> HIDE DEF l
      <4> QED
        BY ONLY <1>5, <4>1, SMTT(60)
    <3>3. CASE InFrame(conn, fs, b, k, i)
      <4>1. 1 <= conn.payload /\ l <= 14
        BY <3>3 DEF InFrame
      <4> HIDE DEF l
      <4> QED
        BY <4>1
    <3> QED
      BY <3>1, <3>2, <3>3
  <2> QED
    BY <1>5, <2>1, <2>2
<1>7. IterationConsumes
  BY <1>6 DEF IterationConsumes
<1>8. ObserverTypeOK
  <2>1. Len(HeaderEnd) = 4
    BY DEF HeaderEnd
  <2> QED
    BY <1>3, <1>5, <1>6, <2>1 DEF ObserverTypeOK, HeaderCapacity
<1> QED
  BY <1>4, <1>7, <1>8 DEF ObserverExact

(* The response that ttyd is about to send, with nothing read.             *)
LEMMA ObserverStart == ObserverInit => ObserverInv
<1> SUFFICES ASSUME ObserverInit PROVE ObserverInv
  OBVIOUS
<1>1. PICK pre \in Preambles, fs \in Frames : wire = Plain(pre \o HeaderEnd) \o Stream(fs)
  BY DEF ObserverInit
<1> DEFINE p == pre \o HeaderEnd
           h == Plain(p)
           t == Stream(fs)
           w == h \o t
           H == Len(p)
           n == Len(pre)
<1>2. pre \in Seq(0..255) /\ n \in Nat /\ fs \in Seq(Frame) /\ Len(fs) \in Nat
  BY ObserverAssumption
<1>3. \A i \in 1..Len(fs) : Fitting(fs[i])
  <2> SUFFICES ASSUME NEW i \in 1..Len(fs) PROVE Fitting(fs[i])
    OBVIOUS
  <2>1. fs[i] \in Frame /\ i \in DOMAIN fs
    BY <1>2, ElementOfSeq
  <2> QED
    BY <2>1, ObserverAssumption DEF Fitting
<1>4. HeaderEnd \in Seq(0..255) /\ Len(HeaderEnd) = 4 /\ HeaderEnd[1] = CR /\ HeaderEnd[2] = LF
      /\ HeaderEnd[3] = CR /\ HeaderEnd[4] = LF
  BY DEF HeaderEnd, CR, LF
<1>5. p \in Seq(0..255) /\ H = n + 4 /\ \A i \in 1..4 : p[n + i] = HeaderEnd[i]
  <2> DEFINE S == 0..255
  <2>0. pre \in Seq(S) /\ HeaderEnd \in Seq(S)
    BY <1>2, <1>4
  <2> HIDE DEF S
  <2>1. p \in Seq(S) /\ H = n + Len(HeaderEnd)
        /\ \A i \in 1..Len(HeaderEnd) : p[n + i] = HeaderEnd[i]
    BY ONLY <2>0, Concat2
  <2> USE DEF S
  <2> QED
    BY <1>4, <2>1
<1>6. \A i \in 1..n : SubSeq(p, i, i + 3) # HeaderEnd
  BY ObserverAssumption
<1> HIDE DEF p
<1>7. /\ h \in Seq(WireByte) /\ Len(h) = H /\ H \in Nat
      /\ \A i \in 1..H : h[i] = [value |-> p[i], data |-> FALSE]
  BY <1>5, PlainIs
<1> HIDE DEF h
<1>8. t \in Seq(WireByte) /\ \E b : Lays(w, fs, b) /\ b[1] = Len(h)
  BY <1>2, <1>3, <1>7, StreamLays
<1>9. PICK b : Lays(w, fs, b) /\ b[1] = Len(h)
  BY <1>8
<1>10. H <= Len(w) /\ w \in Seq(WireByte) /\ \A i \in 1..H : w[i].value = p[i] /\ w[i].data = FALSE
  <2> HIDE DEF t
  <2>0. h \in Seq(WireByte) /\ t \in Seq(WireByte)
    BY <1>7, <1>8
  <2>1. /\ w \in Seq(WireByte) /\ Len(w) = Len(h) + Len(t)
        /\ \A i \in 1..Len(h) : w[i] = h[i]
    BY ONLY <2>0, Concat2
  <2>2. Len(t) \in Nat
    BY <1>8
  <2> HIDE DEF w, H
  <2>3. H <= Len(w)
    BY <1>7, <2>1, <2>2
  <2> QED
    BY <1>7, <2>1, <2>3
<1> HIDE DEF w
<1>11. Greets(w, H)
  <2>1. 4 <= H /\ H - 4 = n
    BY <1>2, <1>5
  <2>2. \A i \in 1..4 : w[n + i].value = HeaderEnd[i]
    <3>1. \A i \in 1..4 : n + i \in 1..H
      BY <1>2, <1>5
    <3> QED
      BY ONLY <1>5, <1>10, <3>1
  <2>3. BlankAt(w, n)
    BY <1>4, <2>2 DEF BlankAt
  <2>4. ASSUME NEW i \in Nat, i + 4 < H, BlankAt(w, i) PROVE FALSE
    <3>1. i + 1 \in 1..n
      BY <1>2, <1>5, <2>4
    <3>2. i + 1 \in 1..H /\ i + 2 \in 1..H /\ i + 3 \in 1..H /\ i + 4 \in 1..H
      BY <1>2, <1>5, <2>4
    <3>3. p[i + 1] = CR /\ p[i + 2] = LF /\ p[i + 3] = CR /\ p[i + 4] = LF
      <4>1. /\ w[i + 1].value = p[i + 1] /\ w[i + 2].value = p[i + 2]
            /\ w[i + 3].value = p[i + 3] /\ w[i + 4].value = p[i + 4]
        BY ONLY <1>10, <3>2
      <4> QED
        BY ONLY <4>1, <2>4 DEF BlankAt
    <3> DEFINE s == SubSeq(p, i + 1, (i + 1) + 3)
               a == i + 1
    <3>4. \A j \in a..a + 3 : p[j] \in 0..255
      <4>1. \A j \in a..a + 3 : j \in 1..Len(p)
        BY <1>2, <1>5, <2>4
      <4> QED
        BY ONLY <1>5, <4>1, ElementOfSeq, ZenonT(60)
    <3>5. a \in Int /\ a + 3 \in Int
      OBVIOUS
    <3>9. i + 1 = a /\ i + 2 = a + 1 /\ i + 3 = a + 2 /\ i + 4 = a + 3
      OBVIOUS
    <3>6. /\ s \in Seq(0..255) /\ Len(s) = IF a <= a + 3 THEN (a + 3) - a + 1 ELSE 0
          /\ \A j \in 1..(a + 3) - a + 1 : s[j] = p[a + j - 1]
      <4> HIDE DEF a
      <4> QED
        BY <3>4, <3>5, SubSeqProperties, <3>9
    <3> HIDE DEF s, a
    <3>7. Len(s) = 4 /\ \A j \in 1..4 : s[j] = p[a + j - 1]
      BY <3>5, <3>6
    <3>8. s[1] = CR /\ s[2] = LF /\ s[3] = CR /\ s[4] = LF
      <4>1. a + 1 - 1 = a /\ a + 2 - 1 = a + 1 /\ a + 3 - 1 = a + 2 /\ a + 4 - 1 = a + 3
        BY <3>5
      <4> QED
        BY <3>3, <3>7, <3>9, <4>1
    <3>10. s = HeaderEnd
      <4>1. s = <<s[1], s[2], s[3], s[4]>>
        BY <3>6, <3>7
      <4> QED
        BY <3>8, <4>1 DEF HeaderEnd
    <3> QED
      BY <1>6, <3>1, <3>10 DEF s
  <2> QED
    BY <1>7, <1>10, <2>1, <2>3, <2>4 DEF Greets
<1>12. buffer = <<>> /\ conn = NewConn /\ observed = 0 /\ carried = 0 /\ wire = w
  BY <1>1 DEF ObserverInit, w, h, p
<1>13. Cut(w, 0, buffer, wire)
  <2>1. buffer \in Seq(WireByte) /\ Len(buffer) = 0 /\ Len(w) \in Nat
    BY <1>10, <1>12
  <2>2. 0 + 0 + Len(w) = Len(w) /\ \A j \in 1..Len(w) : 0 + 0 + j = j
    BY <2>1
  <2> QED
    BY <1>10, <1>12, <2>1, <2>2 DEF Cut
<1>14. conn \in Connection /\ Position(conn, w, H, fs, b, 0)
  <2>1. 0 < H
    BY <1>2, <1>5
  <2>2. Match(w, 0) = 0
    BY DEF Match, EndsWith1, EndsWith2, EndsWith3
  <2>3. <<>> \in Seq(0..255)
    OBVIOUS
  <2> QED
    BY <1>12, <2>1, <2>2, <2>3 DEF NewConn, Connection, Position
<1>15. observed = DataIn(w, 0) /\ carried = DataIn(w, 0 + Len(buffer))
  <2>1. Len(buffer) = 0 /\ 0 + 0 = 0
    BY <1>12
  <2> QED
    BY <1>12, <2>1, DataStep
<1>16. Response(w, H, fs, b)
  BY <1>2, <1>3, <1>7, <1>9, <1>11 DEF Response
<1> QED
  BY <1>13, <1>14, <1>15, <1>16 DEF ObserverInv

(* The record at the end of a payload.                                     *)
LEMMA ConnPayload ==
  ASSUME NEW STATE c, c \in Connection,
         NEW STATE r, r = [c EXCEPT !.payload = 0, !.header = <<>>, !.need = 0]
  PROVE  /\ r \in Connection /\ r.header = <<>> /\ r.need = 0 /\ r.payload = 0
         /\ r.upgraded = c.upgraded
         /\ Len(<<>>) = 0
<1> DEFINE Q == Seq(0..255)
           A == 0..4
           N == 0..14
           h == <<>>
           C == [match: A, upgraded: BOOLEAN, header: Q, need: N, payload: Nat, dataFrame: BOOLEAN]
<1>1. Connection = C /\ c \in C /\ h \in Q /\ 0 \in N
  BY DEF Connection
<1>2. Len(<<>>) = 0
  OBVIOUS
<1>3. r = [c EXCEPT !.payload = 0, !.header = h, !.need = 0]
  OBVIOUS
<1> HIDE DEF Q, A, N, h
<1>4. /\ r \in Connection /\ r.header = h /\ r.need = 0 /\ r.payload = 0
      /\ r.upgraded = c.upgraded
  BY ONLY <1>1, <1>3
<1> QED
  BY ONLY <1>2, <1>4 DEF h

(* The names of InspectFrameHeader, and the connection it leaves.          *)
HeaderTaken(need, taken, header, whole, next) ==
    /\ need = IF conn.need = 0 THEN 2 ELSE conn.need
    /\ taken = Smaller(Len(buffer), need - Len(conn.header))
    /\ header = conn.header \o Values(SubSeq(buffer, 1, taken))
    /\ whole = IF need = 2 /\ Len(header) = 2 THEN HeaderNeed(header) ELSE need
    /\ next = IF Len(header) < whole
              THEN [conn EXCEPT !.header = header, !.need = whole]
              ELSE BeginFrame(header)

(* inspectFrames at a header: what it takes is header, and either the      *)
(* header stays short of what it needs or it is the header of the frame.   *)
LEMMA HeaderKeeps ==
  ASSUME NEW w, NEW H, NEW fs, NEW b, NEW k,
         Response(w, H, fs, b), Cut(w, k, buffer, wire),
         conn \in Connection, Position(conn, w, H, fs, b, k),
         buffer # <<>>, conn.upgraded, conn.payload = 0,
         NEW STATE need, NEW STATE taken, NEW STATE header, NEW STATE whole, NEW STATE next,
         HeaderTaken(need, taken, header, whole, next)
  PROVE  /\ taken \in 0..Len(buffer) /\ DataIn(w, k + taken) = DataIn(w, k)
         /\ next \in Connection /\ Position(next, w, H, fs, b, k + taken)
<1>0. /\ need = IF conn.need = 0 THEN 2 ELSE conn.need
      /\ taken = Smaller(Len(buffer), need - Len(conn.header))
      /\ header = conn.header \o Values(SubSeq(buffer, 1, taken))
      /\ whole = IF need = 2 /\ Len(header) = 2 THEN HeaderNeed(header) ELSE need
      /\ next = IF Len(header) < whole
                THEN [conn EXCEPT !.header = header, !.need = whole]
                ELSE BeginFrame(header)
  BY DEF HeaderTaken
<1> DEFINE old == conn.header
           l == Len(old)
           v == Len(buffer)
<1>1. /\ buffer \in Seq(WireByte) /\ v \in Nat /\ v >= 1 /\ k \in Nat /\ Len(wire) \in Nat
      /\ k + v + Len(wire) = Len(w)
      /\ \A j \in 1..v : buffer[j] = w[k + j]
  BY DEF Cut
<1>2. /\ old \in Seq(0..255) /\ l \in Nat /\ conn.need \in 0..14 /\ conn.match \in 0..4
      /\ conn.dataFrame \in BOOLEAN
  BY DEF Connection
<1>3. PICK i \in 1..Len(fs) + 1 : BetweenFrames(conn, w, fs, b, k, i)
  <2>1. \A i \in 1..Len(fs) + 1 : ~InFrame(conn, fs, b, k, i)
    BY DEF InFrame
  <2> QED
    BY <2>1 DEF Position
<1>4. i \in 1..Len(fs)
  <2>1. Len(fs) \in Nat /\ b[Len(fs) + 1] = Len(w) /\ Len(w) \in Nat
    BY DEF Response, Lays
  <2>2. SUFFICES ASSUME ~(i <= Len(fs)) PROVE FALSE
    BY <2>1
  <2>3. i = Len(fs) + 1 /\ l = 0 /\ k = b[i] + l
    BY <1>3, <2>1, <2>2 DEF BetweenFrames
  <2>4. k = Len(w)
    BY <2>1, <2>3
  <2> QED
    BY <1>1, <2>1, <2>4
<1> DEFINE f == fs[i]
           a == b[i]
           z == HeadLength(f)
           n == Len(f.payload)
<1>5. /\ Fitting(f) /\ FrameAt(w, a, f) /\ a \in Nat /\ z \in 2..14 /\ n \in Nat
      /\ b[i + 1] = a + z + n /\ i + 1 \in 1..Len(fs) + 1 /\ i <= Len(fs)
  BY <1>4, FrameIn
<1>6. /\ k = a + l
      /\ \A j \in 1..l : old[j] = w[a + j].value
      /\ \/ conn.need = 0 /\ l = 0
         \/ conn.need = 2 /\ l = 1
         \/ conn.need = z /\ 2 <= l /\ l < z
  BY <1>3 DEF BetweenFrames
<1> HIDE DEF old, l, v, f, a, z, n
<1>7. \/ need = 2 /\ l < 2
      \/ need = z /\ need # 2 /\ 2 <= l /\ l < z
  <2>1. need = IF conn.need = 0 THEN 2 ELSE conn.need
    BY <1>0
  <2> QED
    BY ONLY <1>2, <1>5, <1>6, <2>1, SMTT(60)
<1>8. taken = IF v <= need - l THEN v ELSE need - l
  BY <1>0 DEF Smaller, l, v, old
<1>9. /\ taken \in Nat /\ taken \in 1..v /\ taken \in 0..v /\ l + taken <= need /\ need <= z
      /\ l + taken <= z /\ need \in 2..14
  <2>0. z \in 2..14 /\ l \in Nat
    BY ONLY <1>2, <1>5
  <2>1. need \in 2..14 /\ need <= z /\ l < need /\ l \in Nat
    BY ONLY <1>7, <2>0
  <2>2. taken \in Nat /\ taken \in 1..v /\ taken \in 0..v /\ l + taken <= need
    BY ONLY <1>1, <1>8, <2>1
  <2>3. l + taken <= z
    BY ONLY <1>5, <2>1, <2>2
  <2> QED
    BY ONLY <2>1, <2>2, <2>3
<1>10. /\ header \in Seq(0..255) /\ Len(header) = l + taken
       /\ \A j \in 1..l + taken : header[j] = w[a + j].value
  <2> DEFINE s == SubSeq(buffer, 1, taken)
             u == Values(s)
  <2>1. s \in Seq(WireByte) /\ Len(s) = taken /\ \A j \in 1..taken : s[j] = buffer[j]
    <3>1. buffer \in Seq(WireByte) /\ taken \in 0..Len(buffer)
      BY <1>1, <1>9 DEF v
    <3> QED
      BY ONLY <3>1, Halves
  <2> HIDE DEF s
  <2>2. u \in Seq(0..255) /\ Len(u) = taken /\ \A j \in 1..taken : u[j] = s[j].value
    <3>1. DOMAIN s = 1..taken
      BY <2>1
    <3>2. u = [j \in 1..taken |-> s[j].value]
      BY <3>1 DEF Values
    <3>3. \A j \in 1..taken : s[j].value \in 0..255
      <4>1. \A j \in 1..taken : s[j] \in WireByte
        BY <2>1, ElementOfSeq
      <4> QED
        BY <4>1 DEF WireByte
    <3> HIDE DEF u
    <3>4. u \in [1..taken -> 0..255] /\ \A j \in 1..taken : u[j] = s[j].value
      BY ONLY <3>2, <3>3
    <3>5. taken \in Nat
      BY <1>9
    <3>6. u \in Seq(0..255) /\ Len(u) = taken
      BY ONLY <3>4, <3>5, SMTT(60)
    <3> QED
      BY <3>4, <3>6
  <2> HIDE DEF u
  <2>3. header = old \o u
    BY <1>0 DEF old, u, s
  <2>4. /\ header \in Seq(0..255) /\ Len(header) = l + Len(u)
        /\ \A j \in 1..l : header[j] = old[j]
        /\ \A j \in 1..Len(u) : header[l + j] = u[j]
    <3> DEFINE S == 0..255
    <3>1. old \in Seq(S) /\ u \in Seq(S)
      BY <1>2, <2>2
    <3> HIDE DEF S
    <3>2. /\ old \o u \in Seq(S) /\ Len(old \o u) = Len(old) + Len(u)
          /\ \A j \in 1..Len(old) : (old \o u)[j] = old[j]
          /\ \A j \in 1..Len(u) : (old \o u)[Len(old) + j] = u[j]
      BY ONLY <3>1, Concat2
    <3> QED
      BY <2>3, <3>2 DEF l, S
  <2>5. ASSUME NEW j \in 1..l + taken PROVE header[j] = w[a + j].value
    <3>1. CASE j <= l
      <4>1. j \in 1..l
        BY <1>2, <1>9, <3>1
      <4> QED
        BY ONLY <1>6, <2>4, <4>1
    <3>2. CASE ~(j <= l)
      <4> DEFINE x == j - l
      <4>1. x \in 1..taken /\ l + x = j /\ x \in 1..v /\ k + x = a + j
        BY ONLY <1>1, <1>2, <1>5, <1>6, <1>9, <3>2, j \in 1..l + taken DEF x
      <4> HIDE DEF x
      <4>2. header[l + x] = u[x] /\ u[x] = s[x].value /\ s[x] = buffer[x]
        BY <2>1, <2>2, <2>4, <4>1
      <4>3. buffer[x] = w[k + x]
        BY <1>1, <4>1
      <4> QED
        BY <4>1, <4>2, <4>3
    <3> QED
      BY <3>1, <3>2
  <2> QED
    BY <2>2, <2>4, <2>5
<1>11. DataIn(w, k + taken) = DataIn(w, k)
  <2>1. \A j \in 1..taken : w[k + j].data = FALSE
    <3> SUFFICES ASSUME NEW j \in 1..taken PROVE w[k + j].data = FALSE
      OBVIOUS
    <3>1. l + j \in 1..z /\ a + (l + j) = k + j
      BY ONLY <1>2, <1>5, <1>6, <1>9, j \in 1..taken
    <3>2. w[a + (l + j)].data = FALSE
      BY <1>5, <3>1 DEF FrameAt, z
    <3> QED
      BY <3>1, <3>2
  <2> QED
    BY ONLY <1>1, <1>9, <2>1, FALSE \in BOOLEAN, DataOfEven
<1>12. /\ Len(header) >= 2 => HeaderNeed(header) = z
       /\ Len(header) = z => PayloadLength(header) = n /\ IsData(header[1] % 16) = IsData(f.opcode)
  <2>1. Len(header) \in Nat /\ \A j \in 1..Len(header) : header[j] = w[a + j].value
    BY ONLY <1>2, <1>9, <1>10
  <2> QED
    <3>1. Fitting(f) /\ FrameAt(w, a, f)
      BY ONLY <1>5
    <3>2. /\ Len(header) >= 2 => HeaderNeed(header) = HeadLength(f)
          /\ Len(header) = HeadLength(f) =>
                PayloadLength(header) = Len(f.payload) /\ IsData(header[1] % 16) = IsData(f.opcode)
      BY ONLY <2>1, <3>1, HeaderSays
    <3> QED
      BY ONLY <3>2 DEF z, n
<1> DEFINE m == Len(header)
<1>13. m = l + taken /\ m \in Nat /\ m <= need /\ k + taken = a + m /\ k + taken \in Nat /\ m >= 1
  BY ONLY <1>1, <1>2, <1>5, <1>6, <1>9, <1>10
<1>17. m >= 2 => HeaderNeed(header) = z
  BY <1>12
<1> HIDE DEF m
<1>18. whole = IF need = 2 /\ m = 2 THEN HeaderNeed(header) ELSE need
  BY <1>0 DEF m
<1>14. CASE m < whole
  <2>1. next = [conn EXCEPT !.header = header, !.need = whole]
    BY <1>0, <1>14 DEF m
  <2>2. (whole = 2 /\ m = 1) \/ (whole = z /\ 2 <= m /\ m < whole)
    <3>1. CASE need = 2 /\ m = 2
      BY <1>13, <1>14, <1>17, <1>18, <3>1
    <3>2. CASE need = 2 /\ m # 2
      BY ONLY <1>13, <1>14, <1>18, <3>2
    <3>3. CASE need # 2
      BY <1>2, <1>7, <1>9, <1>13, <1>14, <1>18, <3>3
    <3> QED
      BY <3>1, <3>2, <3>3
  <2>3. whole \in 0..14
    BY ONLY <1>5, <2>2, SMTT(60)
  <2>4. next \in Connection /\ next.header = header /\ next.need = whole /\ next.payload = 0
        /\ next.upgraded
    <3>1. conn \in Connection /\ header \in Seq(0..255) /\ conn.upgraded /\ conn.payload = 0
      BY <1>10
    <3> DEFINE Q == Seq(0..255)
               A == 0..4
               N == 0..14
               C == [match: A, upgraded: BOOLEAN, header: Q, need: N, payload: Nat,
                     dataFrame: BOOLEAN]
    <3>2. Connection = C /\ conn \in C /\ header \in Q /\ whole \in N
      BY ONLY <3>1, <2>3 DEF Connection
    <3> HIDE DEF Q, A, N
    <3> QED
      BY ONLY <2>1, <3>1, <3>2
  <2>5. BetweenFrames(next, w, fs, b, k + taken, i)
    <3>1. /\ next.payload = 0 /\ k + taken = b[i] + m
          /\ \A j \in 1..m : header[j] = w[b[i] + j].value
      BY <1>10, <1>13, <2>4 DEF a
    <3>2. \/ i <= Len(fs) /\ whole = 2 /\ m = 1
          \/ i <= Len(fs) /\ whole = HeadLength(fs[i]) /\ 2 <= m /\ m < whole
      BY <1>5, <2>2 DEF z, f
    <3> QED
      BY ONLY <2>4, <3>1, <3>2 DEF BetweenFrames, m
  <2> QED
    BY <1>9, <1>11, <2>4, <2>5 DEF Position, v
<1>15. CASE ~(m < whole)
  <2>1. next = BeginFrame(header)
    BY <1>0, <1>15 DEF m
  <2>2. m = z
    <3>1. CASE need = 2 /\ m = 2
      BY ONLY <1>5, <1>13, <1>15, <1>17, <1>18, <3>1
    <3>2. CASE need = 2 /\ m # 2
      BY ONLY <1>13, <1>15, <1>18, <3>2
    <3>3. CASE need # 2
      BY ONLY <1>5, <1>7, <1>13, <1>15, <1>18, <3>3, <1>9
    <3> QED
      BY <3>1, <3>2, <3>3
  <2>3. PayloadLength(header) = n /\ IsData(header[1] % 16) = IsData(f.opcode)
    BY <1>12, <2>2 DEF m
  <2>4. next = [conn EXCEPT !.header = IF n = 0 THEN <<>> ELSE header,
                            !.need = IF n = 0 THEN 0 ELSE m,
                            !.payload = n, !.dataFrame = IsData(f.opcode)]
    BY <2>1, <2>3 DEF BeginFrame, m
  <2>5. IsData(f.opcode) \in BOOLEAN /\ m \in 0..14 /\ <<>> \in Seq(0..255)
    BY <1>5, <2>2 DEF IsData
  <2>6. /\ next \in Connection /\ next.upgraded /\ next.payload = n
        /\ next.dataFrame = IsData(f.opcode)
        /\ next.header = IF n = 0 THEN <<>> ELSE header
        /\ next.need = IF n = 0 THEN 0 ELSE m
    <3> DEFINE h == IF n = 0 THEN <<>> ELSE header
               o == IF n = 0 THEN 0 ELSE m
               d == IsData(f.opcode)
    <3>1. h \in Seq(0..255) /\ o \in 0..14 /\ d \in BOOLEAN /\ n \in Nat
      BY ONLY <1>5, <1>10, <2>5
    <3>2. next = [conn EXCEPT !.header = h, !.need = o, !.payload = n, !.dataFrame = d]
      BY ONLY <2>4
    <3> HIDE DEF h, o, d
    <3>3. /\ next \in Connection /\ next.upgraded /\ next.payload = n
          /\ next.dataFrame = d /\ next.header = h /\ next.need = o
      <4> DEFINE Q == Seq(0..255)
                 A == 0..4
                 N == 0..14
                 C == [match: A, upgraded: BOOLEAN, header: Q, need: N, payload: Nat,
                       dataFrame: BOOLEAN]
      <4>1. Connection = C /\ conn \in C /\ h \in Q /\ o \in N
        BY ONLY <3>1, conn \in Connection DEF Connection
      <4> HIDE DEF Q, A, N
      <4> QED
        BY ONLY <3>1, <3>2, <4>1, conn.upgraded
    <3> QED
      BY ONLY <3>3 DEF h, o, d
  <2>7. CASE n = 0
    <3>1. next.header = <<>> /\ next.need = 0 /\ next.payload = 0 /\ Len(<<>>) = 0
      BY <2>6, <2>7
    <3>2. k + taken = b[i + 1] + 0
      BY <1>5, <1>13, <2>2, <2>7
    <3>3. BetweenFrames(next, w, fs, b, k + taken, i + 1)
      BY ONLY <3>1, <3>2 DEF BetweenFrames
    <3> QED
      BY <1>5, <1>9, <1>11, <2>6, <3>3 DEF Position, v
  <2>8. CASE n # 0
    <3>1. next.header = header /\ next.payload = n
      BY <2>6, <2>8
    <3>2. 1 <= n /\ n <= n /\ (k + taken) + n = b[i + 1] /\ m <= 14
      BY ONLY <1>5, <1>13, <2>2, <2>8, SMTT(60)
    <3>3. InFrame(next, fs, b, k + taken, i)
      BY <1>5, <2>6, <3>1, <3>2 DEF InFrame, n, f, m
    <3>4. i \in 1..Len(fs) + 1
      BY <1>3
    <3> QED
      BY <1>9, <1>11, <2>6, <3>3, <3>4 DEF Position, v
  <2> QED
    BY <2>7, <2>8
<1> QED
  BY <1>14, <1>15

(* inspectFrames in a payload: it counts what it takes, when it is data.   *)
LEMMA PayloadKeeps ==
  ASSUME NEW w, NEW H, NEW fs, NEW b, NEW k,
         Response(w, H, fs, b), Cut(w, k, buffer, wire),
         conn \in Connection, Position(conn, w, H, fs, b, k),
         buffer # <<>>, conn.upgraded, conn.payload > 0,
         NEW STATE consumed, consumed = Smaller(Len(buffer), conn.payload),
         NEW STATE rest, rest = conn.payload - consumed,
         NEW STATE next, next = IF rest = 0
                          THEN [conn EXCEPT !.payload = 0, !.header = <<>>, !.need = 0]
                          ELSE [conn EXCEPT !.payload = rest]
  PROVE  /\ consumed \in 0..Len(buffer)
         /\ DataIn(w, k + consumed)
              = IF conn.dataFrame THEN DataIn(w, k) + consumed ELSE DataIn(w, k)
         /\ next \in Connection /\ Position(next, w, H, fs, b, k + consumed)
<1> DEFINE v == Len(buffer)
           p == conn.payload
<1>1. /\ buffer \in Seq(WireByte) /\ v \in Nat /\ v >= 1 /\ k \in Nat
  BY DEF Cut
<1>2. /\ conn.header \in Seq(0..255) /\ p \in Nat /\ p > 0 /\ conn.dataFrame \in BOOLEAN
  BY DEF Connection
<1>3. PICK i \in 1..Len(fs) + 1 : InFrame(conn, fs, b, k, i)
  <2>1. \A i \in 1..Len(fs) + 1 : ~BetweenFrames(conn, w, fs, b, k, i)
    BY <1>2 DEF BetweenFrames
  <2> QED
    BY <2>1 DEF Position
<1> DEFINE f == fs[i]
           a == b[i]
           z == HeadLength(f)
           n == Len(f.payload)
<1>4. i \in 1..Len(fs)
  <2>1. i <= Len(fs) /\ Len(fs) \in Nat
    BY <1>3 DEF InFrame, Response
  <2> QED
    BY <2>1
<1>5. /\ Fitting(f) /\ FrameAt(w, a, f) /\ a \in Nat /\ z \in 2..14 /\ n \in Nat
      /\ b[i + 1] = a + z + n /\ i + 1 \in 1..Len(fs) + 1 /\ i <= Len(fs) /\ b[i + 1] \in Nat
  BY <1>4, FrameIn
<1>6. 1 <= p /\ p <= n /\ k + p = b[i + 1] /\ conn.dataFrame = IsData(f.opcode)
      /\ Len(conn.header) <= 14
  BY <1>3 DEF InFrame
<1> HIDE DEF v, p, f, a, z, n
<1>7. consumed = (IF v <= p THEN v ELSE p) /\ rest = p - consumed
  BY DEF Smaller, v, p
<1>8. /\ consumed \in 1..v /\ consumed \in 0..v /\ consumed \in Nat /\ consumed <= p
      /\ rest \in Nat /\ rest <= n /\ (k + consumed) + rest = b[i + 1]
  BY ONLY <1>1, <1>2, <1>5, <1>6, <1>7
<1>9. DataIn(w, k + consumed)
        = IF conn.dataFrame THEN DataIn(w, k) + consumed ELSE DataIn(w, k)
  <2>1. \A j \in 1..consumed : w[k + j].data = conn.dataFrame
    <3> SUFFICES ASSUME NEW j \in 1..consumed PROVE w[k + j].data = conn.dataFrame
      OBVIOUS
    <3> DEFINE x == (k + j) - a
    <3>1. x \in z + 1 .. z + n /\ a + x = k + j
      <4> DEFINE e == b[i + 1]
      <4>1. /\ k \in Nat /\ a \in Nat /\ z \in Nat /\ n \in Nat /\ p \in Nat /\ j \in Nat
            /\ k + p = e /\ e = a + z + n /\ p <= n /\ 1 <= j /\ j <= p
        <5>1. z \in Nat /\ a \in Nat /\ n \in Nat /\ e = a + z + n
          BY ONLY <1>5
        <5>2. j \in Nat /\ 1 <= j /\ j <= p
          BY ONLY <1>8, <1>2, j \in 1..consumed
        <5> QED
          BY ONLY <1>1, <1>2, <1>6, <5>1, <5>2
      <4> HIDE DEF e
      <4> QED
        BY ONLY <4>1 DEF x
    <3> HIDE DEF x
    <3>2. w[a + x].data = IsData(f.opcode)
      BY <1>5, <3>1 DEF FrameAt, z, n
    <3> QED
      BY <1>6, <3>1, <3>2
  <2> QED
    BY ONLY <1>1, <1>2, <1>8, <2>1, DataOfEven, ZenonT(60)
<1>10. CASE rest = 0
  <2>1. next = [conn EXCEPT !.payload = 0, !.header = <<>>, !.need = 0]
    BY <1>10
  <2>2. /\ next \in Connection /\ next.upgraded /\ next.payload = 0 /\ next.header = <<>>
        /\ next.need = 0 /\ Len(<<>>) = 0
    BY ONLY <2>1, conn \in Connection, conn.upgraded, ConnPayload
  <2>3. k + consumed = b[i + 1] + 0
    BY <1>1, <1>5, <1>8, <1>10
  <2>4. BetweenFrames(next, w, fs, b, k + consumed, i + 1)
    BY <2>2, <2>3 DEF BetweenFrames
  <2> QED
    BY <1>5, <1>8, <1>9, <2>2, <2>4 DEF Position, v
<1>11. CASE rest # 0
  <2>1. next = [conn EXCEPT !.payload = rest]
    BY <1>11
  <2>2. /\ next \in Connection /\ next.upgraded /\ next.payload = rest
        /\ next.header = conn.header /\ next.dataFrame = conn.dataFrame
    BY <1>8, <2>1 DEF Connection
  <2>3. 1 <= rest
    BY <1>8, <1>11
  <2>4. InFrame(next, fs, b, k + consumed, i)
    BY <1>5, <1>6, <1>8, <2>2, <2>3 DEF InFrame, n, f
  <2> QED
    BY <1>3, <1>8, <1>9, <2>2, <2>4 DEF Position, v
<1> QED
  BY <1>10, <1>11

(* The parts of the invariant, for given w, H, fs, b and k.                *)
ObservedAt(w, H, fs, b, k) ==
    /\ Response(w, H, fs, b) /\ Cut(w, k, buffer, wire)
    /\ conn \in Connection /\ Position(conn, w, H, fs, b, k)
    /\ observed = DataIn(w, k) /\ carried = DataIn(w, k + Len(buffer))

(* After n inspected bytes.                                                *)
LEMMA InspectedKeeps ==
  ASSUME NEW w, NEW H, NEW fs, NEW b, NEW k, ObservedAt(w, H, fs, b, k),
         NEW n \in 0..Len(buffer), Drop(n), UNCHANGED <<wire, carried>>,
         conn' \in Connection, Position(conn', w, H, fs, b, k + n),
         observed' = DataIn(w, k + n)
  PROVE  ObserverInv'
<1>1. Cut(w, k, buffer, wire) /\ Response(w, H, fs, b) /\ carried = DataIn(w, k + Len(buffer))
  BY DEF ObservedAt
<1>2. buffer' = SubSeq(buffer, n + 1, Len(buffer)) /\ wire' = wire /\ carried' = carried
  BY DEF Drop
<1>3. Cut(w, k + n, buffer', wire') /\ (k + n) + Len(buffer') = k + Len(buffer)
  BY ONLY <1>1, <1>2, n \in 0..Len(buffer), CutDrop
<1>4. carried' = DataIn(w, (k + n) + Len(buffer'))
  BY ONLY <1>1, <1>2, <1>3
<1> QED
  BY <1>1, <1>3, <1>4 DEF ObserverInv

(* Read                                                                    *)
LEMMA ReadKeeps == ObserverInv /\ Read => ObserverInv'
<1> SUFFICES ASSUME ObserverInv, Read PROVE ObserverInv'
  OBVIOUS
<1>1. PICK w, H, fs, b, k : ObservedAt(w, H, fs, b, k)
  BY DEF ObserverInv, ObservedAt
<1>2. /\ Response(w, H, fs, b) /\ Cut(w, k, <<>>, wire) /\ conn \in Connection
      /\ Position(conn, w, H, fs, b, k) /\ observed = DataIn(w, k) /\ carried = DataIn(w, k)
  <2>1. buffer = <<>> /\ Len(<<>>) = 0
    BY DEF Read
  <2>2. k \in Nat
    BY <1>1 DEF ObservedAt, Cut
  <2>3. k + Len(buffer) = k
    BY <2>1, <2>2
  <2> QED
    BY ONLY <1>1, <2>1, <2>3 DEF ObservedAt
<1>3. PICK n \in 1..Len(wire) :
        /\ buffer' = SubSeq(wire, 1, n) /\ wire' = SubSeq(wire, n + 1, Len(wire))
        /\ carried' = carried + DataBytes(SubSeq(wire, 1, n))
  BY DEF Read
<1>4. conn' = conn /\ observed' = observed
  BY DEF Read
<1>5. /\ Cut(w, k, buffer', wire') /\ Len(buffer') = n
      /\ DataIn(w, k + n) = DataIn(w, k) + DataBytes(SubSeq(wire, 1, n))
  BY ONLY <1>2, <1>3, n \in 1..Len(wire), CutRead
<1>6. carried' = DataIn(w, k + Len(buffer'))
  BY ONLY <1>2, <1>3, <1>5
<1>7. conn' \in Connection /\ Position(conn', w, H, fs, b, k) /\ observed' = DataIn(w, k)
  BY ONLY <1>2, <1>4
<1> QED
  BY <1>2, <1>5, <1>6, <1>7 DEF ObserverInv

(* inspect, at a byte of the response header                               *)
LEMMA InspectKeeps == ObserverInv /\ Inspect => ObserverInv'
<1> SUFFICES ASSUME ObserverInv, Inspect PROVE ObserverInv'
  OBVIOUS
<1>1. PICK w, H, fs, b, k : ObservedAt(w, H, fs, b, k)
  BY DEF ObserverInv, ObservedAt
<1>2. /\ Greets(w, H) /\ Cut(w, k, buffer, wire) /\ conn \in Connection
      /\ Position(conn, w, H, fs, b, k) /\ observed = DataIn(w, k) /\ b[1] = H
      /\ Len(fs) \in Nat
  BY <1>1 DEF ObservedAt, Response
<1>3. buffer # <<>> /\ ~conn.upgraded /\ Drop(1) /\ UNCHANGED <<wire, observed, carried>>
  BY DEF Inspect
<1> DEFINE m == NextMatch(buffer[1].value)
<1>4. conn' = [conn EXCEPT !.match = m, !.upgraded = m = Len(HeaderEnd)]
  BY DEF Inspect
<1>5. /\ k < H /\ conn.match = Match(w, k) /\ conn.header = <<>> /\ conn.need = 0
      /\ conn.payload = 0
  BY <1>2, <1>3 DEF Position
<1>6. /\ k \in Nat /\ buffer \in Seq(WireByte) /\ Len(buffer) \in Nat /\ Len(buffer) >= 1
      /\ buffer[1] = w[k + 1]
  <2>1. /\ k \in Nat /\ buffer \in Seq(WireByte)
        /\ \A j \in 1..Len(buffer) : buffer[j] = w[k + j]
    BY <1>2 DEF Cut
  <2>2. Len(buffer) \in Nat /\ Len(buffer) >= 1
    BY <1>3, <2>1
  <2>3. 1 \in 1..Len(buffer)
    BY <2>2
  <2> QED
    BY ONLY <2>1, <2>2, <2>3
<1>7. m = Matched(Match(w, k), w[k + 1].value)
  BY ONLY <1>5, <1>6 DEF NextMatch, Matched
<1>8. /\ k + 1 < H => m = Match(w, k + 1)
      /\ k + 1 = H => m = 4
      /\ H \in Nat
  <2>1. H \in Nat
    BY <1>2 DEF Greets
  <2> QED
    BY ONLY <1>2, <1>5, <1>6, <1>7, <2>1, MatchStep
<1>9. k + 1 < H => Match(w, k + 1) \in 0..3
  <2>1. k + 1 \in Nat
    BY <1>6
  <2> QED
    BY ONLY <1>2, <2>1, MatchStep
<1> HIDE DEF m
<1>10. Len(HeaderEnd) = 4
  BY DEF HeaderEnd
<1>11. k + 1 < H \/ k + 1 = H
  BY ONLY <1>5, <1>6, <1>8
<1>12. m \in 0..4 /\ (m = 4 <=> k + 1 = H)
  BY ONLY <1>8, <1>9, <1>11, <1>6
<1>13. /\ conn' \in Connection /\ conn'.match = m /\ (conn'.upgraded <=> m = 4)
       /\ conn'.header = <<>> /\ conn'.need = 0 /\ conn'.payload = 0
  <2> DEFINE Q == Seq(0..255)
             A == 0..4
             N == 0..14
             u == m = Len(HeaderEnd)
             C == [match: A, upgraded: BOOLEAN, header: Q, need: N, payload: Nat,
                   dataFrame: BOOLEAN]
  <2>1. Connection = C /\ conn \in C /\ m \in A
    BY ONLY <1>2, <1>12 DEF Connection
  <2>2. u \in BOOLEAN /\ (u <=> m = 4)
    BY ONLY <1>10
  <2>3. conn' = [conn EXCEPT !.match = m, !.upgraded = u]
    BY ONLY <1>4
  <2> HIDE DEF Q, A, N, u
  <2>4. /\ conn' \in Connection /\ conn'.match = m /\ conn'.upgraded = u
        /\ conn'.header = conn.header /\ conn'.need = conn.need /\ conn'.payload = conn.payload
    BY ONLY <2>1, <2>2, <2>3
  <2> QED
    BY ONLY <2>2, <2>4, <1>5
<1>14. Position(conn', w, H, fs, b, k + 1)
  <2>1. CASE k + 1 < H
    <3>1. ~conn'.upgraded /\ m = Match(w, k + 1)
      BY <1>6, <1>8, <1>12, <1>13, <2>1
    <3> QED
      BY ONLY <1>13, <2>1, <3>1 DEF Position
  <2>2. CASE k + 1 = H
    <3>1. conn'.upgraded /\ 1 \in 1..Len(fs) + 1 /\ Len(<<>>) = 0
      BY <1>2, <1>12, <1>13, <2>2
    <3>2. k + 1 = b[1] + 0
      BY ONLY <1>2, <1>8, <2>2
    <3>3. BetweenFrames(conn', w, fs, b, k + 1, 1)
      BY ONLY <1>13, <3>1, <3>2 DEF BetweenFrames
    <3> QED
      BY ONLY <3>1, <3>3 DEF Position
  <2> QED
    BY <1>11, <2>1, <2>2
<1>15. observed' = DataIn(w, k + 1)
  <2>1. k + 1 \in 1..H
    BY ONLY <1>5, <1>6, <1>8
  <2>2. w[k + 1].data = FALSE
    BY <1>2, <2>1 DEF Greets
  <2>3. /\ DataIn(w, k) \in Nat
        /\ DataIn(w, k + 1) = DataIn(w, k) + (IF w[k + 1].data THEN 1 ELSE 0)
    BY ONLY <1>6, DataStep
  <2> QED
    BY ONLY <1>2, <1>3, <2>2, <2>3
<1>16. 1 \in 0..Len(buffer)
  BY ONLY <1>6
<1> QED
  BY ONLY <1>1, <1>3, <1>13, <1>14, <1>15, <1>16, InspectedKeeps

(* inspectFrames inside a payload ...                                      *)
LEMMA InspectPayloadKeeps == ObserverInv /\ InspectPayload => ObserverInv'
<1> SUFFICES ASSUME ObserverInv, InspectPayload PROVE ObserverInv'
  OBVIOUS
<1>1. PICK w, H, fs, b, k : ObservedAt(w, H, fs, b, k)
  BY DEF ObserverInv, ObservedAt
<1>2. /\ Response(w, H, fs, b) /\ Cut(w, k, buffer, wire) /\ conn \in Connection
      /\ Position(conn, w, H, fs, b, k) /\ observed = DataIn(w, k)
  BY <1>1 DEF ObservedAt
<1> DEFINE consumed == Smaller(Len(buffer), conn.payload)
           rest == conn.payload - consumed
           next == IF rest = 0
                   THEN [conn EXCEPT !.payload = 0, !.header = <<>>, !.need = 0]
                   ELSE [conn EXCEPT !.payload = rest]
<1>3. /\ buffer # <<>> /\ conn.upgraded /\ conn.payload > 0
      /\ observed' = (IF conn.dataFrame THEN observed + consumed ELSE observed)
      /\ conn' = next /\ Drop(consumed) /\ UNCHANGED <<wire, carried>>
  BY DEF InspectPayload
<1>4. /\ consumed \in 0..Len(buffer)
      /\ DataIn(w, k + consumed)
           = (IF conn.dataFrame THEN DataIn(w, k) + consumed ELSE DataIn(w, k))
      /\ next \in Connection /\ Position(next, w, H, fs, b, k + consumed)
  BY ONLY <1>2, <1>3, PayloadKeeps
<1> HIDE DEF consumed, rest, next
<1> QED
  BY ONLY <1>1, <1>2, <1>3, <1>4, InspectedKeeps

(* ... and outside one.                                                    *)
LEMMA InspectFrameHeaderKeeps == ObserverInv /\ InspectFrameHeader => ObserverInv'
<1> SUFFICES ASSUME ObserverInv, InspectFrameHeader PROVE ObserverInv'
  OBVIOUS
<1>1. PICK w, H, fs, b, k : ObservedAt(w, H, fs, b, k)
  BY DEF ObserverInv, ObservedAt
<1>2. /\ Response(w, H, fs, b) /\ Cut(w, k, buffer, wire) /\ conn \in Connection
      /\ Position(conn, w, H, fs, b, k) /\ observed = DataIn(w, k)
  BY <1>1 DEF ObservedAt
<1> DEFINE need == IF conn.need = 0 THEN 2 ELSE conn.need
           taken == Smaller(Len(buffer), need - Len(conn.header))
           header == conn.header \o Values(SubSeq(buffer, 1, taken))
           whole == IF need = 2 /\ Len(header) = 2 THEN HeaderNeed(header) ELSE need
           next == IF Len(header) < whole
                   THEN [conn EXCEPT !.header = header, !.need = whole]
                   ELSE BeginFrame(header)
<1>3. /\ buffer # <<>> /\ conn.upgraded /\ conn.payload = 0
      /\ conn' = next /\ Drop(taken) /\ UNCHANGED <<wire, observed, carried>>
  BY DEF InspectFrameHeader
<1>4. /\ taken \in 0..Len(buffer) /\ DataIn(w, k + taken) = DataIn(w, k)
      /\ next \in Connection /\ Position(next, w, H, fs, b, k + taken)
  <2>1. HeaderTaken(need, taken, header, whole, next)
    BY DEF HeaderTaken
  <2> HIDE DEF need, taken, header, whole, next
  <2> QED
    BY ONLY <1>2, <1>3, <2>1, HeaderKeeps
<1> HIDE DEF need, taken, header, whole, next
<1> QED
  BY ONLY <1>1, <1>2, <1>3, <1>4, InspectedKeeps

(* One step per action.                                                    *)
LEMMA ObserverStep == ObserverInv /\ [ObserverNext]_observerVars => ObserverInv'
<1> SUFFICES ASSUME ObserverInv, [ObserverNext]_observerVars PROVE ObserverInv'
  OBVIOUS
<1>1. CASE Read
  BY <1>1, ReadKeeps
<1>2. CASE Inspect
  BY <1>2, InspectKeeps
<1>3. CASE InspectPayload
  BY <1>3, InspectPayloadKeeps
<1>4. CASE InspectFrameHeader
  BY <1>4, InspectFrameHeaderKeeps
<1>5. CASE UNCHANGED observerVars
  BY <1>5 DEF observerVars, ObserverInv
<1> QED
  BY <1>1, <1>2, <1>3, <1>4, <1>5 DEF ObserverNext, InspectStep

(* For every response header, every sequence of frames and every way to    *)
(* cut it into reads: once a read is inspected, exactly the data payload   *)
(* bytes in it have been reported, the header of a frame never outgrows    *)
(* its 14 bytes, and no iteration of inspectFrames comes up empty          *)
(* (outputObservingConn.Read, inspect, inspectFrames, beginFrame).         *)
THEOREM ObserverCounts == ObserverSpec => []ObserverExact
<1>1. ObserverInit => ObserverInv
  BY ObserverStart
<1>2. ObserverInv /\ [ObserverNext]_observerVars => ObserverInv'
  BY ObserverStep
<1>3. ObserverInv => ObserverExact
  BY ObserverInvExact
<1> QED
  BY <1>1, <1>2, <1>3, PTL DEF ObserverSpec

-----------------------------------------------------------------------------
(* HistoryText                                                             *)

(* R joins the first n sequences of ss, the way FlattenSeq does.           *)
Flattens(R, ss, n) ==
    R = [i \in 1..n |-> IF i = 1 THEN ss[i] ELSE R[i - 1] \o ss[i]]

(* The library's definition, in these terms.                               *)
LEMMA FlattenIs ==
  ASSUME NEW ss
  PROVE  FlattenSeq(ss) = IF Len(ss) = 0 THEN ss
                          ELSE (CHOOSE R : Flattens(R, ss, Len(ss)))[Len(ss)]
BY DEF FlattenSeq, Flattens

(* The equation, step by step.                                             *)
LEMMA FlattensStep ==
  ASSUME NEW R, NEW ss, NEW n \in Nat, Flattens(R, ss, n)
  PROVE  \A i \in 1..n : R[i] = IF i = 1 THEN ss[i] ELSE R[i - 1] \o ss[i]
<1>1. R = [i \in 1..n |-> IF i = 1 THEN ss[i] ELSE R[i - 1] \o ss[i]]
  BY DEF Flattens
<1> QED
  BY <1>1

(* There is such a function, by induction on n.                            *)
LEMMA FlattensExist ==
  ASSUME NEW ss, NEW n \in Nat
  PROVE  \E R : Flattens(R, ss, n)
<1> DEFINE G == {m \in Nat : \E R : Flattens(R, ss, m)}
<1>1. 0 \in G
  <2> DEFINE R == [i \in 1..0 |-> <<>>]
  <2>1. R = [i \in 1..0 |-> IF i = 1 THEN ss[i] ELSE R[i - 1] \o ss[i]]
    OBVIOUS
  <2>2. Flattens(R, ss, 0)
    BY <2>1 DEF Flattens
  <2> QED
    BY <2>2
<1>2. ASSUME NEW m \in Nat, m \in G PROVE m + 1 \in G
  <2>1. PICK R : Flattens(R, ss, m)
    BY <1>2
  <2> DEFINE V(i) == IF i = 1 THEN ss[i] ELSE R[i - 1] \o ss[i]
             Q == [i \in 1..(m + 1) |-> V(i)]
  <2>2. \A i \in 1..m : R[i] = V(i)
    BY <2>1, FlattensStep
  <2>3. \A i \in 1..m : Q[i] = R[i]
    <3>1. \A i \in 1..m : i \in 1..(m + 1)
      OBVIOUS
    <3>2. \A i \in 1..(m + 1) : Q[i] = V(i)
      OBVIOUS
    <3> HIDE DEF Q, V
    <3> QED
      BY <2>2, <3>1, <3>2
  <2>4. \A i \in 1..(m + 1) : i # 1 => i - 1 \in 1..m
    OBVIOUS
  <2>5. \A i \in 1..(m + 1) : V(i) = IF i = 1 THEN ss[i] ELSE Q[i - 1] \o ss[i]
    <3> HIDE DEF Q
    <3> QED
      BY <2>3, <2>4
  <2>6. Q = [i \in 1..(m + 1) |-> IF i = 1 THEN ss[i] ELSE Q[i - 1] \o ss[i]]
    <3>1. Q = [i \in 1..(m + 1) |-> V(i)]
      OBVIOUS
    <3> HIDE DEF Q, V
    <3> QED
      BY <2>5, <3>1
  <2>7. Flattens(Q, ss, m + 1)
    <3> HIDE DEF Q
    <3> QED
      BY <2>6 DEF Flattens
  <2> HIDE DEF Q
  <2> QED
    BY <2>7
<1>3. Nat \subseteq G
  <2> HIDE DEF G
  <2> QED
    BY <1>1, <1>2, NatSteps
<1> QED
  BY <1>3

(* Two such functions agree on the sequences both join.                    *)
LEMMA FlattensUnique ==
  ASSUME NEW R, NEW ss, NEW n \in Nat, Flattens(R, ss, n),
         NEW Q, NEW tt, NEW k \in Nat, Flattens(Q, tt, k),
         n <= k, \A i \in 1..n : ss[i] = tt[i]
  PROVE  \A i \in 1..n : R[i] = Q[i]
<1> DEFINE G == {m \in Nat : m \in 1..n => R[m] = Q[m]}
<1>1. 0 \in G
  OBVIOUS
<1>2. ASSUME NEW m \in Nat, m \in G PROVE m + 1 \in G
  <2> SUFFICES ASSUME m + 1 \in 1..n PROVE R[m + 1] = Q[m + 1]
    OBVIOUS
  <2>1. m + 1 \in 1..k /\ (m + 1) - 1 = m
    OBVIOUS
  <2>2. R[m + 1] = IF m + 1 = 1 THEN ss[m + 1] ELSE R[m] \o ss[m + 1]
    BY <2>1, FlattensStep
  <2>3. Q[m + 1] = IF m + 1 = 1 THEN tt[m + 1] ELSE Q[m] \o tt[m + 1]
    BY <2>1, FlattensStep
  <2>4. m + 1 # 1 => R[m] = Q[m]
    BY <1>2
  <2> QED
    BY <2>2, <2>3, <2>4
<1>3. Nat \subseteq G
  <2> HIDE DEF G
  <2> QED
    BY <1>1, <1>2, NatSteps
<1> QED
  BY <1>3

(* What FlattenSeq joins, for all sequences of sequences.                  *)
LEMMA FlattenType ==
  ASSUME NEW C, NEW ss \in Seq(Seq(C))
  PROVE  FlattenSeq(ss) \in Seq(C)
<1> DEFINE n == Len(ss)
           R == CHOOSE R : Flattens(R, ss, n)
           G == {m \in Nat : m \in 1..n => R[m] \in Seq(C)}
<1>0. n \in Nat /\ \A i \in 1..n : ss[i] \in Seq(C)
  BY ElementOfSeq
<1>1. CASE n = 0
  <2>1. ss = <<>>
    BY <1>1, EmptySeq
  <2>2. FlattenSeq(ss) = ss
    BY <1>1, FlattenIs
  <2>3. <<>> \in Seq(C)
    OBVIOUS
  <2> QED
    BY ONLY <2>1, <2>2, <2>3
<1>2. CASE n # 0
  <2>1. Flattens(R, ss, n)
    BY <1>0, FlattensExist
  <2>2. FlattenSeq(ss) = R[n] /\ n \in 1..n /\ n \in Nat
    BY <1>2, FlattenIs
  <2> HIDE DEF R, n
  <2>3. 0 \in G
    OBVIOUS
  <2>4. ASSUME NEW m \in Nat, m \in G PROVE m + 1 \in G
    <3> SUFFICES ASSUME m + 1 \in 1..n PROVE R[m + 1] \in Seq(C)
      OBVIOUS
    <3>1. R[m + 1] = IF m + 1 = 1 THEN ss[m + 1] ELSE R[(m + 1) - 1] \o ss[m + 1]
      BY <2>1, <2>2, FlattensStep, SMTT(60)
    <3>2. ss[m + 1] \in Seq(C)
      BY <1>0
    <3>3. m + 1 # 1 => R[m] \in Seq(C) /\ (m + 1) - 1 = m
      BY <2>2, <2>4
    <3> QED
      BY <3>1, <3>2, <3>3, ConcatProperties
  <2>5. Nat \subseteq G
    <3> HIDE DEF G
    <3> QED
      BY <2>3, <2>4, NatSteps
  <2> QED
    BY <2>2, <2>5
<1> QED
  BY <1>1, <1>2

(* One sequence more comes at the end.                                     *)
LEMMA FlattenAppend ==
  ASSUME NEW C, NEW ss \in Seq(Seq(C)), NEW s \in Seq(C)
  PROVE  FlattenSeq(Append(ss, s)) = FlattenSeq(ss) \o s
<1> DEFINE n == Len(ss)
           tt == Append(ss, s)
           R == CHOOSE R : Flattens(R, ss, n)
           Q == CHOOSE Q : Flattens(Q, tt, n + 1)
<1>1. /\ n \in Nat /\ Len(tt) = n + 1 /\ tt[n + 1] = s /\ n + 1 \in Nat
      /\ \A i \in 1..n : tt[i] = ss[i]
  OBVIOUS
<1> HIDE DEF tt
<1>2. Flattens(Q, tt, n + 1)
  BY <1>1, FlattensExist
<1>3. Flattens(R, ss, n)
  BY <1>1, FlattensExist
<1>4. FlattenSeq(tt) = Q[n + 1]
  BY <1>1, FlattenIs
<1>5. n # 0 => FlattenSeq(ss) = R[n]
  BY <1>1, FlattenIs
<1>6. n = 0 => FlattenSeq(ss) = <<>>
  <2>1. n = 0 => ss = <<>>
    BY EmptySeq
  <2> QED
    BY <2>1, FlattenIs
<1> HIDE DEF n, R, Q
<1>7. Q[n + 1] = IF n + 1 = 1 THEN s ELSE Q[n] \o s
  <2>1. n + 1 \in 1..n + 1 /\ (n + 1) - 1 = n
    BY <1>1
  <2> QED
    BY <1>1, <1>2, <2>1, FlattensStep
<1>8. CASE n = 0
  <2>1. <<>> \o s = s
    BY ConcatEmptySeq
  <2> QED
    BY <1>4, <1>6, <1>7, <1>8, <2>1 DEF tt
<1>9. CASE n # 0
  <2>1. R[n] = Q[n]
    <3>1. n \in 1..n /\ n <= n + 1
      BY <1>1, <1>9
    <3> QED
      BY <1>1, <1>2, <1>3, <3>1, FlattensUnique
  <2>2. n + 1 # 1
    BY <1>1, <1>9
  <2> QED
    BY <1>4, <1>5, <1>7, <1>9, <2>1, <2>2 DEF tt
<1> QED
  BY <1>8, <1>9

(* The types of runs and of the characters they stand for, in styles S.    *)
Runs(S) == [text: Seq(Nat), style: S]
Chars(S) == [char: Nat, style: S]

(* The characters of a run, and of the runs of a line.                     *)
RunChars(r) == [c \in DOMAIN r.text |-> [char |-> r.text[c], style |-> r.style]]
Laid(rs) == [k \in DOMAIN rs |-> RunChars(rs[k])]
LineChars(rs) == FlattenSeq(Laid(rs))

(* FoundLine, in these terms.                                              *)
LEMMA FoundIs ==
  ASSUME NEW l
  PROVE  FoundLine(l) = LineChars(l.runs)
BY DEF FoundLine, LineChars, Laid, RunChars

(* A run has as many characters as its text, each in its style.            *)
LEMMA RunCharsIs ==
  ASSUME NEW S, NEW r \in Runs(S)
  PROVE  /\ RunChars(r) \in Seq(Chars(S)) /\ Len(RunChars(r)) = Len(r.text)
         /\ \A i \in 1..Len(r.text) :
               RunChars(r)[i] = [char |-> r.text[i], style |-> r.style]
<1>1. r.text \in Seq(Nat) /\ r.style \in S
  BY DEF Runs
<1>2. DOMAIN r.text = 1..Len(r.text) /\ Len(r.text) \in Nat
  BY <1>1
<1>3. RunChars(r) = [c \in 1..Len(r.text) |-> [char |-> r.text[c], style |-> r.style]]
  BY <1>2 DEF RunChars
<1>4. \A c \in 1..Len(r.text) : [char |-> r.text[c], style |-> r.style] \in Chars(S)
  <2>1. \A c \in 1..Len(r.text) : r.text[c] \in Nat
    BY <1>1, ElementOfSeq
  <2> QED
    BY <1>1, <2>1 DEF Chars
<1>5. RunChars(r) \in Seq(Chars(S))
  BY <1>2, <1>3, <1>4
<1> QED
  BY <1>2, <1>3, <1>5

(* The runs of a line are laid out one by one.                             *)
LEMMA LaidIs ==
  ASSUME NEW S, NEW rs \in Seq(Runs(S))
  PROVE  /\ Laid(rs) \in Seq(Seq(Chars(S))) /\ Len(Laid(rs)) = Len(rs)
         /\ \A k \in 1..Len(rs) : Laid(rs)[k] = RunChars(rs[k])
<1>1. DOMAIN rs = 1..Len(rs) /\ Len(rs) \in Nat
  OBVIOUS
<1>2. Laid(rs) = [k \in 1..Len(rs) |-> RunChars(rs[k])]
  BY <1>1 DEF Laid
<1>3. \A k \in 1..Len(rs) : RunChars(rs[k]) \in Seq(Chars(S))
  <2>1. \A k \in 1..Len(rs) : rs[k] \in Runs(S)
    BY ElementOfSeq
  <2> QED
    BY <2>1, RunCharsIs
<1>4. Laid(rs) \in Seq(Seq(Chars(S)))
  BY <1>1, <1>2, <1>3
<1> QED
  BY <1>1, <1>2, <1>4

(* A new run adds its characters at the end of the line.                   *)
LEMMA LineAppend ==
  ASSUME NEW S, NEW rs \in Seq(Runs(S)), NEW r \in Runs(S)
  PROVE  /\ LineChars(rs) \in Seq(Chars(S)) /\ RunChars(r) \in Seq(Chars(S))
         /\ LineChars(Append(rs, r)) = LineChars(rs) \o RunChars(r)
<1> DEFINE tt == Append(rs, r)
           n == Len(rs)
<1>1. /\ tt \in Seq(Runs(S)) /\ Len(tt) = n + 1 /\ tt[n + 1] = r /\ n \in Nat
      /\ \A i \in 1..n : tt[i] = rs[i]
  OBVIOUS
<1>2. /\ Laid(rs) \in Seq(Seq(Chars(S))) /\ Len(Laid(rs)) = n
      /\ \A k \in 1..n : Laid(rs)[k] = RunChars(rs[k])
  BY LaidIs
<1> HIDE DEF tt, n
<1>3. /\ Laid(tt) \in Seq(Seq(Chars(S))) /\ Len(Laid(tt)) = n + 1
      /\ \A k \in 1..n + 1 : Laid(tt)[k] = RunChars(tt[k])
  BY <1>1, LaidIs
<1>4. RunChars(r) \in Seq(Chars(S))
  BY RunCharsIs
<1>5. Laid(tt) = Append(Laid(rs), RunChars(r))
  <2> DEFINE a == Laid(rs)
             b == Append(a, RunChars(r))
  <2>1. /\ b \in Seq(Seq(Chars(S))) /\ Len(b) = n + 1 /\ b[n + 1] = RunChars(r)
        /\ \A i \in 1..n : b[i] = a[i]
    <3>1. a \in Seq(Seq(Chars(S))) /\ Len(a) = n /\ RunChars(r) \in Seq(Chars(S))
      BY <1>2, <1>4
    <3> HIDE DEF a
    <3> QED
      BY <3>1, AppendProperties
  <2>2. \A i \in 1..n + 1 : Laid(tt)[i] = b[i]
    <3> HIDE DEF b
    <3>1. \A i \in 1..n + 1 : i \in 1..n \/ i = n + 1
      BY <1>1
    <3> QED
      BY <1>1, <1>2, <1>3, <2>1, <3>1
  <2> HIDE DEF b
  <2>3. Laid(tt) = b
    BY <1>3, <2>1, <2>2, SeqEqual
  <2> QED
    BY <2>3 DEF b
<1>6. FlattenSeq(Laid(tt)) = FlattenSeq(Laid(rs)) \o RunChars(r)
  BY <1>2, <1>4, <1>5, FlattenAppend
<1>7. FlattenSeq(Laid(rs)) \in Seq(Chars(S))
  BY <1>2, FlattenType
<1> QED
  BY <1>4, <1>6, <1>7 DEF LineChars, tt

(* A sequence that consists of two others.                                 *)
LEMMA ConcatIs ==
  ASSUME NEW C, NEW a \in Seq(C), NEW b \in Seq(C), NEW g \in Seq(C),
         Len(g) = Len(a) + Len(b), \A i \in 1..Len(a) : g[i] = a[i],
         \A i \in 1..Len(b) : g[Len(a) + i] = b[i]
  PROVE  g = a \o b
<1> DEFINE c == a \o b
<1>1. Len(a) \in Nat /\ Len(b) \in Nat
  OBVIOUS
<1>2. /\ c \in Seq(C) /\ Len(c) = Len(a) + Len(b)
      /\ \A i \in 1..Len(a) : c[i] = a[i]
      /\ \A i \in 1..Len(b) : c[Len(a) + i] = b[i]
  BY Concat2
<1> HIDE DEF c
<1>3. ASSUME NEW i \in 1..Len(g) PROVE g[i] = c[i]
  <2>1. CASE i \in 1..Len(a)
    BY <1>2, <2>1
  <2>2. CASE i \notin 1..Len(a)
    <3>1. i - Len(a) \in 1..Len(b) /\ Len(a) + (i - Len(a)) = i
      BY <1>1, <2>2
    <3> QED
      BY <1>2, <3>1
  <2> QED
    BY <2>1, <2>2
<1>4. g = c
  BY ONLY <1>2, <1>3, g \in Seq(C), Len(g) = Len(a) + Len(b), SeqEqual
<1> QED
  BY <1>4 DEF c

(* The characters of a longer text, part by part.                          *)
LEMMA RunsJoin ==
  ASSUME NEW S, NEW st \in S, NEW x \in Seq(Nat), NEW y \in Seq(Nat)
  PROVE  RunChars([text |-> x \o y, style |-> st])
           = RunChars([text |-> x, style |-> st]) \o RunChars([text |-> y, style |-> st])
<1> DEFINE z == x \o y
           Of(t) == [text |-> t, style |-> st]
           a == RunChars(Of(x))
           b == RunChars(Of(y))
           g == RunChars(Of(z))
<1>1. /\ z \in Seq(Nat) /\ Len(z) = Len(x) + Len(y)
      /\ \A i \in 1..Len(x) : z[i] = x[i]
      /\ \A i \in 1..Len(y) : z[Len(x) + i] = y[i]
  BY Concat2
<1> HIDE DEF z
<1>2. ASSUME NEW t \in Seq(Nat)
      PROVE  /\ RunChars(Of(t)) \in Seq(Chars(S)) /\ Len(RunChars(Of(t))) = Len(t)
             /\ \A i \in 1..Len(t) : RunChars(Of(t))[i] = [char |-> t[i], style |-> st]
  <2>1. Of(t) \in Runs(S) /\ Of(t).text = t /\ Of(t).style = st
    BY DEF Runs
  <2> HIDE DEF Of
  <2> QED
    BY <2>1, RunCharsIs
<1> HIDE DEF Of
<1>3. /\ a \in Seq(Chars(S)) /\ Len(a) = Len(x)
      /\ \A i \in 1..Len(x) : a[i] = [char |-> x[i], style |-> st]
  BY <1>2
<1>4. /\ b \in Seq(Chars(S)) /\ Len(b) = Len(y)
      /\ \A i \in 1..Len(y) : b[i] = [char |-> y[i], style |-> st]
  BY <1>2
<1>5. /\ g \in Seq(Chars(S)) /\ Len(g) = Len(z)
      /\ \A i \in 1..Len(z) : g[i] = [char |-> z[i], style |-> st]
  BY <1>1, <1>2
<1> HIDE DEF a, b, g
<1>6. Len(x) \in Nat /\ Len(y) \in Nat
  OBVIOUS
<1>7. \A i \in 1..Len(x) : g[i] = a[i]
  <2>1. \A i \in 1..Len(x) : i \in 1..Len(z)
    BY <1>1, <1>6
  <2> QED
    BY <1>1, <1>3, <1>5, <2>1
<1>8. \A i \in 1..Len(y) : g[Len(x) + i] = b[i]
  <2>1. \A i \in 1..Len(y) : Len(x) + i \in 1..Len(z)
    BY <1>1, <1>6
  <2> QED
    BY <1>1, <1>4, <1>5, <2>1
<1>9. /\ Len(g) = Len(a) + Len(b)
      /\ \A i \in 1..Len(a) : g[i] = a[i]
      /\ \A i \in 1..Len(b) : g[Len(a) + i] = b[i]
  BY ONLY <1>1, <1>3, <1>4, <1>5, <1>7, <1>8
<1>10. g = a \o b
  BY ONLY <1>3, <1>4, <1>5, <1>9, ConcatIs
<1> QED
  BY <1>10 DEF a, b, g, Of, z

(* A run with another text.                                                *)
LEMMA TextReplaced ==
  ASSUME NEW S, NEW e \in Runs(S), NEW x
  PROVE  [e EXCEPT !.text = x] = [text |-> x, style |-> e.style]
BY DEF Runs

(* So does a text that is merged into the last run.                        *)
LEMMA LineExtend ==
  ASSUME NEW S, NEW rs \in Seq(Runs(S)), rs # <<>>, NEW text \in Seq(Nat)
  PROVE  LET tt == [rs EXCEPT ![Len(rs)].text = @ \o text]
             r == [text |-> text, style |-> rs[Len(rs)].style]
         IN  /\ tt \in Seq(Runs(S)) /\ Len(tt) = Len(rs) /\ r \in Runs(S)
             /\ LineChars(tt) = LineChars(rs) \o RunChars(r)
<1>1. PICK q \in Seq(Runs(S)), e \in Runs(S) : rs = Append(q, e)
  BY SequenceEmptyOrAppend
<1> DEFINE n == Len(rs)
           tt == [rs EXCEPT ![n].text = @ \o text]
           r == [text |-> text, style |-> rs[n].style]
           f == [text |-> e.text \o text, style |-> e.style]
           u == Append(q, f)
<1>2. n \in Nat /\ n = Len(q) + 1 /\ rs[n] = e /\ n \in 1..n /\ \A i \in 1..Len(q) : rs[i] = q[i]
  BY <1>1
<1>3. e.text \in Seq(Nat) /\ e.style \in S /\ e = [text |-> e.text, style |-> e.style]
  BY DEF Runs
<1>4. r \in Runs(S)
  BY <1>2, <1>3 DEF Runs
<1>5. e.text \o text \in Seq(Nat)
  BY <1>3, ConcatProperties
<1>6. f \in Runs(S)
  BY <1>3, <1>5 DEF Runs
<1>7. tt = u
  <2>1. u \in Seq(Runs(S)) /\ Len(u) = n /\ u[n] = f /\ \A i \in 1..Len(q) : u[i] = q[i]
    <3> HIDE DEF f, n
    <3> QED
      BY <1>2, <1>6, AppendProperties
  <2>2. [e EXCEPT !.text = @ \o text] = f
    BY TextReplaced
  <2>3. tt = [rs EXCEPT ![n] = f]
    BY <1>2, <2>2
  <2>4. \A i \in 1..n : rs[i] \in Runs(S) /\ DOMAIN rs = 1..n
    BY ElementOfSeq
  <2> HIDE DEF f, n, u, tt
  <2>5. tt \in Seq(Runs(S)) /\ Len(tt) = n
    BY <1>2, <1>6, <2>3, <2>4, ExceptSeq DEF n
  <2>6. \A i \in 1..n : tt[i] = u[i]
    <3>1. \A i \in 1..n : i = n \/ i \in 1..Len(q)
      BY <1>2
    <3>2. tt[n] = f /\ \A i \in 1..n : i # n => tt[i] = rs[i]
      BY <1>2, <2>3, <2>4
    <3> QED
      BY <1>2, <2>1, <3>1, <3>2
  <2> QED
    BY <2>1, <2>5, <2>6, SeqEqual
<1>8. RunChars(f) = RunChars(e) \o RunChars(r)
  <2>1. r = [text |-> text, style |-> e.style]
    BY <1>2
  <2> HIDE DEF r
  <2>2. RunChars(f) = RunChars([text |-> e.text, style |-> e.style]) \o RunChars(r)
    BY ONLY <1>3, <2>1, text \in Seq(Nat), RunsJoin DEF f
  <2> QED
    BY <1>3, <2>2, Zenon
<1> HIDE DEF f, r
<1>9. /\ LineChars(u) = LineChars(q) \o RunChars(f)
      /\ LineChars(rs) = LineChars(q) \o RunChars(e)
      /\ LineChars(q) \in Seq(Chars(S)) /\ RunChars(e) \in Seq(Chars(S))
  BY <1>1, <1>6, LineAppend
<1>10. RunChars(r) \in Seq(Chars(S))
  BY <1>4, RunCharsIs
<1>11. (LineChars(q) \o RunChars(e)) \o RunChars(r) = LineChars(q) \o (RunChars(e) \o RunChars(r))
  <2> DEFINE a == LineChars(q)
             b == RunChars(e)
             c == RunChars(r)
  <2>1. a \in Seq(Chars(S)) /\ b \in Seq(Chars(S)) /\ c \in Seq(Chars(S))
    BY <1>9, <1>10
  <2> HIDE DEF a, b, c
  <2>2. (a \o b) \o c = a \o (b \o c)
    BY ONLY <2>1, ConcatAssociative, SMTT(60)
  <2> QED
    BY <2>2 DEF a, b, c
<1>12. LineChars(tt) = LineChars(rs) \o RunChars(r)
  BY <1>7, <1>8, <1>9, <1>11
<1>13. tt \in Seq(Runs(S)) /\ Len(tt) = n
  <2> HIDE DEF tt
  <2> QED
    BY <1>2, <1>6, <1>7, AppendProperties
<1> QED
  BY <1>4, <1>12, <1>13 DEF r

(* Where a character is a label.                                           *)
Labels(s) == [i \in 1..Len(s) |-> [data |-> s[i].char = Label]]

(* The mark, character by character.                                       *)
LEMMA LabelsIs ==
  ASSUME NEW s, NEW i \in 1..Len(s)
  PROVE  Labels(s)[i].data = (s[i].char = Label)
<1>1. Labels(s)[i] = [data |-> s[i].char = Label]
  BY DEF Labels
<1>2. CASE s[i].char = Label
  <2>1. Labels(s)[i] = [data |-> TRUE]
    BY <1>1, <1>2
  <2>2. Labels(s)[i].data = TRUE
    BY <2>1
  <2> QED
    BY <1>2, <2>2
<1>3. CASE s[i].char # Label
  <2>1. Labels(s)[i] = [data |-> FALSE]
    BY <1>1, <1>3
  <2>2. Labels(s)[i].data = FALSE
    BY <2>1
  <2> QED
    BY <1>3, <2>2
<1> QED
  BY <1>2, <1>3

(* BytesOf counts the labels that way.                                     *)
LEMMA BytesIs ==
  ASSUME NEW C, NEW s \in Seq(C)
  PROVE  /\ BytesOf(s) = Len(s) + (LabelBytes - 1) * DataIn(Labels(s), Len(s))
         /\ DataIn(Labels(s), Len(s)) \in Nat /\ Len(s) \in Nat
<1>1. DOMAIN s = 1..Len(s) /\ Len(s) \in Nat
  OBVIOUS
<1>2. {c \in DOMAIN s : s[c].char = Label} = {i \in 1..Len(s) : Labels(s)[i].data}
  <2>2. \A i \in 1..Len(s) : Labels(s)[i].data = (s[i].char = Label)
    BY LabelsIs
  <2> QED
    BY <1>1, <2>2
<1>3. DataIn(Labels(s), Len(s)) \in Nat
  BY <1>1, DataStep
<1> QED
  BY <1>1, <1>2, <1>3 DEF BytesOf, DataIn

(* Bytes of two parts.                                                     *)
LEMMA BytesConcat ==
  ASSUME NEW C, NEW s \in Seq(C), NEW t \in Seq(C)
  PROVE  BytesOf(s \o t) = BytesOf(s) + BytesOf(t)
<1> DEFINE u == s \o t
           k == Len(s)
           n == Len(t)
<1>1. /\ u \in Seq(C) /\ Len(u) = k + n
      /\ \A i \in 1..k : u[i] = s[i]
      /\ \A i \in 1..n : u[k + i] = t[i]
  BY Concat2
<1>2. k \in Nat /\ n \in Nat
  OBVIOUS
<1>3. /\ BytesOf(s) = k + (LabelBytes - 1) * DataIn(Labels(s), k)
      /\ BytesOf(t) = n + (LabelBytes - 1) * DataIn(Labels(t), n)
      /\ DataIn(Labels(s), k) \in Nat /\ DataIn(Labels(t), n) \in Nat
  BY BytesIs
<1> HIDE DEF u
<1>4. BytesOf(u) = (k + n) + (LabelBytes - 1) * DataIn(Labels(u), k + n)
  BY <1>1, BytesIs
<1> HIDE DEF k, n
<1>5. \A j \in 1..k : Labels(s)[j] = Labels(u)[0 + j]
  <2>1. \A j \in 1..k : j \in 1..k + n /\ 0 + j = j
    BY <1>2
  <2> QED
    BY <1>1, <2>1 DEF Labels, k
<1>6. \A j \in 1..n : Labels(t)[j] = Labels(u)[k + j]
  <2>1. \A j \in 1..n : k + j \in 1..k + n
    BY <1>2
  <2> QED
    BY <1>1, <2>1 DEF Labels, n
<1>7. DataIn(Labels(u), k) = DataIn(Labels(s), k)
  <2>1. DataIn(Labels(u), 0 + k) = DataIn(Labels(u), 0) + DataIn(Labels(s), k)
    BY <1>2, <1>5, DataOfPart
  <2>2. DataIn(Labels(u), 0) = 0
    BY DataStep
  <2>3. 0 + k = k
    BY <1>2
  <2> QED
    BY <1>3, <2>1, <2>2, <2>3
<1>8. DataIn(Labels(u), k + n) = DataIn(Labels(s), k) + DataIn(Labels(t), n)
  BY <1>2, <1>6, <1>7, DataOfPart
<1> DEFINE x == LabelBytes - 1
           a == DataIn(Labels(s), k)
           b == DataIn(Labels(t), n)
<1>9. x \in Int /\ a \in Nat /\ b \in Nat
  BY <1>3, TextAssumption
<1> HIDE DEF x, a, b
<1>10. x * (a + b) = x * a + x * b /\ x * a \in Int /\ x * b \in Int
  BY <1>9
<1>11. BytesOf(u) = (k + n) + (x * a + x * b)
  BY <1>4, <1>8, <1>10 DEF x, a, b
<1>12. BytesOf(s) = k + x * a /\ BytesOf(t) = n + x * b
  BY <1>3 DEF x, a, b
<1> DEFINE y == x * a
           z == x * b
<1>13. y \in Int /\ z \in Int
  BY <1>10
<1> HIDE DEF y, z
<1>14. BytesOf(u) = (k + n) + (y + z) /\ BytesOf(s) = k + y /\ BytesOf(t) = n + z
  BY <1>11, <1>12 DEF y, z
<1>15. BytesOf(u) = BytesOf(s) + BytesOf(t)
  BY <1>2, <1>13, <1>14
<1> QED
  BY <1>15 DEF u

(* What bytes a text takes: one each, and those of the label that replaces *)
(* a bidi control.                                                         *)
Takes(text, bytes) ==
    /\ text \in Seq(Nat)
    /\ \/ text = <<Label>> /\ bytes = LabelBytes
       \/ bytes = Len(text) /\ \A i \in 1..Len(text) : text[i] # Label

(* The characters of a run take the bytes of its text.                     *)
LEMMA RunBytes ==
  ASSUME NEW S, NEW r \in Runs(S), NEW bytes, Takes(r.text, bytes)
  PROVE  BytesOf(RunChars(r)) = bytes /\ bytes \in Nat
<1> DEFINE s == RunChars(r)
           n == Len(r.text)
           w == Labels(s)
<1>1. /\ s \in Seq(Chars(S)) /\ Len(s) = n
      /\ \A i \in 1..n : s[i] = [char |-> r.text[i], style |-> r.style]
  BY RunCharsIs
<1>2. n \in Nat /\ r.text \in Seq(Nat)
  BY DEF Takes
<1> HIDE DEF s
<1>3. BytesOf(s) = n + (LabelBytes - 1) * DataIn(w, n)
  BY <1>1, BytesIs
<1>4. \A i \in 1..n : w[0 + i].data = (r.text[i] = Label)
  <2>1. ASSUME NEW i \in 1..n PROVE s[i].char = r.text[i]
    <3>1. s[i] = [char |-> r.text[i], style |-> r.style]
      BY <1>1
    <3> QED
      BY <3>1
  <2>4. \A i \in 1..n : 0 + i = i
    BY <1>2
  <2>3. \A i \in 1..n : w[i].data = (s[i].char = Label)
    BY <1>1, LabelsIs
  <2> HIDE DEF w, n
  <2> QED
    BY <2>1, <2>3, <2>4, Zenon
<1>5. LabelBytes \in Nat /\ DataIn(w, 0) = 0 /\ 0 + n = n
  BY <1>2, TextAssumption, DataStep
<1> HIDE DEF w
<1>6. CASE r.text = <<Label>> /\ bytes = LabelBytes
  <2>1. n = 1 /\ r.text[1] = Label
    BY <1>6
  <2>2. \A i \in 1..n : w[0 + i].data = TRUE
    <3>1. \A i \in 1..n : i = 1
      BY <2>1
    <3> QED
      BY <1>4, <2>1, <3>1
  <2>3. DataIn(w, 0 + n) = DataIn(w, 0) + n
    BY <1>2, <2>2, DataOfEven
  <2>4. DataIn(w, n) = 1
    BY <1>5, <2>1, <2>3
  <2>5. (LabelBytes - 1) * 1 = LabelBytes - 1 /\ 1 + (LabelBytes - 1) = LabelBytes
    BY <1>5
  <2> HIDE DEF n
  <2> QED
    BY <1>3, <1>5, <1>6, <2>1, <2>4, <2>5 DEF s
<1>7. CASE bytes = n /\ \A i \in 1..n : r.text[i] # Label
  <2>2. \A i \in 1..n : w[0 + i].data = FALSE
    BY <1>4, <1>7
  <2>3. DataIn(w, 0 + n) = DataIn(w, 0)
    BY <1>2, <2>2, DataOfEven
  <2>4. DataIn(w, n) = 0
    BY <1>5, <2>3
  <2>5. (LabelBytes - 1) * 0 = 0 /\ n + 0 = n
    BY <1>2, <1>5
  <2> HIDE DEF n
  <2> QED
    BY <1>2, <1>3, <1>7, <2>4, <2>5 DEF s
<1> QED
  BY <1>6, <1>7 DEF Takes

(* A sum that grows at its end.                                            *)
LEMMA SumGrows ==
  ASSUME NEW n \in Nat, NEW f, NEW g, DOMAIN f = 1..n, DOMAIN g = 1..n + 1,
         \A i \in 1..n : g[i] = f[i], \A i \in 1..n + 1 : g[i] \in Nat
  PROVE  SumFunction(g) = SumFunction(f) + g[n + 1] /\ SumFunction(f) \in Nat
<1>0. IsFiniteSet(1..n)
  BY FS_Interval
<1>1. n + 1 \notin 1..n /\ 1..n + 1 = (1..n) \cup {n + 1} /\ n + 1 \in 1..n + 1
  OBVIOUS
<1>2. SumFunctionOnSet(g, (1..n) \cup {n + 1}) = g[n + 1] + SumFunctionOnSet(g, 1..n)
  BY <1>0, <1>1, SumAdd
<1>3. SumFunctionOnSet(g, 1..n) = SumFunctionOnSet(f, 1..n)
  BY <1>0, SumSame
<1>4. SumFunctionOnSet(f, 1..n) \in Nat
  <2>1. \A i \in 1..n : f[i] \in Nat
    <3>1. \A i \in 1..n : i \in 1..n + 1
      OBVIOUS
    <3> QED
      BY <3>1
  <2> QED
    BY <1>0, <2>1, SumType
<1>5. g[n + 1] \in Nat
  BY <1>1
<1>6. SumFunction(g) = SumFunctionOnSet(g, 1..n + 1) /\ SumFunction(f) = SumFunctionOnSet(f, 1..n)
  BY Zenon DEF SumFunction
<1>7. SumFunctionOnSet(g, 1..n + 1) = g[n + 1] + SumFunctionOnSet(f, 1..n)
  BY <1>1, <1>2, <1>3, Zenon
<1> DEFINE x == SumFunctionOnSet(f, 1..n)
           y == g[n + 1]
<1>8. x \in Nat /\ y \in Nat
  BY <1>4, <1>5
<1> HIDE DEF x, y
<1>9. y + x = x + y
  BY <1>8
<1> QED
  BY <1>4, <1>6, <1>7, <1>9 DEF x, y

(* A finished line, of runs in styles S.                                   *)
Line(S) == [runs: Seq(Runs(S)), warning: BOOLEAN]

(* One more line in the sums of runs and bytes.                            *)
LEMMA LinesGrow ==
  ASSUME NEW S, NEW ls \in Seq(Line(S)), NEW l \in Line(S),
         \A n \in 1..Len(ls) : BytesOf(FoundLine(ls[n])) \in Nat,
         BytesOf(FoundLine(l)) \in Nat
  PROVE  LET kept == Append(ls, l)
         IN  /\ Len(kept) = Len(ls) + 1 /\ Len(ls) \in Nat /\ DOMAIN kept = 1..Len(ls) + 1
             /\ SumFunction(RunsIn(kept)) = SumFunction(RunsIn(ls)) + Len(l.runs)
             /\ SumFunction(BytesIn(kept)) = SumFunction(BytesIn(ls)) + BytesOf(FoundLine(l))
             /\ SumFunction(RunsIn(ls)) \in Nat /\ SumFunction(BytesIn(ls)) \in Nat
             /\ RunsIn(kept)[Len(ls) + 1] = Len(l.runs)
             /\ BytesIn(kept)[Len(ls) + 1] = BytesOf(FoundLine(l))
             /\ \A n \in 1..Len(ls) : /\ RunsIn(kept)[n] = Len(ls[n].runs)
                                      /\ BytesIn(kept)[n] = BytesOf(FoundLine(ls[n]))
<1> DEFINE kept == Append(ls, l)
           n == Len(ls)
<1>1. /\ kept \in Seq(Line(S)) /\ Len(kept) = n + 1 /\ kept[n + 1] = l /\ n \in Nat
      /\ \A i \in 1..n : kept[i] = ls[i]
  OBVIOUS
<1>2. DOMAIN kept = 1..n + 1 /\ DOMAIN ls = 1..n
  BY <1>1
<1>3. /\ Len(l.runs) \in Nat
      /\ \A i \in 1..n : Len(ls[i].runs) \in Nat
  <2>1. \A i \in 1..n : ls[i] \in Line(S)
    BY ElementOfSeq
  <2>2. \A x \in Line(S) : x.runs \in Seq(Runs(S))
    BY DEF Line
  <2>3. \A x \in Line(S) : Len(x.runs) \in Nat
    BY <2>2, LenProperties
  <2> QED
    BY <2>1, <2>3
<1> HIDE DEF kept, n
<1>4. \A i \in 1..n + 1 : i \in 1..n \/ i = n + 1
  BY <1>1
<1>5. n + 1 \in 1..n + 1 /\ \A i \in 1..n : i \in 1..n + 1
  BY <1>1
<1> DEFINE f == RunsIn(ls)
           g == RunsIn(kept)
           p == BytesIn(ls)
           q == BytesIn(kept)
<1>6. /\ DOMAIN f = 1..n /\ DOMAIN g = 1..n + 1
      /\ \A i \in 1..n : f[i] = Len(ls[i].runs)
      /\ \A i \in 1..n + 1 : g[i] = Len(kept[i].runs)
  BY <1>2 DEF RunsIn
<1>7. /\ DOMAIN p = 1..n /\ DOMAIN q = 1..n + 1
      /\ \A i \in 1..n : p[i] = BytesOf(FoundLine(ls[i]))
      /\ \A i \in 1..n + 1 : q[i] = BytesOf(FoundLine(kept[i]))
  BY <1>2 DEF BytesIn
<1> HIDE DEF f, g, p, q
<1>8. /\ \A i \in 1..n : g[i] = f[i] /\ g[i] = Len(ls[i].runs)
      /\ g[n + 1] = Len(l.runs)
      /\ \A i \in 1..n + 1 : g[i] \in Nat
  BY <1>1, <1>3, <1>4, <1>5, <1>6
<1>9. /\ \A i \in 1..n : q[i] = p[i] /\ q[i] = BytesOf(FoundLine(ls[i]))
      /\ q[n + 1] = BytesOf(FoundLine(l))
      /\ \A i \in 1..n + 1 : q[i] \in Nat
  <2>1. \A i \in 1..n : BytesOf(FoundLine(ls[i])) \in Nat
    BY DEF n
  <2> QED
    BY <1>1, <1>4, <1>5, <1>7, <2>1
<1>10. SumFunction(g) = SumFunction(f) + g[n + 1] /\ SumFunction(f) \in Nat
  <2>1. /\ n \in Nat /\ DOMAIN f = 1..n /\ DOMAIN g = 1..n + 1
        /\ \A i \in 1..n : g[i] = f[i]
        /\ \A i \in 1..n + 1 : g[i] \in Nat
    BY <1>1, <1>6, <1>8
  <2> QED
    BY ONLY <2>1, SumGrows, Zenon
<1>11. SumFunction(q) = SumFunction(p) + q[n + 1] /\ SumFunction(p) \in Nat
  <2>1. /\ n \in Nat /\ DOMAIN p = 1..n /\ DOMAIN q = 1..n + 1
        /\ \A i \in 1..n : q[i] = p[i]
        /\ \A i \in 1..n + 1 : q[i] \in Nat
    BY <1>1, <1>7, <1>9
  <2> QED
    BY ONLY <2>1, SumGrows, Zenon
<1> QED
  BY <1>1, <1>2, <1>8, <1>9, <1>10, <1>11 DEF f, g, p, q, kept, n

(* The sums are numbers.                                                   *)
LEMMA KeptSums ==
  ASSUME NEW S, NEW ls \in Seq(Line(S)),
         \A n \in 1..Len(ls) : BytesOf(FoundLine(ls[n])) \in Nat
  PROVE  SumFunction(RunsIn(ls)) \in Nat /\ SumFunction(BytesIn(ls)) \in Nat
<1> DEFINE n == Len(ls)
<1>1. n \in Nat /\ DOMAIN ls = 1..n
  OBVIOUS
<1>2. IsFiniteSet(1..n)
  BY <1>1, FS_Interval
<1>3. \A i \in 1..n : Len(ls[i].runs) \in Nat
  <2>1. \A i \in 1..n : ls[i] \in Line(S)
    BY ElementOfSeq
  <2>2. \A x \in Line(S) : x.runs \in Seq(Runs(S))
    BY DEF Line
  <2>3. \A x \in Line(S) : Len(x.runs) \in Nat
    BY <2>2, LenProperties
  <2> QED
    BY <2>1, <2>3
<1>4. DOMAIN RunsIn(ls) = 1..n /\ \A i \in 1..n : RunsIn(ls)[i] \in Nat
  BY <1>1, <1>3 DEF RunsIn
<1>5. DOMAIN BytesIn(ls) = 1..n /\ \A i \in 1..n : BytesIn(ls)[i] \in Nat
  BY <1>1 DEF BytesIn
<1> HIDE DEF n
<1>6. SumFunctionOnSet(RunsIn(ls), 1..n) \in Nat
  BY ONLY <1>2, <1>4, SumType
<1>7. SumFunctionOnSet(BytesIn(ls), 1..n) \in Nat
  BY ONLY <1>2, <1>5, SumType
<1> QED
  BY <1>4, <1>5, <1>6, <1>7, Zenon DEF SumFunction

(* The least element of a set of places.                                   *)
LEMMA SmallestIs ==
  ASSUME NEW P, P \subseteq Nat, P # {}
  PROVE  Smallest(P) \in P /\ \A j \in P : Smallest(P) <= j
<1>1. PICK i \in P : \A j \in P : ~(j < i)
  BY LeastNat
<1>2. i \in P /\ \A j \in P : i <= j
  BY <1>1
<1> QED
  BY <1>2 DEF Smallest

(* The types, for some set of styles: which ones there are does not matter.*)
TextTyped(S) ==
    /\ parser \in [runs: Seq(Runs(S)), style: S, lineBytes: Nat, warning: BOOLEAN,
                   totalRuns: Nat, structured: Nat]
    /\ lines \in Seq(Line(S))

(* The places and the finished lines.                                      *)
TextPlaced ==
    /\ limits \in ParseLimits
    /\ Len(input) \in Nat /\ index \in 1..InputEnd
    /\ parsed \in {"parsing", "done", "limit", "cancelled"}
    /\ Len(lines) <= limits.lines
    /\ \A n \in 1..Len(lines) :
          /\ Len(lines[n].runs) <= limits.runsPerLine
          /\ BytesOf(FoundLine(lines[n])) \in Nat
          /\ BytesOf(FoundLine(lines[n])) <= limits.lineBytes

(* The counters: each is what it counts, and within its limit.             *)
TextCounted ==
    /\ parser.lineBytes = BytesOf(LineChars(parser.runs))
    /\ parser.lineBytes <= limits.lineBytes
    /\ Len(parser.runs) <= limits.runsPerLine
    /\ parser.totalRuns = SumFunction(RunsIn(lines)) + Len(parser.runs)
    /\ parser.totalRuns <= limits.runs
    /\ parser.structured = SumFunction(BytesIn(lines)) + parser.lineBytes
                           + RunOverhead * parser.totalRuns + LineOverhead * Len(lines)
    /\ parser.structured <= limits.structured

TextInv == TextPlaced /\ TextCounted /\ \E S : TextTyped(S)

(* The invariant says what the property says.                              *)
LEMMA TextInvExact == TextInv => LimitsExact
<1> SUFFICES ASSUME TextInv PROVE LimitsExact
  OBVIOUS
<1>1. PICK S : TextTyped(S)
  BY DEF TextInv
<1> DEFINE l == LastLine
           kept == Append(lines, l)
           n == Len(lines)
<1>2. /\ lines \in Seq(Line(S)) /\ l \in Line(S) /\ l.runs = parser.runs
      /\ parser.lineBytes \in Nat
  BY <1>1 DEF TextTyped, Line, LastLine
<1>3. TextPlaced /\ TextCounted
  BY DEF TextInv
<1>4. BytesOf(FoundLine(l)) = parser.lineBytes
  <2>1. FoundLine(l) = LineChars(l.runs)
    BY FoundIs
  <2> QED
    BY <1>2, <1>3, <2>1 DEF TextCounted
<1>5. \A i \in 1..n : BytesOf(FoundLine(lines[i])) \in Nat
  BY <1>3 DEF TextPlaced
<1> HIDE DEF l
<1>6. /\ Len(kept) = n + 1 /\ n \in Nat /\ DOMAIN kept = 1..n + 1
      /\ SumFunction(RunsIn(kept)) = SumFunction(RunsIn(lines)) + Len(l.runs)
      /\ SumFunction(BytesIn(kept)) = SumFunction(BytesIn(lines)) + BytesOf(FoundLine(l))
      /\ RunsIn(kept)[n + 1] = Len(l.runs)
      /\ BytesIn(kept)[n + 1] = BytesOf(FoundLine(l))
      /\ \A i \in 1..n : /\ RunsIn(kept)[i] = Len(lines[i].runs)
                         /\ BytesIn(kept)[i] = BytesOf(FoundLine(lines[i]))
  BY <1>2, <1>4, <1>5, LinesGrow
<1> HIDE DEF kept, n
<1>7. \A i \in DOMAIN kept : /\ RunsIn(kept)[i] <= limits.runsPerLine
                             /\ BytesIn(kept)[i] <= limits.lineBytes
  <2>1. \A i \in 1..n + 1 : i \in 1..n \/ i = n + 1
    BY <1>6
  <2>2. \A i \in 1..n : /\ RunsIn(kept)[i] <= limits.runsPerLine
                        /\ BytesIn(kept)[i] <= limits.lineBytes
    BY <1>3, <1>6 DEF TextPlaced, n
  <2>3. /\ RunsIn(kept)[n + 1] <= limits.runsPerLine
        /\ BytesIn(kept)[n + 1] <= limits.lineBytes
    BY <1>2, <1>3, <1>4, <1>6 DEF TextCounted
  <2> QED
    BY <1>6, <2>1, <2>2, <2>3
<1>8. /\ parser.totalRuns = SumFunction(RunsIn(kept)) /\ parser.totalRuns <= limits.runs
      /\ parser.lineBytes = BytesIn(kept)[Len(kept)]
      /\ parser.structured <= limits.structured
  BY <1>2, <1>3, <1>4, <1>6 DEF TextCounted
<1>9. parser.structured = SumFunction(BytesIn(kept)) + RunOverhead * SumFunction(RunsIn(kept))
                          + LineOverhead * Len(lines)
  BY <1>3, <1>4, <1>6, <1>8 DEF TextCounted
<1> QED
  BY <1>3, <1>7, <1>8, <1>9 DEF LimitsExact, TextPlaced, kept, l

(* Styles of a larger set.                                                 *)
LEMMA MoreStyles ==
  ASSUME NEW S, NEW T, S \subseteq T
  PROVE  Seq(Runs(S)) \subseteq Seq(Runs(T)) /\ Seq(Line(S)) \subseteq Seq(Line(T))
<1>1. Runs(S) \subseteq Runs(T)
  BY DEF Runs
<1>2. Seq(Runs(S)) \subseteq Seq(Runs(T))
  BY <1>1, SeqMonotonic
<1>3. Line(S) \subseteq Line(T)
  BY <1>2 DEF Line
<1> QED
  BY <1>2, <1>3, SeqMonotonic

(* A refusal or a cancellation keeps what there is.                        *)
LEMMA RefuseKeeps ==
  ASSUME TextInv, NEW why \in {"limit", "cancelled"}, Refuse(why)
  PROVE  TextInv'
<1>1. /\ parsed' \in {"parsing", "done", "limit", "cancelled"}
      /\ UNCHANGED <<tokens, input, index, limits, lines, parser>>
  BY DEF Refuse
<1>2. TextPlaced'
  BY <1>1 DEF TextInv, TextPlaced, InputEnd
<1>3. TextCounted'
  BY <1>1 DEF TextInv, TextCounted
<1>4. \E S : TextTyped(S)'
  BY <1>1 DEF TextInv, TextTyped
<1> QED
  BY <1>2, <1>3, <1>4 DEF TextInv

(* What is skipped leaves only a place and a style.                        *)
LEMMA SkipKeeps ==
  ASSUME TextInv, NEW next \in 1..InputEnd, NEW style, Skip(next, style)
  PROVE  TextInv'
<1>1. PICK S : TextTyped(S)
  BY DEF TextInv
<1> DEFINE T == S \cup {style}
<1>2. /\ index' = next /\ parser' = [parser EXCEPT !.style = style]
      /\ UNCHANGED <<tokens, input, limits, lines, parsed>>
  BY DEF Skip
<1>3. parser \in [runs: Seq(Runs(S)), style: S, lineBytes: Nat, warning: BOOLEAN,
                  totalRuns: Nat, structured: Nat] /\ lines \in Seq(Line(S))
  BY <1>1 DEF TextTyped
<1>4. /\ parser'.runs = parser.runs /\ parser'.lineBytes = parser.lineBytes
      /\ parser'.totalRuns = parser.totalRuns /\ parser'.structured = parser.structured
  BY <1>2, <1>3
<1>5. TextPlaced'
  BY <1>2 DEF TextInv, TextPlaced, InputEnd
<1>6. TextCounted'
  BY <1>2, <1>4 DEF TextInv, TextCounted
<1>7. TextTyped(T)'
  <2>1. Seq(Runs(S)) \subseteq Seq(Runs(T)) /\ Seq(Line(S)) \subseteq Seq(Line(T))
    BY MoreStyles
  <2>2. S \subseteq T /\ style \in T
    OBVIOUS
  <2> HIDE DEF T
  <2>3. parser' \in [runs: Seq(Runs(T)), style: T, lineBytes: Nat, warning: BOOLEAN,
                     totalRuns: Nat, structured: Nat]
    BY <1>2, <1>3, <2>1, <2>2
  <2>4. lines' \in Seq(Line(T))
    BY <1>2, <1>3, <2>1
  <2> QED
    BY <2>3, <2>4 DEF TextTyped
<1> QED
  BY <1>5, <1>6, <1>7 DEF TextInv

(* The arithmetic of a text that is added: d is 1 for a new run.           *)
LEMMA AddedText ==
  ASSUME NEW o \in Nat, NEW t \in Nat, NEW d \in {0, 1}, NEW base \in Nat, NEW line \in Nat,
         NEW over \in Nat, NEW b \in Nat, NEW s \in Nat,
         s = base + line + o * t + over
  PROVE  s + (b + (IF d = 0 THEN 0 ELSE o)) = base + (line + b) + o * (t + d) + over
<1>1. o * (t + d) = o * t + (IF d = 0 THEN 0 ELSE o)
  <2>1. CASE d = 0
    BY <2>1
  <2>2. CASE d = 1
    BY <2>2
  <2> QED
    BY <2>1, <2>2
<1> DEFINE x == o * t
           y == o * (t + d)
           c == IF d = 0 THEN 0 ELSE o
<1>2. x \in Nat /\ c \in Nat /\ y = x + c
  BY <1>1
<1>3. s = base + line + x + over
  OBVIOUS
<1> HIDE DEF x, y, c
<1>4. s + (b + c) = base + (line + b) + y + over
  BY <1>2, <1>3
<1> QED
  BY <1>4 DEF y, c

(* appendText keeps the counters true, in a new run or merged into the     *)
(* last one.                                                               *)
LEMMA AppendKeeps ==
  ASSUME TextInv, NEW text, NEW bytes, Takes(text, bytes), NEW warning \in BOOLEAN,
         NEW next \in 1..InputEnd, AppendText(text, bytes, warning, next)
  PROVE  TextInv'
<1>1. PICK S : TextTyped(S)
  BY DEF TextInv
<1> DEFINE rs == parser.runs
           tt == IF SameRun THEN [rs EXCEPT ![Len(rs)].text = @ \o text]
                 ELSE Append(rs, [text |-> text, style |-> parser.style])
           d == IF SameRun THEN 0 ELSE 1
           Refused == \/ bytes > limits.lineBytes - parser.lineBytes
                      \/ TextCost(bytes) > limits.structured - parser.structured
                      \/ ~SameRun /\ (\/ Len(parser.runs) >= limits.runsPerLine
                                      \/ parser.totalRuns >= limits.runs)
<1>2. CASE Refused
  <2>1. Refuse("limit")
    BY <1>2 DEF AppendText
  <2> QED
    BY <2>1, RefuseKeeps
<1>3. CASE ~Refused
  <2>1. /\ parser' = [parser EXCEPT
              !.runs = tt,
              !.lineBytes = parser.lineBytes + bytes,
              !.warning = parser.warning \/ warning,
              !.totalRuns = IF SameRun THEN parser.totalRuns ELSE parser.totalRuns + 1,
              !.structured = parser.structured + TextCost(bytes)]
        /\ index' = next
        /\ UNCHANGED <<tokens, input, limits, lines, parsed>>
    BY <1>3 DEF AppendText
  <2>2. /\ parser \in [runs: Seq(Runs(S)), style: S, lineBytes: Nat, warning: BOOLEAN,
                       totalRuns: Nat, structured: Nat]
        /\ lines \in Seq(Line(S))
    BY <1>1 DEF TextTyped
  <2>3. rs \in Seq(Runs(S)) /\ parser.style \in S /\ text \in Seq(Nat) /\ Len(rs) \in Nat
    BY <2>2 DEF Takes
  <2>4. /\ tt \in Seq(Runs(S)) /\ Len(tt) = Len(rs) + d
        /\ \E r \in Runs(S) : /\ r.text = text
                              /\ LineChars(tt) = LineChars(rs) \o RunChars(r)
    <3>1. CASE SameRun
      <4> DEFINE uu == [rs EXCEPT ![Len(rs)].text = @ \o text]
                 r == [text |-> text, style |-> rs[Len(rs)].style]
      <4>1. rs # <<>>
        BY <3>1 DEF SameRun
      <4>2. /\ uu \in Seq(Runs(S)) /\ Len(uu) = Len(rs) /\ r \in Runs(S)
            /\ LineChars(uu) = LineChars(rs) \o RunChars(r)
        <5> HIDE DEF rs
        <5> QED
          BY <2>3, <4>1, LineExtend
      <4>3. tt = uu /\ d = 0
        BY <3>1
      <4>4. r.text = text
        OBVIOUS
      <4> HIDE DEF uu, r, tt, rs, d
      <4>5. Len(tt) = Len(rs) + d
        BY <2>3, <4>2, <4>3
      <4> QED
        BY <4>2, <4>3, <4>4, <4>5
    <3>2. CASE ~SameRun
      <4> DEFINE r == [text |-> text, style |-> parser.style]
      <4>1. tt = Append(rs, r) /\ d = 1
        BY <3>2
      <4>2. r \in Runs(S) /\ r.text = text
        BY <2>3 DEF Runs
      <4> HIDE DEF r, tt, rs, d
      <4>3. LineChars(Append(rs, r)) = LineChars(rs) \o RunChars(r)
        BY <2>3, <4>2, LineAppend
      <4>4. Append(rs, r) \in Seq(Runs(S)) /\ Len(Append(rs, r)) = Len(rs) + 1
        BY <2>3, <4>2, AppendProperties
      <4> QED
        BY <4>1, <4>2, <4>3, <4>4
    <3> QED
      BY <3>1, <3>2
  <2>5. PICK r \in Runs(S) : r.text = text /\ LineChars(tt) = LineChars(rs) \o RunChars(r)
    BY <2>4
  <2> HIDE DEF tt
  <2>6. BytesOf(LineChars(tt)) = BytesOf(LineChars(rs)) + bytes /\ bytes \in Nat
    <3>1. BytesOf(RunChars(r)) = bytes /\ bytes \in Nat
      BY <2>5, RunBytes
    <3>2. LineChars(rs) \in Seq(Chars(S)) /\ RunChars(r) \in Seq(Chars(S))
      BY <2>3, LineAppend
    <3>3. BytesOf(LineChars(rs) \o RunChars(r)) = BytesOf(LineChars(rs)) + BytesOf(RunChars(r))
      BY <3>2, BytesConcat
    <3> QED
      BY <2>5, <3>1, <3>3
  <2>7. d \in {0, 1} /\ d \in Nat /\ parser.totalRuns \in Nat /\ parser.structured \in Nat
        /\ parser.lineBytes \in Nat
    BY <2>2
  <2>8. RunOverhead \in Nat /\ LineOverhead \in Nat
    BY TextAssumption
  <2>9. TextCost(bytes) = bytes + (IF d = 0 THEN 0 ELSE RunOverhead) /\ TextCost(bytes) \in Nat
    BY <2>6, <2>8 DEF TextCost
  <2>10. /\ parser'.runs = tt /\ parser'.lineBytes = parser.lineBytes + bytes
         /\ parser'.totalRuns = parser.totalRuns + d
         /\ parser'.structured = parser.structured + TextCost(bytes)
    <3>1. (IF SameRun THEN parser.totalRuns ELSE parser.totalRuns + 1) = parser.totalRuns + d
      BY <2>7
    <3> HIDE DEF d
    <3> QED
      BY <2>1, <2>2, <3>1
  <2>11. /\ parser.lineBytes + bytes <= limits.lineBytes
         /\ parser.structured + TextCost(bytes) <= limits.structured
         /\ Len(tt) <= limits.runsPerLine
         /\ parser.totalRuns + d <= limits.runs
    <3>0. limits.lineBytes \in Nat /\ limits.structured \in Nat /\ limits.runs \in Nat
          /\ limits.runsPerLine \in Nat
      BY TextAssumption DEF TextInv, TextPlaced
    <3>1. parser.lineBytes + bytes <= limits.lineBytes
      BY <1>3, <2>6, <2>7, <3>0
    <3>2. parser.structured + TextCost(bytes) <= limits.structured
      BY <1>3, <2>7, <2>9, <3>0
    <3>3. Len(rs) <= limits.runsPerLine /\ parser.totalRuns <= limits.runs
      BY DEF TextInv, TextCounted
    <3>4. CASE SameRun
      <4>1. d = 0
        BY <3>4
      <4> HIDE DEF d, rs
      <4>2. Len(tt) = Len(rs) /\ parser.totalRuns + d = parser.totalRuns
        <5>1. Len(tt) = Len(rs) + d
          BY <2>4
        <5>2. Len(rs) \in Nat /\ parser.totalRuns \in Nat
          BY <2>3, <2>7
        <5> QED
          BY ONLY <4>1, <5>1, <5>2, SMTT(60)
      <4> QED
        BY <3>1, <3>2, <3>3, <4>2
    <3>5. CASE ~SameRun
      <4>1. Len(rs) < limits.runsPerLine /\ parser.totalRuns < limits.runs
        BY <1>3, <2>3, <2>7, <3>0, <3>5, SMTT(60)
      <4>2. d = 1
        BY <3>5
      <4> HIDE DEF d, rs
      <4>3. Len(tt) <= limits.runsPerLine
        BY <2>3, <2>4, <3>0, <4>1, <4>2
      <4>4. parser.totalRuns + d <= limits.runs
        BY <2>7, <3>0, <4>1, <4>2
      <4> QED
        BY <3>1, <3>2, <4>3, <4>4
    <3> QED
      BY <3>1, <3>2, <3>4, <3>5
  <2> HIDE DEF d, rs
  <2>12. TextPlaced'
    BY <2>1 DEF TextInv, TextPlaced, InputEnd
  <2> DEFINE sr == SumFunction(RunsIn(lines))
             sb == SumFunction(BytesIn(lines))
             n == Len(lines)
  <2>13. sr \in Nat /\ sb \in Nat /\ n \in Nat
    <3>1. \A i \in 1..n : BytesOf(FoundLine(lines[i])) \in Nat
      BY DEF TextInv, TextPlaced
    <3>2. n \in Nat
      BY <2>2
    <3> QED
      BY <2>2, <3>1, <3>2, KeptSums
  <2>14. /\ parser.lineBytes = BytesOf(LineChars(rs))
         /\ parser.totalRuns = sr + Len(rs)
         /\ parser.structured = sb + parser.lineBytes + RunOverhead * parser.totalRuns
                                + LineOverhead * n
    BY DEF TextInv, TextCounted, rs
  <2>15. parser'.totalRuns = sr + Len(tt)
    <3> HIDE DEF sr
    <3> QED
      BY <2>3, <2>4, <2>7, <2>10, <2>13, <2>14
  <2>16. parser'.structured = sb + parser'.lineBytes + RunOverhead * parser'.totalRuns
                              + LineOverhead * n
    <3> DEFINE over == LineOverhead * n
    <3>1. over \in Nat
      BY <2>8, <2>13
    <3> HIDE DEF sb, over, n
    <3>2. parser.structured + (bytes + (IF d = 0 THEN 0 ELSE RunOverhead))
            = sb + (parser.lineBytes + bytes) + RunOverhead * (parser.totalRuns + d) + over
      <4>1. /\ RunOverhead \in Nat /\ parser.totalRuns \in Nat /\ d \in {0, 1} /\ sb \in Nat
            /\ parser.lineBytes \in Nat /\ over \in Nat /\ bytes \in Nat
            /\ parser.structured \in Nat
            /\ parser.structured = sb + parser.lineBytes + RunOverhead * parser.totalRuns + over
        BY <2>6, <2>7, <2>8, <2>13, <2>14, <3>1 DEF over
      <4> QED
        BY ONLY <4>1, AddedText, SMTT(60)
    <3> QED
      BY <2>9, <2>10, <3>2 DEF over
  <2>17. TextCounted'
    <3>1. parser'.lineBytes = BytesOf(LineChars(parser'.runs))
      BY <2>6, <2>10, <2>14
    <3>2. lines' = lines /\ limits' = limits
      BY <2>1
    <3> QED
      BY <2>10, <2>11, <2>15, <2>16, <3>1, <3>2 DEF TextCounted
  <2>18. TextTyped(S)'
    <3>1. /\ parser.lineBytes + bytes \in Nat
          /\ (IF SameRun THEN parser.totalRuns ELSE parser.totalRuns + 1) \in Nat
          /\ parser.structured + TextCost(bytes) \in Nat
          /\ (parser.warning \/ warning) \in BOOLEAN
      BY <2>6, <2>7, <2>9
    <3>2. parser' \in [runs: Seq(Runs(S)), style: S, lineBytes: Nat, warning: BOOLEAN,
                       totalRuns: Nat, structured: Nat]
      BY <2>1, <2>2, <2>4, <3>1
    <3> QED
      BY <2>1, <2>2, <3>2 DEF TextTyped
  <2> QED
    BY <2>12, <2>17, <2>18 DEF TextInv
<1> QED
  BY <1>2, <1>3

(* A line without runs takes nothing.                                      *)
LEMMA EmptyLine == Len(<<>>) = 0 /\ BytesOf(LineChars(<<>>)) = 0
<1>1. Laid(<<>>) = <<>>
  BY DEF Laid
<1>2. LineChars(<<>>) = <<>>
  BY <1>1, FlattenIs DEF LineChars
<1>3. BytesOf(<<>>) = 0
  <2>1. {c \in DOMAIN <<>> : <<>>[c].char = Label} = {}
    OBVIOUS
  <2>2. Cardinality({}) = 0
    BY FS_EmptySet
  <2>3. LabelBytes - 1 \in Int
    BY TextAssumption
  <2>4. (LabelBytes - 1) * 0 = 0
    BY <2>3
  <2> QED
    BY <2>1, <2>2, <2>4 DEF BytesOf
<1> QED
  BY <1>2, <1>3

(* flushLine: the counters of the line move to the finished lines.         *)
LEMMA FlushKeeps ==
  ASSUME TextInv, NEW next \in 1..InputEnd, NEW then \in {"parsing", "done"},
         FlushLine(next, then)
  PROVE  TextInv'
<1>1. PICK S : TextTyped(S)
  BY DEF TextInv
<1> DEFINE Refused == \/ Len(lines) >= limits.lines
                      \/ LineOverhead > limits.structured - parser.structured
           l == LastLine
           n == Len(lines)
<1>2. CASE Refused
  <2>1. Refuse("limit")
    BY <1>2 DEF FlushLine
  <2> QED
    BY <2>1, RefuseKeeps
<1>3. CASE ~Refused
  <2>1. /\ lines' = Append(lines, l)
        /\ parser' = [parser EXCEPT !.runs = <<>>, !.lineBytes = 0, !.warning = FALSE,
                                    !.structured = parser.structured + LineOverhead]
        /\ index' = next /\ parsed' = then
        /\ UNCHANGED <<tokens, input, limits>>
    BY <1>3 DEF FlushLine, LastLine
  <2>2. /\ parser \in [runs: Seq(Runs(S)), style: S, lineBytes: Nat, warning: BOOLEAN,
                       totalRuns: Nat, structured: Nat]
        /\ lines \in Seq(Line(S))
    BY <1>1 DEF TextTyped
  <2>3. l \in Line(S) /\ l.runs = parser.runs
    BY <2>2 DEF Line, LastLine
  <2> HIDE DEF l
  <2>4. LineOverhead \in Nat /\ RunOverhead \in Nat
    BY TextAssumption
  <2>5. limits.structured \in Nat /\ limits.lines \in Nat /\ limits.lineBytes \in Nat
        /\ limits.runsPerLine \in Nat
    BY TextAssumption DEF TextInv, TextPlaced
  <2>6. TextPlaced /\ TextCounted
    BY DEF TextInv
  <2>7. BytesOf(FoundLine(l)) = parser.lineBytes
    <3>1. FoundLine(l) = LineChars(l.runs)
      BY FoundIs
    <3> QED
      BY <2>3, <2>6, <3>1 DEF TextCounted
  <2>8. /\ Len(lines') = n + 1 /\ n \in Nat
        /\ SumFunction(RunsIn(lines')) = SumFunction(RunsIn(lines)) + Len(parser.runs)
        /\ SumFunction(BytesIn(lines')) = SumFunction(BytesIn(lines)) + parser.lineBytes
        /\ SumFunction(BytesIn(lines)) \in Nat /\ SumFunction(RunsIn(lines)) \in Nat
    <3>1. \A i \in 1..n : BytesOf(FoundLine(lines[i])) \in Nat
      BY <2>6 DEF TextPlaced
    <3>2. BytesOf(FoundLine(l)) \in Nat
      BY <2>2, <2>7
    <3>3. /\ Len(Append(lines, l)) = n + 1 /\ n \in Nat
          /\ SumFunction(RunsIn(Append(lines, l))) = SumFunction(RunsIn(lines)) + Len(l.runs)
          /\ SumFunction(BytesIn(Append(lines, l)))
               = SumFunction(BytesIn(lines)) + BytesOf(FoundLine(l))
          /\ SumFunction(BytesIn(lines)) \in Nat /\ SumFunction(RunsIn(lines)) \in Nat
      BY <2>2, <2>3, <3>1, <3>2, LinesGrow
    <3> QED
      BY ONLY <2>1, <2>3, <2>7, <3>3
  <2>9. /\ parser'.runs = <<>> /\ parser'.lineBytes = 0
        /\ parser'.totalRuns = parser.totalRuns
        /\ parser'.structured = parser.structured + LineOverhead
    BY <2>1, <2>2
  <2>10. TextPlaced'
    <3>1. n + 1 <= limits.lines
      BY <1>3, <2>5, <2>8
    <3>2. ASSUME NEW i \in 1..n + 1
          PROVE  /\ Len(lines'[i].runs) <= limits.runsPerLine
                 /\ BytesOf(FoundLine(lines'[i])) \in Nat
                 /\ BytesOf(FoundLine(lines'[i])) <= limits.lineBytes
      <4>1. lines'[n + 1] = l /\ \A j \in 1..n : lines'[j] = lines[j]
        BY <2>1, <2>2, <2>3, AppendProperties
      <4>2. CASE i = n + 1
        <5>1. lines'[i] = l
          BY <4>1, <4>2
        <5>2. /\ Len(l.runs) <= limits.runsPerLine
              /\ BytesOf(FoundLine(l)) \in Nat /\ BytesOf(FoundLine(l)) <= limits.lineBytes
          BY <2>2, <2>3, <2>6, <2>7 DEF TextCounted
        <5> QED
          BY <5>1, <5>2
      <4>3. CASE i # n + 1
        <5>1. i \in 1..n
          BY <2>8, <4>3
        <5>2. lines'[i] = lines[i]
          BY <4>1, <5>1
        <5> QED
          BY <2>6, <5>1, <5>2 DEF TextPlaced
      <4> QED
        BY <4>2, <4>3
    <3>3. /\ limits' \in ParseLimits /\ Len(input') \in Nat /\ index' \in 1..InputEnd'
          /\ parsed' \in {"parsing", "done", "limit", "cancelled"} /\ limits' = limits
      BY <2>1, <2>6 DEF TextPlaced, InputEnd
    <3> HIDE DEF n
    <3> QED
      BY <2>8, <3>1, <3>2, <3>3 DEF TextPlaced
  <2>11. Len(<<>>) = 0 /\ BytesOf(LineChars(<<>>)) = 0
    BY EmptyLine
  <2>12. TextCounted'
    <3> DEFINE sr == SumFunction(RunsIn(lines))
               sb == SumFunction(BytesIn(lines))
               rest == RunOverhead * parser.totalRuns
               x == LineOverhead * n
    <3>1. rest \in Nat /\ x \in Nat /\ LineOverhead * (n + 1) = x + LineOverhead
      BY <2>2, <2>4, <2>8
    <3>2. /\ parser.totalRuns = sr + Len(parser.runs) /\ parser.totalRuns <= limits.runs
          /\ parser.structured = sb + parser.lineBytes + rest + x
      BY <2>6 DEF TextCounted
    <3>3. parser'.totalRuns = SumFunction(RunsIn(lines')) + Len(parser'.runs)
      <4>1. SumFunction(RunsIn(lines')) = parser.totalRuns /\ parser.totalRuns \in Nat
        BY <2>2, <2>8, <3>2, SMTT(60)
      <4> QED
        BY <2>9, <2>11, <4>1, SMTT(60)
    <3>4. parser'.structured = SumFunction(BytesIn(lines')) + parser'.lineBytes
                               + RunOverhead * parser'.totalRuns + LineOverhead * Len(lines')
      <4>1. SumFunction(BytesIn(lines')) = sb + parser.lineBytes /\ sb \in Nat
        BY <2>8
      <4>2. RunOverhead * parser'.totalRuns = rest /\ LineOverhead * Len(lines') = x + LineOverhead
        BY <2>8, <2>9, <3>1, SMTT(60)
      <4>3. parser.lineBytes \in Nat
        BY <2>2
      <4> HIDE DEF sb, rest, x
      <4>4. parser.structured + LineOverhead = (sb + parser.lineBytes) + 0 + rest + (x + LineOverhead)
        BY <2>4, <3>1, <3>2, <4>1, <4>3, SMTT(60)
      <4> QED
        BY <2>9, <4>1, <4>2, <4>4
    <3>5. parser'.structured <= limits.structured
      BY <1>3, <2>2, <2>4, <2>5, <2>9
    <3>6. 0 <= limits.lineBytes /\ 0 <= limits.runsPerLine
      BY <2>5
    <3> QED
      BY <2>1, <2>9, <2>11, <3>2, <3>3, <3>4, <3>5, <3>6 DEF TextCounted
  <2>13. TextTyped(S)'
    <3>1. <<>> \in Seq(Runs(S))
      OBVIOUS
    <3>2. parser.structured + LineOverhead \in Nat
      BY <2>2, <2>4
    <3>3. parser' \in [runs: Seq(Runs(S)), style: S, lineBytes: Nat, warning: BOOLEAN,
                       totalRuns: Nat, structured: Nat]
      BY <2>1, <2>2, <3>1, <3>2
    <3>4. lines' \in Seq(Line(S))
      BY <2>1, <2>2, <2>3, AppendProperties
    <3> QED
      BY <3>3, <3>4 DEF TextTyped
  <2> QED
    BY <2>10, <2>12, <2>13 DEF TextInv
<1> QED
  BY <1>2, <1>3

(* The places the parser can get to.                                       *)
LEMMA PlaceIs ==
  ASSUME TextInv
  PROVE  /\ Len(input) \in Nat /\ index \in 1..InputEnd /\ InputEnd = Len(input) + 1
         /\ InputEnd \in Nat
         /\ \A B : AtByte(B) => index + 1 \in 1..InputEnd /\ index \in 1..Len(input)
         /\ \A B : Follows(B) => index + 2 \in 1..InputEnd
<1>1. Len(input) \in Nat /\ index \in 1..InputEnd /\ InputEnd = Len(input) + 1
  BY DEF TextInv, TextPlaced, InputEnd
<1>2. ASSUME NEW B, AtByte(B) PROVE index + 1 \in 1..InputEnd /\ index \in 1..Len(input)
  <2>1. index < InputEnd
    BY <1>2 DEF AtByte
  <2> QED
    BY <1>1, <2>1
<1>3. ASSUME NEW B, Follows(B) PROVE index + 2 \in 1..InputEnd
  <2>1. index + 1 < InputEnd
    BY <1>3 DEF Follows
  <2> QED
    BY <1>1, <2>1
<1> QED
  BY <1>1, <1>2, <1>3

(* Bytes that are kept as they are.                                        *)
LEMMA TakesBytes ==
  ASSUME NEW x \in 0..255, NEW y \in 0..255
  PROVE  Takes(<<x>>, 1) /\ Takes(<<x, y>>, 2) /\ Takes(<<Label>>, LabelBytes)
<1>1. Label \in Nat /\ x \in Nat /\ y \in Nat /\ x # Label /\ y # Label
  BY DEF Label
<1>2. Takes(<<x>>, 1)
  <2>1. <<x>> \in Seq(Nat) /\ Len(<<x>>) = 1 /\ \A i \in 1..1 : <<x>>[i] = x
    BY <1>1
  <2> QED
    BY <1>1, <2>1 DEF Takes
<1>3. Takes(<<x, y>>, 2)
  <2>1. <<x, y>> \in Seq(Nat) /\ Len(<<x, y>>) = 2 /\ <<x, y>>[1] = x /\ <<x, y>>[2] = y
    BY <1>1
  <2>2. \A i \in 1..2 : i = 1 \/ i = 2
    OBVIOUS
  <2>3. \A i \in 1..2 : <<x, y>>[i] # Label
    BY <1>1, <2>1, <2>2
  <2> QED
    BY <2>1, <2>3 DEF Takes
<1>4. Takes(<<Label>>, LabelBytes)
  <2>1. <<Label>> \in Seq(Nat)
    BY <1>1
  <2> QED
    BY <2>1 DEF Takes
<1> QED
  BY <1>2, <1>3, <1>4

(* A CSI sequence ends inside the input, or with it.                       *)
LEMMA CSIKeeps ==
  ASSUME TextInv, NEW start \in 1..InputEnd, SkipCSI(start)
  PROVE  TextInv'
<1> DEFINE P == {i \in start..Len(input) : Byte(i) \in 64..126} \cup {InputEnd}
           final == CSIFinal(start)
           Q == {final + 1, InputEnd}
<1>1. Len(input) \in Nat /\ InputEnd \in Nat /\ InputEnd = Len(input) + 1
  BY PlaceIs
<1>2. P \subseteq 1..InputEnd /\ P # {} /\ P \subseteq Nat
  BY <1>1
<1>3. final = Smallest(P)
  BY DEF CSIFinal
<1> HIDE DEF P, final
<1>4. final \in 1..InputEnd
  BY <1>2, <1>3, SmallestIs
<1>5. Q \subseteq Nat /\ Q # {} /\ InputEnd \in Q /\ \A j \in Q : j >= 1
  BY <1>1, <1>4
<1> DEFINE next == Smallest(Q)
<1>6. next \in Q /\ next <= InputEnd
  <2> HIDE DEF Q
  <2> QED
    BY <1>5, SmallestIs
<1>7. next \in 1..InputEnd
  <2> HIDE DEF Q, next
  <2> QED
    BY <1>1, <1>5, <1>6
<1>8. Skip(next, CSIStyle(start))
  BY DEF SkipCSI, final
<1> HIDE DEF next
<1> QED
  BY <1>7, <1>8, SkipKeeps

(* So does a string control.                                               *)
LEMMA StringKeeps ==
  ASSUME TextInv, NEW start \in 1..InputEnd, NEW allowBEL, SkipString(start, allowBEL)
  PROVE  TextInv'
<1> DEFINE A == {j \in start..Len(input) : Byte(j) = 156 \/ (allowBEL /\ Byte(j) = BEL)}
           B == {j \in start..(Len(input) - 1) : Byte(j) = ESC /\ Byte(j + 1) = 92}
           P == {i + 1 : i \in A} \cup {i + 2 : i \in B} \cup {InputEnd}
<1>1. Len(input) \in Nat /\ InputEnd \in Nat /\ InputEnd = Len(input) + 1
  BY PlaceIs
<1>2. A \subseteq start..Len(input) /\ B \subseteq start..(Len(input) - 1)
  OBVIOUS
<1>3. Skip(Smallest(P), parser.style)
  BY DEF SkipString, StringNext
<1> HIDE DEF A, B
<1>4. P \subseteq 1..InputEnd /\ P # {} /\ P \subseteq Nat
  <2>1. \A i \in A : i + 1 \in 1..InputEnd
    BY <1>1, <1>2
  <2>2. \A i \in B : i + 2 \in 1..InputEnd
    BY <1>1, <1>2
  <2>3. InputEnd \in 1..InputEnd
    BY <1>1
  <2>4. P \subseteq 1..InputEnd /\ P # {}
    BY <2>1, <2>2, <2>3
  <2> HIDE DEF P
  <2> QED
    BY <1>1, <2>4
<1> HIDE DEF P
<1>5. Smallest(P) \in 1..InputEnd
  BY <1>4, SmallestIs
<1> QED
  BY <1>3, <1>5, SkipKeeps

(* A rune is two bytes, or the label of a bidi control.                    *)
LEMMA RuneKeeps == TextInv /\ ParseRune => TextInv'
<1> SUFFICES ASSUME TextInv, ParseRune PROVE TextInv'
  OBVIOUS
<1> DEFINE x == Byte(index)
           y == Byte(index + 1)
<1>1. AtByte(194..223) /\ Follows(128..191)
  BY DEF ParseRune
<1>2. index + 2 \in 1..InputEnd
  BY <1>1, PlaceIs
<1>3. x \in 0..255 /\ y \in 0..255
  BY <1>1 DEF AtByte, Follows
<1>4. \/ AppendText(<<Label>>, LabelBytes, TRUE, index + 2)
      \/ AppendText(<<x, y>>, 2, FALSE, index + 2)
  BY DEF ParseRune
<1> HIDE DEF x, y
<1>5. Takes(<<x, y>>, 2) /\ Takes(<<Label>>, LabelBytes)
  BY <1>3, TakesBytes
<1> QED
  BY <1>2, <1>4, <1>5, AppendKeeps

(* A byte that is kept as it is.                                           *)
LEMMA OneByteKeeps ==
  ASSUME TextInv, NEW B, B \subseteq 0..255, AtByte(B),
         AppendText(<<Byte(index)>>, 1, FALSE, index + 1)
  PROVE  TextInv'
<1> DEFINE x == Byte(index)
<1>1. index + 1 \in 1..InputEnd
  BY PlaceIs
<1>2. x \in 0..255
  BY DEF AtByte
<1>3. Takes(<<x>>, 1)
  <2> HIDE DEF x
  <2> QED
    BY <1>2, TakesBytes
<1> QED
  BY <1>1, <1>3, AppendKeeps

(* A byte of no rune.                                                      *)
LEMMA InvalidKeeps == TextInv /\ ParseInvalid => TextInv'
<1> SUFFICES ASSUME TextInv, ParseInvalid PROVE TextInv'
  OBVIOUS
<1>1. PICK B \in {194..223, (128..143) \cup (160..193)} : AtByte(B)
  BY DEF ParseInvalid
<1>2. B \subseteq 0..255
  BY <1>1
<1>3. AppendText(<<Byte(index)>>, 1, FALSE, index + 1)
  BY DEF ParseInvalid
<1> QED
  BY <1>1, <1>2, <1>3, OneByteKeeps

(* A tab.                                                                  *)
LEMMA TabKeeps == TextInv /\ ParseTab => TextInv'
<1> SUFFICES ASSUME TextInv, ParseTab PROVE TextInv'
  OBVIOUS
<1>1. AtByte({TAB}) /\ AppendText(<<TAB>>, 1, FALSE, index + 1)
  BY DEF ParseTab
<1>2. TAB \in 0..255
  BY DEF TAB
<1>3. Byte(index) = TAB
  BY <1>1 DEF AtByte
<1>4. AppendText(<<Byte(index)>>, 1, FALSE, index + 1)
  BY <1>1, <1>3, Zenon
<1>5. {TAB} \subseteq 0..255
  BY <1>2
<1> QED
  BY <1>1, <1>4, <1>5, OneByteKeeps

(* The C1 controls.                                                        *)
LEMMA C1Keeps == TextInv /\ ParseC1 => TextInv'
<1> SUFFICES ASSUME TextInv, ParseC1 PROVE TextInv'
  OBVIOUS
<1>1. index + 1 \in 1..InputEnd
  BY PlaceIs DEF ParseC1
<1>2. CASE SkipString(index + 1, Byte(index) = 157)
  BY <1>1, <1>2, StringKeeps
<1>3. CASE SkipCSI(index + 1)
  BY <1>1, <1>3, CSIKeeps
<1>4. CASE Skip(index + 1, parser.style)
  BY <1>1, <1>4, SkipKeeps
<1> QED
  BY <1>2, <1>3, <1>4 DEF ParseC1

(* The end of a line.                                                      *)
LEMMA NewlineKeeps == TextInv /\ ParseNewline => TextInv'
<1> SUFFICES ASSUME TextInv, ParseNewline PROVE TextInv'
  OBVIOUS
<1>1. index + 1 \in 1..InputEnd /\ FlushLine(index + 1, "parsing")
  BY PlaceIs DEF ParseNewline
<1> QED
  BY <1>1, FlushKeeps

(* The other controls.                                                     *)
LEMMA ControlKeeps == TextInv /\ ParseControl => TextInv'
<1> SUFFICES ASSUME TextInv, ParseControl PROVE TextInv'
  OBVIOUS
<1>1. index + 1 \in 1..InputEnd /\ Skip(index + 1, parser.style)
  BY PlaceIs DEF ParseControl
<1> QED
  BY <1>1, SkipKeeps

(* Escape sequences, finished or not.                                      *)
LEMMA EscapeKeeps == TextInv /\ ParseEscape => TextInv'
<1> SUFFICES ASSUME TextInv, ParseEscape PROVE TextInv'
  OBVIOUS
<1>1. CASE Follows({91}) /\ SkipCSI(index + 2)
  <2>1. index + 2 \in 1..InputEnd
    BY <1>1, PlaceIs
  <2> QED
    BY <1>1, <2>1, CSIKeeps
<1>2. CASE Follows({93, 80, 95, 94}) /\ SkipString(index + 2, Byte(index + 1) = 93)
  <2>1. index + 2 \in 1..InputEnd
    BY <1>2, PlaceIs
  <2> QED
    BY <1>2, <2>1, StringKeeps
<1>3. CASE Skip(Smallest({index + 2, InputEnd}), parser.style)
  <2> DEFINE P == {index + 2, InputEnd}
  <2>1. Len(input) \in Nat /\ InputEnd \in Nat /\ index \in 1..InputEnd
    BY PlaceIs
  <2>2. P \subseteq Nat /\ P # {} /\ InputEnd \in P /\ \A j \in P : j >= 1
    BY <2>1
  <2> HIDE DEF P
  <2>3. Smallest(P) \in P /\ Smallest(P) <= InputEnd
    BY <2>2, SmallestIs
  <2>4. Smallest(P) \in 1..InputEnd
    <3> DEFINE m == Smallest(P)
    <3>1. m \in Nat /\ m >= 1 /\ m <= InputEnd
      BY <2>2, <2>3
    <3> HIDE DEF m
    <3>2. m \in 1..InputEnd
      BY <2>1, <3>1
    <3> QED
      BY <3>2 DEF m
  <2>5. Skip(Smallest(P), parser.style)
    BY <1>3 DEF P
  <2> QED
    BY <2>4, <2>5, SkipKeeps
<1> QED
  BY <1>1, <1>2, <1>3 DEF ParseEscape

(* A stretch of printable bytes: none of them stands for a label.          *)
LEMMA PrintableKeeps == TextInv /\ ParsePrintable => TextInv'
<1> SUFFICES ASSUME TextInv, ParsePrintable PROVE TextInv'
  OBVIOUS
<1> DEFINE P == {i \in index..Len(input) : Byte(i) \notin 32..126} \cup {InputEnd}
           next == Smallest(P)
           text == [i \in 1..(next - index) |-> Byte(index + i - 1)]
<1>1. AppendText(text, next - index, FALSE, next)
  BY DEF ParsePrintable
<1>2. Len(input) \in Nat /\ InputEnd \in Nat /\ InputEnd = Len(input) + 1 /\ index \in 1..InputEnd
  BY PlaceIs
<1>3. P \subseteq index..InputEnd /\ P # {} /\ P \subseteq Nat
  <2>1. index..Len(input) \subseteq index..InputEnd /\ InputEnd \in index..InputEnd
    BY <1>2
  <2>2. P \subseteq index..InputEnd /\ P # {}
    BY <2>1
  <2>3. index..InputEnd \subseteq Nat
    BY <1>2
  <2> HIDE DEF P
  <2> QED
    BY <2>2, <2>3
<1>4. next \in P /\ \A j \in P : next <= j
  <2> HIDE DEF P
  <2> QED
    BY <1>3, SmallestIs
<1>5. next \in index..InputEnd
  <2> HIDE DEF P, next
  <2> QED
    BY <1>3, <1>4
<1> DEFINE n == next - index
<1>6. n \in Nat /\ next \in 1..InputEnd
  <2> HIDE DEF next
  <2> QED
    BY <1>2, <1>5
<1>7. ASSUME NEW i \in 1..n PROVE Byte(index + i - 1) \in 32..126
  <2> DEFINE j == index + i - 1
  <2>1. j \in index..Len(input) /\ j < next
    <3> HIDE DEF next
    <3> QED
      BY <1>2, <1>5
  <2>2. j \notin P
    <3> HIDE DEF P, next, j
    <3> QED
      BY <1>2, <1>4, <1>5, <2>1
  <2> QED
    BY <2>1, <2>2
<1> HIDE DEF next, P
<1>8. text = [i \in 1..n |-> Byte(index + i - 1)]
  OBVIOUS
<1>9. text \in Seq(Nat) /\ Len(text) = n /\ \A i \in 1..n : text[i] \in 32..126
  <2> HIDE DEF n, text
  <2>1. \A i \in 1..n : Byte(index + i - 1) \in Nat
    BY <1>7
  <2>2. text \in Seq(Nat) /\ Len(text) = n
    BY <1>6, <1>8, <2>1
  <2>3. \A i \in 1..n : text[i] = Byte(index + i - 1)
    BY <1>8
  <2> QED
    BY <1>7, <2>2, <2>3
<1> HIDE DEF text, n
<1>10. Takes(text, n)
  <2>1. \A i \in 1..n : text[i] # Label
    <3>1. \A v \in 32..126 : v # Label
      BY DEF Label
    <3> QED
      BY <1>9, <3>1
  <2> QED
    BY <1>9, <2>1 DEF Takes
<1>11. AppendText(text, n, FALSE, next)
  BY <1>1 DEF n
<1> QED
  BY <1>6, <1>10, <1>11, AppendKeeps

(* The end of the input.                                                   *)
LEMMA EndKeeps == TextInv /\ ParseEnd => TextInv'
<1> SUFFICES ASSUME TextInv, ParseEnd PROVE TextInv'
  OBVIOUS
<1>1. index \in 1..InputEnd /\ FlushLine(index, "done")
  BY PlaceIs DEF ParseEnd
<1> QED
  BY <1>1, FlushKeeps

(* A step of the parser.                                                   *)
LEMMA TextStep == TextInv /\ [TextNext]_textVars => TextInv'
<1> SUFFICES ASSUME TextInv, [TextNext]_textVars PROVE TextInv'
  OBVIOUS
<1>1. CASE ParseCancelled
  <2>1. Refuse("cancelled")
    BY <1>1 DEF ParseCancelled
  <2> QED
    BY <2>1, RefuseKeeps
<1>2. CASE UNCHANGED textVars
  <2>1. UNCHANGED <<tokens, input, index, limits, lines, parser, parsed>>
    BY <1>2 DEF textVars
  <2> QED
    BY <2>1 DEF TextInv, TextPlaced, TextCounted, TextTyped, InputEnd
<1> QED
  BY <1>1, <1>2, RuneKeeps, InvalidKeeps, C1Keeps, NewlineKeeps, TabKeeps, ControlKeeps,
     EscapeKeeps, PrintableKeeps, EndKeeps DEF TextNext

(* The parser starts with nothing and owes nothing.                        *)
LEMMA TextStart == TextInit => TextInv
<1> SUFFICES ASSUME TextInit PROVE TextInv
  OBVIOUS
<1>1. /\ tokens \in Texts /\ input = FlattenSeq([i \in DOMAIN tokens |-> tokens[i].bytes])
      /\ limits \in ParseLimits /\ index = 1 /\ lines = <<>> /\ parser = NewParser
      /\ parsed = "parsing"
  BY DEF TextInit
<1>2. Len(input) \in Nat
  <2> DEFINE n == Len(tokens)
             ss == [i \in DOMAIN tokens |-> tokens[i].bytes]
             C == UNION {Range(tokens[i].bytes) : i \in 1..n}
  <2>1. /\ tokens \in Seq(Range(tokens))
        /\ \A i \in DOMAIN tokens : tokens[i].bytes \in Seq(Range(tokens[i].bytes))
    BY <1>1, TextAssumption
  <2>2. n \in Nat /\ DOMAIN tokens = 1..n
    BY <2>1, LenProperties
  <2>3. ASSUME NEW i \in 1..n PROVE tokens[i].bytes \in Seq(C)
    <3>1. Range(tokens[i].bytes) \subseteq C
      OBVIOUS
    <3>2. tokens[i].bytes \in Seq(Range(tokens[i].bytes))
      BY <2>1, <2>2
    <3> HIDE DEF C
    <3> QED
      BY <3>1, <3>2, SeqMonotonic
  <2> HIDE DEF C, n
  <2>4. ss = [i \in 1..n |-> tokens[i].bytes]
    BY <2>2
  <2> HIDE DEF ss
  <2>5. ss \in Seq(Seq(C))
    BY <2>2, <2>3, <2>4
  <2>6. FlattenSeq(ss) \in Seq(C)
    BY <2>5, FlattenType
  <2> QED
    BY <1>1, <2>6, LenProperties DEF ss
<1>3. /\ limits.lines \in Nat /\ limits.lineBytes \in Nat /\ limits.runsPerLine \in Nat
      /\ limits.runs \in Nat /\ limits.structured \in Nat
  BY <1>1, TextAssumption
<1>4. Len(lines) = 0 /\ lines = <<>>
  BY <1>1
<1>5. TextPlaced
  <2>1. index \in 1..InputEnd
    BY <1>1, <1>2 DEF InputEnd
  <2> QED
    BY <1>1, <1>2, <1>3, <1>4, <2>1 DEF TextPlaced
<1>6. /\ parser.runs = <<>> /\ parser.lineBytes = 0 /\ parser.totalRuns = 0
      /\ parser.structured = 0
  BY <1>1 DEF NewParser
<1>7. TextCounted
  <2>1. SumFunction(RunsIn(<<>>)) = 0 /\ SumFunction(BytesIn(<<>>)) = 0
    <3>1. DOMAIN RunsIn(<<>>) = {} /\ DOMAIN BytesIn(<<>>) = {}
      BY DEF RunsIn, BytesIn
    <3> QED
      BY <3>1, SumEmpty DEF SumFunction
  <2>2. RunOverhead * 0 = 0 /\ LineOverhead * 0 = 0
    BY TextAssumption
  <2>3. Len(<<>>) = 0 /\ BytesOf(LineChars(<<>>)) = 0
    BY EmptyLine
  <2> QED
    BY <1>3, <1>4, <1>6, <2>1, <2>2, <2>3 DEF TextCounted
<1>8. TextTyped({PlainStyle})
  BY <1>1 DEF TextTyped, NewParser
<1> QED
  BY <1>5, <1>7, <1>8 DEF TextInv

(* The parser stays within its limits at every step, for every text and    *)
(* all limits, and its counters are what the lines and runs it built take. *)
THEOREM TextLimits == TextSpec => []LimitsExact
<1>1. TextInit => TextInv
  BY TextStart
<1>2. TextInv /\ [TextNext]_textVars => TextInv'
  BY TextStep
<1>3. TextInv => LimitsExact
  BY TextInvExact
<1> QED
  BY <1>1, <1>2, <1>3, PTL DEF TextSpec
=============================================================================
