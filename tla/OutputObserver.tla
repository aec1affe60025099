--------------------------- MODULE OutputObserver ---------------------------
(***************************************************************************)
(* outputObservingConn (proxy.go): the connection to ttyd that counts the  *)
(* bytes of WebSocket data frames on their way to the browser.  It sees    *)
(* what Read returned, cut anywhere: inside the header of the response,    *)
(* inside the header of a frame, inside an extended length.                *)
(*                                                                         *)
(* wire is what ttyd sends.  A byte is its value and, for the property     *)
(* only, whether a reader of the whole stream would call it data payload;  *)
(* the observer looks at values.  One step is one Read, one byte of the    *)
(* loop of inspect, or one iteration of the loop of inspectFrames.         *)
(***************************************************************************)
EXTENDS Naturals, Sequences, FiniteSets

CONSTANTS
    Preambles,      \* response headers, as sequences of values
    Frames          \* sequences of frames: [opcode, form, masked, payload]

CR == 13
LF == 10
HeaderEnd == <<CR, LF, CR, LF>>
HeaderCapacity == 14

(* form says how the length is encoded: in 7 bits, or extended to 16 or 64.*)
Frame == [opcode: 0..15, form: {7, 16, 64}, masked: BOOLEAN, payload: Seq(0..255)]

(* The first blank line ends a response header, and a length fits its form *)
(* (in the 64 bits, into three bytes).                                     *)
ASSUME ObserverAssumption ==
    /\ Preambles \subseteq Seq(0..255)
    /\ \A pre \in Preambles : \A i \in 1..Len(pre) :
         SubSeq(pre \o HeaderEnd, i, i + 3) # HeaderEnd
    /\ Frames \subseteq Seq(Frame)
    /\ \A fs \in Frames : \A i \in DOMAIN fs :
         /\ fs[i].form = 7 => Len(fs[i].payload) < 126
         /\ fs[i].form = 16 => Len(fs[i].payload) < 256 * 256
         /\ fs[i].form = 64 => Len(fs[i].payload) < 256 * 256 * 256

VARIABLES
    wire,       \* bytes ttyd sent that no Read has returned
    buffer,     \* rest of the last Read, still to be inspected
    conn,       \* the fields of outputObservingConn
    observed,   \* what the observer was told, in all
    carried     \* data payload bytes among those Read returned

observerVars == <<wire, buffer, conn, observed, carried>>

-----------------------------------------------------------------------------
(* What ttyd sends                                                         *)

Plain(values) == [i \in DOMAIN values |-> [value |-> values[i], data |-> FALSE]]

IsData(opcode) == opcode \in {0, 1, 2}

LengthCode(f) == CASE f.form = 7 -> Len(f.payload) [] f.form = 16 -> 126 [] OTHER -> 127

(* The length in network byte order.                                       *)
Extended(f) ==
    LET length == Len(f.payload)
    IN  CASE f.form = 7 -> <<>>
          [] f.form = 16 -> <<length \div 256, length % 256>>
          [] OTHER -> <<0, 0, 0, 0, 0, (length \div 256) \div 256,
                        (length \div 256) % 256, length % 256>>

(* A frame of RFC 6455: opcode, mask bit and length code, extended length, *)
(* masking key, payload.                                                   *)
Encoded(f) ==
    Plain(<<128 + f.opcode, (IF f.masked THEN 128 ELSE 0) + LengthCode(f)>>
          \o Extended(f) \o (IF f.masked THEN <<1, 126, 127, 2>> ELSE <<>>))
    \o [i \in DOMAIN f.payload |->
          [value |-> f.payload[i], data |-> IsData(f.opcode)]]

(* The bytes of all frames of fs, front to back.                           *)
Stream(fs) ==
    LET upTo[n \in 0..Len(fs)] ==
          IF n = 0 THEN <<>> ELSE upTo[n - 1] \o Encoded(fs[n])
    IN  upTo[Len(fs)]

-----------------------------------------------------------------------------
(* The observer                                                            *)

NewConn == [match |-> 0, upgraded |-> FALSE, header |-> <<>>, need |-> 0,
            payload |-> 0, dataFrame |-> FALSE]

ObserverInit ==
    /\ \E pre \in Preambles, fs \in Frames :
         wire = Plain(pre \o HeaderEnd) \o Stream(fs)
    /\ buffer = <<>>
    /\ conn = NewConn
    /\ observed = 0
    /\ carried = 0

DataBytes(bytes) == Cardinality({i \in DOMAIN bytes : bytes[i].data})

(* Read returns some of what has arrived, and inspect starts on it.        *)
Read ==
    /\ buffer = <<>>
    /\ \E n \in 1..Len(wire) :
         /\ buffer' = SubSeq(wire, 1, n)
         /\ wire' = SubSeq(wire, n + 1, Len(wire))
         /\ carried' = carried + DataBytes(SubSeq(wire, 1, n))
    /\ UNCHANGED <<conn, observed>>

Drop(n) == buffer' = SubSeq(buffer, n + 1, Len(buffer))

NextMatch(value) ==
    CASE value = HeaderEnd[conn.match + 1] -> conn.match + 1
      [] value # HeaderEnd[conn.match + 1] /\ value = HeaderEnd[1] -> 1
      [] OTHER -> 0

(* inspect before the end of the response header, one byte.                *)
Inspect ==
    /\ buffer # <<>> /\ ~conn.upgraded
    /\ LET match == NextMatch(buffer[1].value)
       IN  conn' = [conn EXCEPT !.match = match,
                                !.upgraded = match = Len(HeaderEnd)]
    /\ Drop(1)
    /\ UNCHANGED <<wire, observed, carried>>

Smaller(a, b) == IF a <= b THEN a ELSE b

(* inspectFrames inside a payload.                                         *)
InspectPayload ==
    /\ buffer # <<>> /\ conn.upgraded /\ conn.payload > 0
    /\ LET consumed == Smaller(Len(buffer), conn.payload)
           rest == conn.payload - consumed
       IN  /\ observed' = IF conn.dataFrame THEN observed + consumed ELSE observed
           /\ conn' = IF rest = 0
                      THEN [conn EXCEPT !.payload = 0, !.header = <<>>, !.need = 0]
                      ELSE [conn EXCEPT !.payload = rest]
           /\ Drop(consumed)
    /\ UNCHANGED <<wire, carried>>

(* The masking key is taken for payload.                                   *)
HeaderNeedUnmasked(header) ==
    2 + (CASE header[2] % 128 = 126 -> 2
           [] header[2] % 128 = 127 -> 8
           [] OTHER -> 0)

(* Length of the header whose first two bytes are known.                   *)
HeaderNeed(header) ==
    2 + (CASE header[2] % 128 = 126 -> 2
           [] header[2] % 128 = 127 -> 8
           [] OTHER -> 0)
      + (IF header[2] \div 128 = 1 THEN 4 ELSE 0)

(* binary.BigEndian; lengths here have at most three significant bytes.    *)
PayloadLength(header) ==
    CASE header[2] % 128 = 126 -> 256 * header[3] + header[4]
      [] header[2] % 128 = 127 -> 256 * (256 * header[8] + header[9]) + header[10]
      [] OTHER -> header[2] % 128

(* beginFrame                                                              *)
BeginFrame(header) ==
    LET empty == PayloadLength(header) = 0
    IN  [conn EXCEPT !.header = IF empty THEN <<>> ELSE header,
                     !.need = IF empty THEN 0 ELSE Len(header),
                     !.payload = PayloadLength(header),
                     !.dataFrame = IsData(header[1] % 16)]

Values(bytes) == [i \in DOMAIN bytes |-> bytes[i].value]

(* inspectFrames outside a payload: take what the header still needs.      *)
InspectFrameHeader ==
    /\ buffer # <<>> /\ conn.upgraded /\ conn.payload = 0
    /\ LET need == IF conn.need = 0 THEN 2 ELSE conn.need
           taken == Smaller(Len(buffer), need - Len(conn.header))
           header == conn.header \o Values(SubSeq(buffer, 1, taken))
           whole == IF need = 2 /\ Len(header) = 2 THEN HeaderNeed(header) ELSE need
       IN  /\ Drop(taken)
           /\ conn' = IF Len(header) < whole
                      THEN [conn EXCEPT !.header = header, !.need = whole]
                      ELSE BeginFrame(header)
    /\ UNCHANGED <<wire, observed, carried>>

InspectStep == Inspect \/ InspectPayload \/ InspectFrameHeader
ObserverNext == Read \/ InspectStep

ObserverSpec == ObserverInit /\ [][ObserverNext]_observerVars

-----------------------------------------------------------------------------
(* Properties                                                              *)

(* The fields stay in their ranges; the header of a frame never outgrows   *)
(* the 14 bytes of frameHeader.                                            *)
ObserverTypeOK ==
    /\ conn.match \in 0..Len(HeaderEnd) /\ conn.upgraded \in BOOLEAN
    /\ conn.need \in 0..HeaderCapacity /\ Len(conn.header) <= HeaderCapacity
    /\ conn.header \in Seq(0..255)
    /\ conn.payload \in Nat /\ conn.dataFrame \in BOOLEAN
    /\ observed \in Nat /\ carried \in Nat

(* However the stream is cut into reads, once a read has been inspected    *)
(* the observer has been told of exactly the data payload bytes that were  *)
(* read: nothing of control frames, headers, extended lengths and masking  *)
(* keys, and nothing missed (inspect, inspectFrames, beginFrame).          *)
CountsDataExactly == buffer = <<>> => observed = carried

(* Between payloads the header is short of what it needs, so every         *)
(* iteration of inspectFrames takes at least one byte and a Read of the    *)
(* proxy returns; a header left in place would make the loop spin.         *)
IterationConsumes ==
    conn.upgraded /\ conn.payload = 0
      => Len(conn.header) < (IF conn.need = 0 THEN 2 ELSE conn.need)

(* The observer counts exactly, within its buffer and without spinning,    *)
(* wherever reads cut the stream (outputObservingConn.Read).               *)
ObserverExact == ObserverTypeOK /\ CountsDataExactly /\ IterationConsumes
=============================================================================
