--------------------------- MODULE ExchangeProofs ---------------------------
(***************************************************************************)
(* The transport implements Exchange: with the blocking client, and no     *)
(* reply above the cap, every step of Session on headers, payloads and     *)
(* cells is a step of Exchange on whole messages, or none.                 *)
(***************************************************************************)
EXTENDS ClientProofs

-----------------------------------------------------------------------------
(* The frames that end in a stream                                          *)

Closes(s, k) == s[k].pos = FrameCells(s[k].frame)
Whole(s) == {s[k].frame : k \in {j \in 1..Len(s) : Closes(s, j)}}

LEMMA MailIsWhole ==
    /\ Mail = Whole(d2c) \cup (IF pc = "payload" /\ hdr.len = 0 THEN {hdr} ELSE {})
    /\ Mail' = Whole(d2c') \cup (IF pc' = "payload" /\ hdr'.len = 0 THEN {hdr'} ELSE {})
BY DEF Mail, Whole, Closes

LEMMA WholeOfNothing == Whole(<<>>) = {}
BY EmptyIsSeq DEF Whole

\* Pushing a frame adds it.
LEMMA WholeAppend ==
    ASSUME NEW s, NEW f, NEW t, CellByCell(t, s, f)
    PROVE  Whole(t) = Whole(s) \cup {f}
<1>1. /\ Len(s) \in Nat /\ FrameCells(f) \in Nat \ {0} /\ Len(t) = Len(s) + FrameCells(f)
      /\ \A k \in 1..Len(s) : k \in 1..Len(t) /\ t[k] = s[k]
      /\ \A k \in 1..Len(t) :
            k \notin 1..Len(s) => k > Len(s) /\ t[k].frame = f /\ t[k].pos = k - Len(s)
    BY Zenon DEF CellByCell
<1>2. ASSUME NEW x \in Whole(t) PROVE x \in Whole(s) \cup {f}
  <2>1. PICK k \in 1..Len(t) : Closes(t, k) /\ x = t[k].frame
      BY DEF Whole
  <2>2. CASE k \in 1..Len(s)
      BY <1>1, <2>1, <2>2 DEF Whole, Closes
  <2>3. CASE k \notin 1..Len(s)
      BY <1>1, <2>1, <2>3
  <2> QED
      BY <2>2, <2>3
<1>3. ASSUME NEW x \in Whole(s) PROVE x \in Whole(t)
  <2>1. PICK k \in 1..Len(s) : Closes(s, k) /\ x = s[k].frame
      BY DEF Whole
  <2>2. k \in 1..Len(t) /\ t[k] = s[k]
      BY <1>1
  <2> QED
      BY <2>1, <2>2 DEF Whole, Closes
<1>4. f \in Whole(t)
  <2>1. Len(t) \in 1..Len(t) /\ Len(t) \notin 1..Len(s) /\ Len(t) - Len(s) = FrameCells(f)
      BY <1>1
  <2>2. t[Len(t)].frame = f /\ t[Len(t)].pos = FrameCells(f)
      BY <1>1, <2>1
  <2> QED
      BY <2>1, <2>2 DEF Whole, Closes
<1> QED
    BY <1>2, <1>3, <1>4

\* Reading n cells removes the frames that end in them.
LEMMA WholeAfter ==
    ASSUME NEW T, NEW s \in Seq(Cells(T)), NEW n \in 0..Len(s), NEW t, t = After(s, n)
    PROVE  Whole(s) = Whole(t) \cup {s[k].frame : k \in {j \in 1..n : Closes(s, j)}}
<1>1. Len(t) = Len(s) - n /\ \A i \in 1..(Len(s) - n) : t[i] = s[n + i]
    BY AfterProperties
<1>2. Len(s) \in Nat /\ n \in Nat /\ n <= Len(s)
    OBVIOUS
<1> DEFINE R == {s[k].frame : k \in {j \in 1..n : Closes(s, j)}}
<1>3. ASSUME NEW x \in Whole(s) PROVE x \in Whole(t) \cup R
  <2>1. PICK k \in 1..Len(s) : Closes(s, k) /\ x = s[k].frame
      BY DEF Whole
  <2>2. CASE k \in 1..n
      BY <2>1, <2>2
  <2>3. CASE k \notin 1..n
    <3>1. k - n \in 1..Len(t) /\ k - n \in 1..(Len(s) - n) /\ n + (k - n) = k
        BY <1>1, <1>2, <2>3
    <3>2. t[k - n] = s[k]
        BY <1>1, <3>1
    <3> QED
        BY <2>1, <3>1, <3>2 DEF Whole, Closes
  <2> QED
      BY <2>2, <2>3
<1>4. ASSUME NEW x \in Whole(t) PROVE x \in Whole(s)
  <2>1. PICK k \in 1..Len(t) : Closes(t, k) /\ x = t[k].frame
      BY DEF Whole
  <2>2. n + k \in 1..Len(s) /\ t[k] = s[n + k]
      BY <1>1, <1>2
  <2> QED
      BY <2>1, <2>2 DEF Whole, Closes
<1>5. ASSUME NEW x \in R PROVE x \in Whole(s)
    BY <1>2, <1>5 DEF Whole
<1> QED
    BY <1>3, <1>4, <1>5

\* The first cells of an intact stream are those of the frame at its head.
LEMMA HeadCells ==
    ASSUME NEW T, Framing(T), NEW s \in Seq(Cells(T)), Intact(s), s # <<>>,
           NEW f, f = s[1].frame, NEW k \in 1..Len(s), s[1].pos + (k - 1) <= FrameCells(f)
    PROVE  /\ f \in T /\ FrameCells(f) \in Nat /\ s[1].pos \in Nat
           /\ s[k].frame = f /\ s[k].pos = s[1].pos + (k - 1)
           /\ Closes(s, k) <=> s[1].pos + (k - 1) = FrameCells(f)
<1>1. 1 \in 1..Len(s)
    OBVIOUS
<1>2. f \in T /\ s[1].pos \in Nat
    BY <1>1, CellProperties
<1>3. FrameCells(f) \in Nat
    BY <1>2, FrameCellsType DEF Framing
<1>4. s[k] = [frame |-> f, pos |-> s[1].pos + (k - 1)]
    BY <1>1 DEF Intact
<1> QED
    BY <1>2, <1>3, <1>4 DEF Closes

\* A stream that ends inside the frame at its head holds no whole frame.
LEMMA WholeOfPiece ==
    ASSUME NEW T, Framing(T), NEW s \in Seq(Cells(T)), Intact(s), s # <<>>,
           s[1].pos + Len(s) <= FrameCells(s[1].frame)
    PROVE  Whole(s) = {}
<1>1. Len(s) \in Nat /\ 1 \in 1..Len(s)
    OBVIOUS
<1>2. s[1].pos \in Nat /\ FrameCells(s[1].frame) \in Nat
  <2>1. s[1].frame \in T /\ s[1].pos \in Nat
      BY <1>1, CellProperties
  <2> QED
      BY <2>1, FrameCellsType DEF Framing
<1>3. ASSUME NEW k \in 1..Len(s) PROVE ~Closes(s, k)
  <2>1. s[1].pos + (k - 1) < FrameCells(s[1].frame)
      BY <1>1, <1>2
  <2>2. s[1].pos + (k - 1) <= FrameCells(s[1].frame)
      BY <1>2, <2>1
  <2>3. Closes(s, k) <=> s[1].pos + (k - 1) = FrameCells(s[1].frame)
      BY <2>2, HeadCells
  <2> QED
      BY <1>2, <2>1, <2>3
<1> QED
    BY <1>3 DEF Whole

\* read_exact(header): a frame without payload has been read whole, of any
\* other the rest is still there.
LEMMA WholeHeader ==
    ASSUME NEW T, Framing(T), NEW s \in Seq(Cells(T)), Intact(s), Len(s) >= HeaderCells,
           NEW f, f = s[1].frame, s[1].pos = 1, NEW t, t = After(s, HeaderCells)
    PROVE  Whole(s) = Whole(t) \cup (IF f.len = 0 THEN {f} ELSE {})
<1> DEFINE h == HeaderCells
<1>1. h \in Nat \ {0} /\ Len(s) \in Nat /\ 1 \in 1..Len(s) /\ h \in 0..Len(s) /\ s # <<>>
    BY TransportAssumption
<1>2. f \in T /\ f.len \in Nat /\ FrameCells(f) = h + f.len
    BY <1>1, CellProperties, FrameCellsType DEF Framing
<1>3. Whole(s) = Whole(t) \cup {s[k].frame : k \in {j \in 1..h : Closes(s, j)}}
    BY <1>1, WholeAfter
<1>4. ASSUME NEW k \in 1..h PROVE s[k].frame = f /\ (Closes(s, k) <=> k = h /\ f.len = 0)
  <2>1. k \in 1..Len(s) /\ s[1].pos + (k - 1) <= FrameCells(f)
      BY <1>1, <1>2
  <2>2. s[k].frame = f /\ (Closes(s, k) <=> s[1].pos + (k - 1) = FrameCells(f))
      BY <1>1, <2>1, HeadCells
  <2> QED
      BY <1>1, <1>2, <2>2
<1>5. {s[k].frame : k \in {j \in 1..h : Closes(s, j)}} = IF f.len = 0 THEN {f} ELSE {}
    BY <1>1, <1>4
<1> QED
    BY <1>3, <1>5

\* read_exact(payload): with the last n cells of the frame at the head of the
\* stream, it has been read whole.
LEMMA WholeRest ==
    ASSUME NEW T, Framing(T), NEW s \in Seq(Cells(T)), Intact(s), s # <<>>,
           NEW f, f = s[1].frame, NEW n \in 1..Len(s), s[1].pos + (n - 1) = FrameCells(f),
           NEW t, t = After(s, n)
    PROVE  /\ Whole(s) = Whole(t) \cup {f}
           /\ Closes(s, n) /\ s[n].frame = f
<1>0. 1 \in 1..Len(s) /\ n \in 0..Len(s) /\ n \in 1..n
    OBVIOUS
<1>1. f \in T /\ s[1].pos \in Nat
    BY <1>0, CellProperties
<1>2. FrameCells(f) \in Nat
    BY <1>1, FrameCellsType DEF Framing
<1>3. Whole(s) = Whole(t) \cup {s[k].frame : k \in {j \in 1..n : Closes(s, j)}}
    BY <1>0, WholeAfter
<1>4. ASSUME NEW k \in 1..n PROVE s[k].frame = f /\ (Closes(s, k) <=> k = n)
  <2>1. k \in 1..Len(s) /\ s[1].pos + (k - 1) <= FrameCells(f)
      BY <1>1, <1>2
  <2>2. s[k].frame = f /\ (Closes(s, k) <=> s[1].pos + (k - 1) = FrameCells(f))
      BY <2>1, HeadCells
  <2>3. s[1].pos + (k - 1) = FrameCells(f) <=> k = n
      BY <1>1, <1>2
  <2> QED
      BY <2>2, <2>3
<1>5. {s[k].frame : k \in {j \in 1..n : Closes(s, j)}} = {f}
    BY <1>0, <1>4
<1> QED
    BY <1>0, <1>3, <1>4, <1>5

\* A stream cut off somewhere keeps the frames up to some number: all that end
\* before the cut.
LEMMA WholeCut ==
    ASSUME NEW T, Framing(T), NEW s \in Seq(Cells(T)), InSequence(s),
           NEW n \in 0..Len(s), NEW t, t = SubSeq(s, 1, n),
           NEW low \in Nat, \A k \in 1..Len(s) : low < s[k].frame.num
    PROVE  \E v \in Nat : /\ low <= v
                          /\ v = low \/ \E k \in 1..Len(s) : v <= s[k].frame.num
                          /\ Whole(t) = {m \in Whole(s) : m.num <= v}
<1>1. Len(t) = n /\ \A i \in 1..n : t[i] = s[i]
    BY PrefixProperties
<1>2. Len(s) \in Nat /\ n \in Nat /\ \A k \in 1..Len(s) : s[k].frame.num \in Nat
    BY NumberTypes
<1>3. Whole(t) = {s[k].frame : k \in {j \in 1..n : Closes(s, j)}}
    BY <1>1 DEF Whole, Closes
<1>4. CASE n = 0
  <2>1. Whole(t) = {}
      BY <1>3, <1>4
  <2>2. ASSUME NEW m \in Whole(s) PROVE ~(m.num <= low)
      BY <1>2, <2>2 DEF Whole
  <2>3. Whole(t) = {m \in Whole(s) : m.num <= low}
      BY <2>1, <2>2
  <2>4. low \in Nat /\ low <= low
      OBVIOUS
  <2> QED
      BY <2>3, <2>4, Zenon
<1>5. CASE n > 0
  <2> DEFINE w == s[n].frame.num
             v == IF Closes(s, n) THEN w ELSE w - 1
  <2>1. n \in 1..Len(s) /\ w \in Nat /\ low < w
      BY <1>2, <1>5
  <2>2. v \in Nat /\ low <= v /\ v <= w /\ (v < w <=> ~Closes(s, n)) /\ (Closes(s, n) => v = w)
        /\ (~Closes(s, n) => v = w - 1)
      BY <2>1
  <2> HIDE DEF v
  <2>3. ASSUME NEW k \in 1..Len(s), Closes(s, k)
        PROVE  s[k].frame.num <= v <=> k \in 1..n
    <3>0. s[k].frame.num \in Nat
        BY <1>2
    <3>1. CASE k = n
        BY <2>1, <2>2, <2>3, <3>0, <3>1
    <3>2. CASE k < n
      <4>1. s[k].frame.num < w
          BY <2>1, <2>3, <3>2 DEF InSequence, Closes
      <4> QED
          BY <1>2, <2>1, <2>2, <3>0, <3>2, <4>1
    <3>3. CASE k > n
      <4>1. w <= s[k].frame.num /\ (Closes(s, n) => w < s[k].frame.num)
          BY <2>1, <3>3 DEF InSequence, Closes
      <4> QED
          BY <1>2, <2>1, <2>2, <3>0, <3>3, <4>1
    <3> QED
        BY <1>2, <3>1, <3>2, <3>3
  <2>4. ASSUME NEW x PROVE x \in Whole(t) <=> x \in Whole(s) /\ x.num <= v
    <3>1. ASSUME x \in Whole(t) PROVE x \in Whole(s) /\ x.num <= v
      <4>1. PICK k \in 1..n : Closes(s, k) /\ x = s[k].frame
          BY <1>3, <3>1
      <4>2. k \in 1..Len(s)
          BY <1>2
      <4> QED
          BY <2>3, <4>1, <4>2 DEF Whole
    <3>2. ASSUME x \in Whole(s), x.num <= v PROVE x \in Whole(t)
      <4>1. PICK k \in 1..Len(s) : Closes(s, k) /\ x = s[k].frame
          BY <3>2 DEF Whole
      <4>2. k \in 1..n
          BY <2>3, <3>2, <4>1
      <4> QED
          BY <1>3, <4>1, <4>2
    <3> QED
        BY <3>1, <3>2
  <2>5. Whole(t) = {m \in Whole(s) : m.num <= v}
      BY <2>4
  <2> QED
      BY <2>1, <2>2, <2>5
<1>6. n = 0 \/ n > 0
    BY <1>2
<1> QED
    BY <1>4, <1>5, <1>6, Zenon

-----------------------------------------------------------------------------
(* Mail and the reads                                                       *)

\* The frame whose payload is being read is the last one taken.
LEMMA Ahead ==
    ASSUME Calm
    PROVE  /\ pc = "payload" => hdr.num = taken
           /\ \A k \in 1..Len(d2c) :
                 /\ taken <= d2c[k].frame.num
                 /\ ~(pc = "payload" /\ hdr.len > 0) => taken < d2c[k].frame.num
<1>0. /\ Parts /\ InOrder /\ Framing(FrameType) /\ d2c \in Seq(Cells(FrameType)) /\ taken \in Nat
      /\ hdr.len \in Nat
    BY CalmParts, StreamTypes, FramingTypes
<1>1. Len(d2c) \in Nat /\ \A k \in 1..Len(d2c) : d2c[k].frame.num \in Nat
    BY <1>0, NumberTypes
<1>2. pc = "payload" => hdr.num = taken
    BY <1>0 DEF Parts, ReplyStream
<1>3. ASSUME NEW k \in 1..Len(d2c)
      PROVE  /\ taken <= d2c[k].frame.num
             /\ ~(pc = "payload" /\ hdr.len > 0) => taken < d2c[k].frame.num
  <2>1. 1 \in 1..Len(d2c) /\ d2c # <<>>
      BY <1>1
  <2>2. d2c[1].frame.num = IF pc = "payload" /\ hdr.len > 0 THEN taken ELSE taken + 1
      BY <1>0, <1>2, <2>1 DEF Parts, ReplyStream, StartsAt
  <2>3. d2c[1].frame.num <= d2c[k].frame.num
    <3>1. CASE k = 1
        BY <1>1, <2>1, <3>1
    <3>2. CASE 1 < k
        BY <1>0, <2>1, <3>2 DEF InOrder, InSequence
    <3> QED
        BY <1>1, <3>1, <3>2
  <2> QED
      BY <1>0, <1>1, <2>1, <2>2, <2>3
<1> QED
    BY <1>2, <1>3

LEMMA MailHeader ==
    ASSUME Calm, ReadHeader, UNCHANGED <<lldpdVars, sessionVars>>, ~skewed'
    PROVE  Mail' = Mail
<1>0. /\ Parts /\ Framing(FrameType) /\ d2c \in Seq(Cells(FrameType)) /\ Len(d2c) \in Nat
      /\ HeaderCells \in Nat \ {0} /\ Len(d2c) >= HeaderCells /\ pc = "header"
    BY CalmParts, StreamTypes, FramingTypes, TransportAssumption DEF ReadHeader
<1>1. d2c[1].pos = 1 /\ Intact(d2c)
    BY <1>0 DEF Parts, ReplyStream, StartsAt
<1>2. d2c' = After(d2c, HeaderCells) /\ hdr' = d2c[1].frame /\ pc' = "payload"
    BY <1>1, Zenon DEF ReadHeader, decode_header
<1>3. Whole(d2c) = Whole(d2c') \cup (IF hdr'.len = 0 THEN {hdr'} ELSE {})
    BY <1>0, <1>1, <1>2, WholeHeader
<1>4. Mail = Whole(d2c)
    BY <1>0, MailIsWhole
<1>5. Mail' = Whole(d2c') \cup (IF hdr'.len = 0 THEN {hdr'} ELSE {})
    BY <1>2, MailIsWhole
<1> QED
    BY <1>3, <1>4, <1>5

LEMMA MailPayload ==
    ASSUME Calm, ReadPayload
    PROVE  /\ hdr \in Mail /\ Mail' = Mail \ {hdr}
           /\ \A x \in Mail : hdr.num <= x.num
<1>0. /\ Parts /\ InOrder /\ Framing(FrameType) /\ d2c \in Seq(Cells(FrameType)) /\ Len(d2c) \in Nat
      /\ HeaderCells \in Nat \ {0} /\ hdr.len \in Nat /\ taken \in Nat
      /\ hdr \in FrameType
    BY CalmParts, StreamTypes, FramingTypes, TransportAssumption DEF Parts, TypeOK, TransportTypeOK
<1>1. pc = "payload" /\ pc' = "done" /\ Len(d2c) >= hdr.len /\ d2c' = After(d2c, hdr.len)
    BY DEF ReadPayload, Return
<1>2. hdr.num = taken /\ \A k \in 1..Len(d2c) : taken <= d2c[k].frame.num
    BY <1>1, Ahead
<1>3. \A k \in 1..Len(d2c) : d2c[k].frame.num \in Nat
    BY <1>0, NumberTypes
<1>4. Mail' = Whole(d2c')
    BY <1>1, MailIsWhole
<1>5. \A x \in Mail : hdr.num <= x.num
    BY <1>0, <1>2, MailIsWhole DEF Whole
<1>6. hdr.len \in 0..Len(d2c)
    BY <1>0, <1>1
<1>7. CASE hdr.len = 0
  <2>1. Whole(d2c) = Whole(d2c') \cup {d2c[k].frame : k \in {j \in 1..0 : Closes(d2c, j)}}
      BY <1>0, <1>1, <1>6, <1>7, WholeAfter
  <2>2. Whole(d2c) = Whole(d2c')
      BY <2>1
  <2>3. hdr \notin Whole(d2c)
    <3>1. \A k \in 1..Len(d2c) : taken < d2c[k].frame.num
        BY <1>7, Ahead
    <3> QED
        BY <1>0, <1>2, <1>3, <3>1 DEF Whole
  <2> QED
      BY <1>1, <1>4, <1>5, <1>7, <2>2, <2>3, MailIsWhole
<1>8. CASE hdr.len > 0
  <2>1. d2c # <<>>
      BY <1>0, <1>1, <1>8, EmptyIsSeq
  <2>2. d2c[1] = [frame |-> hdr, pos |-> HeaderCells + 1] /\ Intact(d2c)
      BY <1>0, <1>1, <1>8, <2>1 DEF Parts, ReplyStream
  <2>3. hdr = d2c[1].frame /\ d2c[1].pos + (hdr.len - 1) = FrameCells(hdr) /\ hdr.len \in 1..Len(d2c)
      BY <1>0, <1>1, <1>8, <2>2, FrameCellsType
  <2>4. /\ Whole(d2c) = Whole(d2c') \cup {hdr}
        /\ Closes(d2c, hdr.len) /\ d2c[hdr.len].frame = hdr
      BY <1>0, <1>1, <2>1, <2>2, <2>3, WholeRest
  <2>5. hdr \notin Whole(d2c')
    <3> SUFFICES ASSUME NEW k \in 1..Len(d2c') PROVE hdr.num < d2c'[k].frame.num
        BY <1>0, <1>2 DEF Whole
    <3>1. hdr.len + k \in 1..Len(d2c) /\ d2c'[k] = d2c[hdr.len + k] /\ hdr.len < hdr.len + k
      <4>1. /\ Len(d2c') = Len(d2c) - hdr.len
            /\ \A i \in 1..(Len(d2c) - hdr.len) : d2c'[i] = d2c[hdr.len + i]
          BY <1>0, <1>1, <1>6, AfterProperties
      <4> QED
          BY <1>0, <1>6, <4>1
    <3>2. d2c[hdr.len].frame.num < d2c[hdr.len + k].frame.num
        BY <1>0, <2>3, <2>4, <3>1 DEF InOrder, InSequence, Closes
    <3> QED
        BY <2>4, <3>1, <3>2
  <2> QED
      BY <1>1, <1>4, <1>5, <1>8, <2>4, <2>5, MailIsWhole
<1> QED
    BY <1>0, <1>7, <1>8

LEMMA MailEof ==
    ASSUME Calm, ReadEof
    PROVE  Mail = {} /\ Mail' = {}
<1>0. /\ Parts /\ Framing(FrameType) /\ d2c \in Seq(Cells(FrameType)) /\ Len(d2c) \in Nat
      /\ HeaderCells \in Nat \ {0} /\ hdr.len \in Nat
    BY CalmParts, StreamTypes, FramingTypes, TransportAssumption
<1>1. /\ pc' = "done" /\ d2c' = <<>>
      /\ \/ pc = "header" /\ Len(d2c) < HeaderCells
         \/ pc = "payload" /\ Len(d2c) < hdr.len
    BY DEF ReadEof, Return
<1>2. Mail' = {}
    BY <1>1, MailIsWhole, WholeOfNothing
<1>3. ASSUME d2c # <<>> PROVE Whole(d2c) = {}
  <2>1. 1 \in 1..Len(d2c) /\ Intact(d2c)
      BY <1>0, <1>3 DEF Parts, ReplyStream
  <2>2. FrameCells(d2c[1].frame) = HeaderCells + d2c[1].frame.len /\ d2c[1].frame.len \in Nat
    <3>1. d2c[1].frame \in FrameType
        BY <1>0, <2>1, CellProperties
    <3>2. d2c[1].frame.len \in Nat
        BY <1>0, <3>1 DEF Framing
    <3> QED
        BY <3>2, FrameCellsType
  <2>3. CASE pc = "header"
    <3>1. d2c[1].pos = 1
        BY <1>0, <1>3, <2>3 DEF Parts, ReplyStream, StartsAt
    <3>2. d2c[1].pos + Len(d2c) <= FrameCells(d2c[1].frame)
        BY <1>0, <1>1, <2>2, <2>3, <3>1
    <3> QED
        BY <1>0, <1>3, <2>1, <3>2, WholeOfPiece
  <2>4. CASE pc = "payload"
    <3>1. d2c[1] = [frame |-> hdr, pos |-> HeaderCells + 1]
        BY <1>0, <1>1, <1>3, <2>4 DEF Parts, ReplyStream
    <3>2. d2c[1].frame = hdr /\ d2c[1].pos = HeaderCells + 1
        BY <3>1
    <3>3. d2c[1].pos + Len(d2c) <= FrameCells(d2c[1].frame)
        BY <1>0, <1>1, <2>2, <2>4, <3>2
    <3> QED
        BY <1>0, <1>3, <2>1, <3>3, WholeOfPiece
  <2> QED
      BY <1>1, <2>3, <2>4
<1>4. Whole(d2c) = {}
    BY <1>3, WholeOfNothing
<1>5. ~(pc = "payload" /\ hdr.len = 0)
    BY <1>0, <1>1
<1> QED
    BY <1>2, <1>4, <1>5, MailIsWhole

\* A payload is read after its header.
Begun == pc = "payload" => taken > 0

LEMMA MailHangup ==
    ASSUME Calm, Begun, Hangup
    PROVE  \E v \in 0..pushed : Mail' = {m \in Mail : m.num <= v}
<1>0. /\ InOrder /\ Counted /\ Framing(FrameType) /\ d2c \in Seq(Cells(FrameType))
      /\ Len(d2c) \in Nat /\ taken \in Nat /\ pushed \in Nat /\ hdr.len \in Nat
    BY CalmParts, StreamTypes, FramingTypes
<1>1. PICK n \in 0..Len(d2c) : d2c' = SubSeq(d2c, 1, n)
    BY DEF Hangup
<1>2. UNCHANGED <<pc, hdr>>
    BY DEF Hangup
<1> DEFINE low == IF pc = "payload" /\ hdr.len > 0 THEN taken - 1 ELSE taken
<1>3. low \in Nat /\ low <= taken /\ (pc = "payload" /\ hdr.len = 0 => low = taken /\ hdr.num = taken)
    BY <1>0, Ahead DEF Begun
<1>4. \A k \in 1..Len(d2c) : d2c[k].frame.num \in Nat /\ low < d2c[k].frame.num
  <2>1. \A k \in 1..Len(d2c) : d2c[k].frame.num \in Nat
      BY <1>0, NumberTypes
  <2> QED
      BY <1>0, <2>1, Ahead DEF Begun
<1> HIDE DEF low
<1>5. PICK v \in Nat : /\ low <= v
                       /\ v = low \/ \E k \in 1..Len(d2c) : v <= d2c[k].frame.num
                       /\ Whole(d2c') = {m \in Whole(d2c) : m.num <= v}
    BY <1>0, <1>1, <1>3, <1>4, WholeCut, ZenonT(60) DEF InOrder
<1>6. v \in 0..pushed
    BY <1>0, <1>3, <1>4, <1>5 DEF InOrder, Counted
<1>7. Mail' = {m \in Mail : m.num <= v}
    BY <1>2, <1>3, <1>5, MailIsWhole
<1> QED
    BY <1>6, <1>7

-----------------------------------------------------------------------------
(* The steps                                                                *)

Asked == {c2d[k].frame : k \in 1..Len(c2d)}

LEMMA AskedIs ==
    ASSUME Base
    PROVE  Asked = IF c2d = <<>> THEN {} ELSE {cur}
<1>0. Parts /\ TypeOK /\ cur \in CallType
    BY CalmParts DEF Base, TypeOK, TransportTypeOK
<1>1. CASE c2d = <<>>
    BY <1>1, EmptyIsSeq DEF Asked
<1>2. CASE c2d # <<>>
  <2>1. c2d = Frame(cur)
      BY <1>2 DEF Base, OneRequest
  <2>2. /\ Len(Frame(cur)) = FrameCells(cur) /\ FrameCells(cur) \in Nat \ {0}
        /\ \A i \in 1..FrameCells(cur) : Frame(cur)[i] = [frame |-> cur, pos |-> i]
      BY <1>0, FrameProperties, FrameCellsType, FramingTypes DEF Framing
  <2>3. 1 \in 1..FrameCells(cur) /\ \A i \in 1..FrameCells(cur) : c2d[i].frame = cur
      BY <2>1, <2>2
  <2> QED
      BY <1>2, <2>1, <2>2, <2>3 DEF Asked
<1> QED
    BY <1>1, <1>2

\* What Exchange sees.
Seen == <<cur, sent, Asked, pushed, Mail, ret, hup, dsub, applied>>

\* The invariant of the simulation.
ExchangeInv == Base /\ Begun

LEMMA BegunStep ==
    ASSUME ~Async, Base, Base', Begun, [Next]_vars
    PROVE  Begun'
<1>0. TypeOK /\ Control /\ taken \in Nat
    BY CalmParts, StreamTypes DEF Base
<1>1. CASE Quiet
    BY <1>0, <1>1, QuietStep DEF Begins, Begun
<1>2. CASE TransportStep
    BY <1>0, <1>2 DEF TransportStep, WriteAll, WriteFails, ReadHeader, ReadPayload, ReadEof, Return, Begun
<1>3. CASE Daemon \/ UNCHANGED vars
  <2>1. UNCHANGED <<pc, taken>>
      BY <1>3, Zenon DEF Daemon, Serve, Honour, Refuse, RefuseGarbled, Notify, Hangup, IfUp, IfDown,
         transportVars, vars
  <2> QED
      BY <2>1 DEF Begun
<1> QED
    BY <1>1, <1>2, <1>3, NoCancel DEF Next, Quiet

LEMMA ExchangeInvariant ==
    ASSUME ~Async, "oversize" \notin Faults
    PROVE  Spec => []ExchangeInv
<1>1. Init => Begun
    BY DEF Init, TransportInit, Begun
<1>2. Base /\ Base' /\ Begun /\ [Next]_vars => Begun'
    BY BegunStep
<1> QED
    BY <1>1, <1>2, BaseInvariant, PTL DEF Spec, ExchangeInv

\* A call begins, or its Result is taken.
LEMMA QuietExchange ==
    ASSUME Base, Base', Quiet
    PROVE  X!Begin \/ X!Return \/ UNCHANGED Seen
<1>0. /\ TypeOK /\ Control /\ cur' \in CallType /\ Control' /\ ItemsInOrder'
  <2>1. TypeOK' /\ Control' /\ ItemsInOrder'
      BY DEF Base, Calm, SessionInv, NeverTorn, Sound
  <2> QED
      BY <2>1, CalmParts DEF Base, TypeOK, TransportTypeOK
<1>1. /\ UNCHANGED <<c2d, d2c, hup, sent, dsub, pushed, applied>>
      /\ pc \in {"idle", "done"}
      /\ \/ Begins /\ pc = "idle"
         \/ pc' = "header" /\ ret' = NoRet /\ cur'.ty = "Notification" /\ op' = "next"
            /\ pc = "idle"
         \/ pc' = "idle" /\ cur' = NoCall /\ ret' = NoRet /\ pc = "done"
         \/ pc = "idle" /\ UNCHANGED <<pc, cur, ret>>
    BY <1>0, QuietStep DEF lldpdVars
<1>2. Asked' = Asked /\ Mail' = Mail
  <2>1. pc # "payload" /\ pc' # "payload"
      BY <1>1 DEF Begins
  <2> QED
      BY <1>1, <2>1, MailIsWhole DEF Asked
<1>3. UNCHANGED <<sent, Asked, pushed, Mail, ~hup, dsub, applied>>
    BY <1>1, <1>2
<1>4. pc = "idle" => cur = NoCall /\ ret = NoRet
    BY DEF Base, Locals
<1>5. CASE Begins /\ pc = "idle"
  <2>1. ~dsub
      BY <1>5, NothingWaits DEF Base, Begins
  <2> QED
      BY <1>0, <1>3, <1>4, <1>5, <2>1 DEF Begins, X!Begin, Asked
<1>6. CASE pc' = "header" /\ ret' = NoRet /\ cur'.ty = "Notification" /\ op' = "next" /\ pc = "idle"
  <2>1. mode' = "Subscription"
      BY <1>0, <1>6 DEF Control
  <2>2. dsub
      BY <1>0, <1>1, <2>1 DEF ItemsInOrder
  <2> QED
      BY <1>0, <1>3, <1>4, <1>6, <2>2 DEF X!Begin, Asked
<1>7. CASE pc' = "idle" /\ cur' = NoCall /\ ret' = NoRet /\ pc = "done"
  <2>1. ret # NoRet
      BY <1>7 DEF Base, Locals, NoRet
  <2> QED
      BY <1>3, <1>7, <2>1 DEF X!Return, Asked
<1>8. CASE pc = "idle" /\ UNCHANGED <<pc, cur, ret>>
    BY <1>1, <1>3, <1>8 DEF Seen
<1> QED
    BY <1>1, <1>5, <1>6, <1>7, <1>8

\* The call that runs is a call.
LEMMA Calling ==
    ASSUME Base, pc \in {"write", "header", "payload"}
    PROVE  /\ cur # NoCall /\ ret = NoRet /\ cur.ty # "None"
           /\ cur.ty \in RequestType \cup {"Notification"}
           /\ pc = "write" => cur.ty \in RequestType /\ cur.num = sent + 1 /\ mode = "Client"
           /\ pc # "write" /\ cur.ty \in RequestType => cur.num = sent
           /\ sent \in Nat
<1>1. Control /\ InStep /\ sent \in Nat /\ TypeOK
    BY CalmParts, StreamTypes DEF Base, Parts
<1>2. cur.ty \in RequestType \cup {"Notification"}
    BY <1>1 DEF Control
<1>3. cur # NoCall /\ cur.ty # "None"
    BY <1>2 DEF NoCall, RequestType
<1>4. pc = "write" => op # "next" /\ cur.ty \in RequestType
    BY <1>1, <1>2 DEF Control
<1>5. pc = "write" => mode = "Client"
    BY <1>1, <1>4 DEF Control
<1> QED
    BY <1>1, <1>2, <1>3, <1>4, <1>5 DEF InStep, Base, Locals

\* A written request is the only one lldpd has not taken.
LEMMA AskedWritten ==
    ASSUME Base, WriteAll
    PROVE  Asked' = {cur'}
<1>1. /\ c2d = <<>> /\ c2d' = c2d \o Frame(cur) /\ cur' = cur /\ cur \in CallType
    BY CalmParts DEF WriteAll, Base, OneRequest, TypeOK, TransportTypeOK
<1>2. Framing(CallType) /\ c2d \in Seq(Cells(CallType))
    BY CalmParts, FramingTypes, StreamTypes DEF Base
<1>3. c2d' \in Seq(Cells(CallType)) /\ Extends(c2d', c2d, cur)
    BY <1>1, <1>2, ExtendsAppend, Zenon
<1>4. CellByCell(c2d', c2d, cur)
    BY <1>1, <1>2, <1>3, ExtendedCells, Zenon
<1>5. /\ Len(c2d') \in Nat \ {0} /\ \A k \in 1..Len(c2d') : c2d'[k].frame = cur
  <2>1. Len(c2d) = 0 /\ \A k : k \notin 1..Len(c2d)
      BY <1>1, EmptyIsSeq
  <2> QED
      BY <1>4, <2>1 DEF CellByCell
<1> QED
    BY <1>1, <1>5 DEF Asked

\* A write, or the end of the stream.
LEMMA WriteExchange ==
    ASSUME Base, Base', WriteAll \/ WriteFails, UNCHANGED <<lldpdVars, sessionVars>>
    PROVE  X!Send \/ X!Fail
<1>1. /\ pc = "write" /\ pc' # "payload" /\ cur # NoCall /\ ret = NoRet
      /\ cur.ty \in RequestType /\ cur.num = sent + 1 /\ sent \in Nat
    BY Calling DEF WriteAll, WriteFails, Return
<1>2. UNCHANGED <<cur, d2c, hdr, pushed, dsub, applied, hup>>
    BY DEF WriteAll, WriteFails, lldpdVars
<1>3. Mail' = Mail
    BY <1>1, <1>2, MailIsWhole
<1>4. cur.num > sent
    BY <1>1
<1>5. CASE WriteAll
  <2>1. Asked = {}
      BY <1>1, AskedIs DEF Base, OneRequest
  <2>2. Asked' = {cur'}
      BY <1>1, <1>5, AskedWritten
  <2>3. Asked' = Asked \cup {cur}
      BY <1>2, <2>1, <2>2
  <2>4. ~hup /\ sent' = cur.num /\ UNCHANGED <<cur, pushed, Mail, ret, ~hup, dsub, applied>>
      BY <1>2, <1>3, <1>5 DEF WriteAll
  <2> QED
      BY <1>1, <1>4, <2>3, <2>4, Zenon DEF X!Send, X!Unsent, Asked
<1>6. CASE WriteFails
  <2>1. ~~hup /\ ret'.kind = "BrokenPipe" /\ UNCHANGED <<sent, Asked>>
      BY <1>6 DEF WriteFails, Return, Asked
  <2> QED
      BY <1>1, <1>2, <1>3, <1>4, <2>1 DEF X!Fail, X!Unsent, Asked
<1> QED
    BY <1>5, <1>6

\* A message is read: its header first, which Exchange does not see.
LEMMA ReadExchange ==
    ASSUME Base, Base', UNCHANGED <<lldpdVars, sessionVars>>, ReadHeader \/ ReadPayload \/ ReadEof
    PROVE  X!Take \/ X!Fail \/ UNCHANGED Seen
<1>0. Calm /\ Parts /\ ~skewed' /\ ReplyLag' /\ orphans' = 0 /\ ret'.num \in Nat
  <2>1. TypeOK' /\ ~skewed' /\ ReplyLag' /\ orphans' = 0
      BY DEF Base, Calm, SessionInv, NeverTorn, Sound
  <2> QED
      BY <2>1, CalmParts DEF Base, TypeOK, TransportTypeOK
<1>1. /\ pc \in {"header", "payload"} /\ cur # NoCall /\ ret = NoRet /\ cur.ty # "None"
      /\ cur.ty \in RequestType => cur.num = sent
      /\ sent \in Nat
    BY Calling DEF ReadHeader, ReadPayload, ReadEof
<1>2. UNCHANGED <<c2d, cur, sent, pushed, dsub, applied, hup>>
    BY Zenon DEF ReadHeader, ReadPayload, ReadEof, lldpdVars
<1>3. Asked' = Asked
    BY <1>2 DEF Asked
<1>4. ~(cur.ty \in RequestType /\ cur.num > sent)
    BY <1>1
<1>5. CASE ReadHeader
  <2>1. Mail' = Mail /\ ret' = ret
      BY <1>0, <1>5, MailHeader, HeaderRead
  <2> QED
      BY <1>2, <1>3, <2>1 DEF Seen
<1>6. CASE ReadPayload
  <2>1. hdr \in Mail /\ Mail' = Mail \ {hdr} /\ \A x \in Mail : hdr.num <= x.num
      BY <1>0, <1>6, MailPayload
  <2>2. ret' = X!Judged(hdr)
      BY <1>1, <1>6 DEF ReadPayload, Return, X!Judged
  <2>3. cur.ty \in RequestType => hdr.num = cur.num
    <3>1. pc' = "done" /\ ret'.num = hdr.num
          /\ ret'.kind \in {"Ok", "RequestRejected", "UnexpectedMessageType"}
        BY <1>0, <1>6, PayloadRead
    <3>2. cur.ty \in RequestType => ret'.num + orphans' = cur'.num
        BY <1>0, <1>2, <3>1 DEF ReplyLag, Answered
    <3> QED
        BY <1>0, <1>2, <3>1, <3>2
  <2> QED
      BY <1>1, <1>2, <1>3, <1>4, <2>1, <2>2, <2>3 DEF X!Take, X!Unsent, Asked
<1>7. CASE ReadEof
  <2>1. Mail = {} /\ Mail' = {}
      BY <1>0, <1>7, MailEof
  <2>2. hup /\ ret'.kind \in {"UnexpectedEof", "ConnectionReset"}
      BY <1>7 DEF ReadEof, Return
  <2> QED
      BY <1>1, <1>2, <1>3, <1>4, <2>1, <2>2 DEF X!Fail, X!Unsent, Asked
<1> QED
    BY <1>5, <1>6, <1>7

\* A frame that lldpd pushes is a message on its way.
LEMMA MailPushed ==
    ASSUME TypeOK, NEW f \in FrameType, Push(f), UNCHANGED <<pc, hdr>>
    PROVE  Mail' = Mail \cup {f}
<1>1. Framing(FrameType) /\ d2c \in Seq(Cells(FrameType)) /\ d2c' = d2c \o Frame(f)
    BY FramingTypes, StreamTypes DEF Push
<1>2. d2c' \in Seq(Cells(FrameType)) /\ Extends(d2c', d2c, f)
    BY <1>1, ExtendsAppend, Zenon
<1>3. CellByCell(d2c', d2c, f)
    BY <1>1, <1>2, ExtendedCells, Zenon
<1>4. Whole(d2c') = Whole(d2c) \cup {f}
    BY <1>3, WholeAppend, Zenon
<1> QED
    BY <1>4, MailIsWhole

LEMMA ServeExchange ==
    ASSUME Base, Serve
    PROVE  X!Serve
<1>0. TypeOK /\ dsub \in BOOLEAN
    BY CalmParts DEF Base, TypeOK, LldpdTypeOK
<1>1. /\ c2d # <<>> /\ cur.len <= HMSG_MAX_SIZE
      /\ c2d' = <<>> /\ UNCHANGED <<hup, pc, cur, hdr, ret, sent>>
    BY Served
<1>2. PICK f \in FrameType : Push(f) /\ f.num = cur.num /\ (Honours(f) \/ Refuses(f))
    BY Served
<1>3. ~hup /\ cur.ty \in RequestType
    BY <1>1, Outstanding
<1>4. Asked = {cur} /\ Asked' = Asked \ {cur}
  <2>1. Asked = {cur}
      BY <1>1, AskedIs
  <2>2. Asked' = {}
      BY <1>1, EmptyIsSeq DEF Asked
  <2> QED
      BY <2>1, <2>2
<1>5. Mail' = Mail \cup {f} /\ pushed' = pushed + 1
    BY <1>0, <1>1, <1>2, MailPushed DEF Push
<1>6. /\ dsub' = (dsub \/ (f.ty # "None" /\ cur.ty = "Subscribe"))
      /\ applied' = IF f.ty # "None" /\ cur.ty = "SetPort" THEN applied \cup {cur.num} ELSE applied
  <2>1. CASE Honours(f)
    <3>1. f.ty # "None"
        BY <1>3, <2>1 DEF Honours, Faulty, Reply, RequestType
    <3> QED
        BY <2>1, <3>1, Zenon DEF Honours
  <2>2. CASE Refuses(f)
      BY <1>0, <2>2 DEF Refuses, Rejections
  <2> QED
      BY <1>2, <2>1, <2>2
<1> QED
    BY <1>1, <1>2, <1>3, <1>4, <1>5, <1>6 DEF X!Serve, X!Deliver, Asked

LEMMA NotifyExchange ==
    ASSUME Base, Notify
    PROVE  X!Notify
<1>0. TypeOK /\ pushed \in Nat
    BY CalmParts, StreamTypes DEF Base
<1>1. PICK f \in Faulty(Notification(pushed + 1)) : Push(f)
    BY DEF Notify
<1>2. Notification(pushed + 1) \in FrameType
    BY <1>0, EmptyIsSeq DEF Notification, FrameType, HmsgType, BodyType
<1>3. f \in FrameType /\ f.num = pushed + 1
    BY <1>1, <1>2, PushedTypes DEF Faulty, Notification
<1>4. /\ dsub /\ ~hup
      /\ UNCHANGED <<c2d, hup, pc, cur, hdr, ret, sent, dsub, applied>>
    BY DEF Notify
<1>5. Mail' = Mail \cup {f} /\ pushed' = pushed + 1
    BY <1>0, <1>1, <1>3, <1>4, MailPushed DEF Push
<1> QED
    BY <1>3, <1>4, <1>5 DEF X!Notify, X!Deliver

LEMMA HangupExchange ==
    ASSUME ExchangeInv, Hangup
    PROVE  X!Hangup
<1>1. \E v \in 0..pushed : Mail' = {m \in Mail : m.num <= v}
    BY MailHangup DEF ExchangeInv, Base
<1>2. ~hup /\ hup' /\ UNCHANGED <<cur, sent, pushed, ret, dsub, applied>>
    BY DEF Hangup, lldpdVars
<1>3. Asked' = {}
    BY EmptyIsSeq DEF Hangup, Asked
<1> QED
    BY <1>1, <1>2, <1>3 DEF X!Hangup, Asked

LEMMA ExchangeStep ==
    ASSUME ~Async, ExchangeInv, ExchangeInv', [Next]_vars
    PROVE  X!Next \/ UNCHANGED Seen
<1>0. Base /\ Base'
    BY DEF ExchangeInv
<1>1. CASE Quiet
    BY <1>0, <1>1, QuietExchange DEF X!Next
<1>2. CASE TransportStep /\ UNCHANGED <<lldpdVars, sessionVars>>
    BY <1>0, <1>2, WriteExchange, ReadExchange DEF TransportStep, X!Next
<1>3. CASE Serve \/ Notify \/ Hangup
    BY <1>0, <1>3, ServeExchange, NotifyExchange, HangupExchange DEF X!Next
<1>4. CASE (\E i \in Iface : IfUp(i) \/ IfDown(i)) \/ UNCHANGED vars
  <2>1. UNCHANGED <<c2d, d2c, hup, pc, cur, hdr, ret, sent, dsub, applied, pushed>>
      BY <1>4 DEF IfUp, IfDown, vars, transportVars, lldpdVars
  <2> QED
      BY <2>1, MailIsWhole DEF Seen, Asked
<1> QED
    BY <1>1, <1>2, <1>3, <1>4, Steps, NoCancel

\* request() and recv_notification(), reading and writing cell by cell on a
\* connection that may end anywhere, are an exchange of whole messages.
THEOREM TransportImplementsExchange ==
    ASSUME ~Async, "oversize" \notin Faults
    PROVE  Spec => ImplementsExchange
<1>1. Init => X!Init
    BY EmptyIsSeq DEF Init, TransportInit, LldpdInit, X!Init, Mail
<1>2. ExchangeInv /\ ExchangeInv' /\ [Next]_vars => [X!Next]_X!vars
  <2>1. UNCHANGED Seen => UNCHANGED X!vars
    <3> SUFFICES ASSUME UNCHANGED Seen PROVE UNCHANGED X!vars
        OBVIOUS
    <3>1. UNCHANGED <<cur, sent, Asked, pushed, Mail, ret, hup, dsub, applied>>
        BY DEF Seen
    <3>2. (~hup)' = ~hup
        BY <3>1
    <3> QED
        BY <3>1, <3>2 DEF Asked, X!vars
  <2> QED
      BY <2>1, ExchangeStep
<1> QED
    BY <1>1, <1>2, ExchangeInvariant, PTL DEF Spec, ImplementsExchange, X!Spec

=============================================================================
