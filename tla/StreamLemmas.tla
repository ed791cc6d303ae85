---------------------------- MODULE StreamLemmas ----------------------------
(***************************************************************************)
(* Facts about the two byte streams: what writing a frame, reading a       *)
(* header or a payload, and losing a suffix do to a run of frames.         *)
(***************************************************************************)
EXTENDS Session, TLAPS, SequenceTheorems

LEMMA FrameCellsType ==
    ASSUME NEW f, f.len \in Nat
    PROVE  FrameCells(f) \in Nat \ {0} /\ FrameCells(f) = HeaderCells + f.len
           /\ HeaderCells \in Nat \ {0}
BY TransportAssumption DEF FrameCells

LEMMA EmptyIsSeq == \A S : <<>> \in Seq(S) /\ Len(<<>>) = 0
BY EmptySeq

\* Frame(f) (encode_header and the payload) is a sequence of cells.
LEMMA FrameProperties ==
    ASSUME NEW T, NEW f \in T, f.len \in Nat
    PROVE  /\ Frame(f) \in Seq(Cells(T))
           /\ Len(Frame(f)) = FrameCells(f)
           /\ \A i \in 1..FrameCells(f) : Frame(f)[i] = [frame |-> f, pos |-> i]
<1>1. FrameCells(f) \in Nat
    BY FrameCellsType
<1>2. \A i \in 1..FrameCells(f) : [frame |-> f, pos |-> i] \in Cells(T)
    BY <1>1 DEF Cells
<1> QED
    BY <1>1, <1>2 DEF Frame

LEMMA CellProperties ==
    ASSUME NEW T, NEW s \in Seq(Cells(T)), NEW k \in 1..Len(s)
    PROVE  /\ s[k] \in Cells(T)
           /\ s[k].frame \in T /\ s[k].pos \in Nat \ {0}
           /\ s[k] = [frame |-> s[k].frame, pos |-> s[k].pos]
<1>1. s[k] \in Cells(T)
    BY ElementOfSeq
<1> QED
    BY <1>1 DEF Cells

LEMMA AfterProperties ==
    ASSUME NEW S, NEW s \in Seq(S), NEW n \in 0..Len(s)
    PROVE  /\ After(s, n) \in Seq(S)
           /\ Len(After(s, n)) = Len(s) - n
           /\ \A i \in 1..(Len(s) - n) : After(s, n)[i] = s[n + i]
BY DEF After

LEMMA PrefixProperties ==
    ASSUME NEW S, NEW s \in Seq(S), NEW n \in 0..Len(s)
    PROVE  /\ SubSeq(s, 1, n) \in Seq(S)
           /\ Len(SubSeq(s, 1, n)) = n
           /\ \A i \in 1..n : SubSeq(s, 1, n)[i] = s[i]
OBVIOUS

LEMMA ConcatCells ==
    ASSUME NEW S, NEW s \in Seq(S), NEW t \in Seq(S)
    PROVE  /\ s \o t \in Seq(S)
           /\ Len(s \o t) = Len(s) + Len(t)
           /\ \A i \in 1..Len(s) : (s \o t)[i] = s[i]
           /\ \A i \in 1..Len(t) : (s \o t)[Len(s) + i] = t[i]
OBVIOUS

-----------------------------------------------------------------------------
(* Runs of frames.                                                          *)

\* T is a type of frames: each has a length and a number.
Framing(T) == \A f \in T : f.len \in Nat /\ f.num \in Nat

\* Where a cell of an intact stream leads: to the next one of its frame, or to
\* the first of the next frame.
LEMMA IntactNext ==
    ASSUME NEW T, Framing(T), NEW s \in Seq(Cells(T)), Intact(s), NEW k \in 1..Len(s),
           NEW m \in k..Len(s)
    PROVE  /\ s[k].frame \in T
           /\ s[k].pos \in 1..FrameCells(s[k].frame) /\ FrameCells(s[k].frame) \in Nat
           /\ s[k].pos + (m - k) <= FrameCells(s[k].frame) =>
                 s[m] = [frame |-> s[k].frame, pos |-> s[k].pos + (m - k)]
           /\ s[k].pos + (m - k) = FrameCells(s[k].frame) + 1 =>
                 s[m].pos = 1 /\ s[m].frame.num = s[k].frame.num + 1
<1> DEFINE f == s[k].frame
           p == s[k].pos
<1>1. f \in T /\ p \in Nat \ {0}
    BY CellProperties
<1>2. FrameCells(f) \in Nat
    BY <1>1, FrameCellsType DEF Framing
<1>3. p <= FrameCells(f)
      /\ (p + (m - k) <= FrameCells(f) => s[m] = [frame |-> f, pos |-> p + (m - k)])
    BY DEF Intact
<1>4. ASSUME p + (m - k) = FrameCells(f) + 1
      PROVE  s[m].pos = 1 /\ s[m].frame.num = f.num + 1
  <2>1. m - 1 \in k..Len(s) /\ p + ((m - 1) - k) <= FrameCells(f)
      BY <1>1, <1>2, <1>3, <1>4, SMTT(40)
  <2>2. s[m - 1] = [frame |-> f, pos |-> p + ((m - 1) - k)]
      BY <2>1 DEF Intact
  <2>3. s[m - 1].frame = f /\ s[m - 1].pos = FrameCells(f)
      BY <1>1, <1>2, <1>4, <2>2, SMTT(40)
  <2>4. m - 1 \in 1..Len(s) /\ m - 1 < Len(s) /\ (m - 1) + 1 = m
      BY <2>1
  <2> QED
      BY <2>3, <2>4 DEF Intact
<1> QED
    BY <1>1, <1>2, <1>3, <1>4

\* The same, for the frame at the head of the stream.
LEMMA IntactStep ==
    ASSUME NEW T, Framing(T), NEW s \in Seq(Cells(T)), Intact(s), 1 \in 1..Len(s),
           NEW m \in 1..Len(s), NEW f, f = s[1].frame, s[1].pos + (m - 1) = FrameCells(f) + 1
    PROVE  s[m].pos = 1 /\ s[m].frame.num = f.num + 1
<1>1. s[1].pos + (m - 1) = FrameCells(s[1].frame) + 1 =>
          s[m].pos = 1 /\ s[m].frame.num = s[1].frame.num + 1
    BY IntactNext, Zenon
<1> QED
    BY <1>1

\* Reading n cells leaves an intact stream that ends where it ended.
LEMMA IntactAfter ==
    ASSUME NEW T, Framing(T), NEW s \in Seq(Cells(T)), Intact(s), NEW n \in 0..Len(s)
    PROVE  /\ Intact(After(s, n))
           /\ \A e : EndsAt(s, e) => EndsAt(After(s, n), e)
<1> DEFINE t == After(s, n)
<1>1. t \in Seq(Cells(T)) /\ Len(t) = Len(s) - n /\ \A i \in 1..(Len(s) - n) : t[i] = s[n + i]
    BY AfterProperties
<1>2. Intact(t)
  <2> SUFFICES ASSUME NEW k \in 1..Len(t)
               PROVE  /\ t[k].pos <= FrameCells(t[k].frame)
                      /\ \A m \in k..Len(t) :
                            t[k].pos + (m - k) <= FrameCells(t[k].frame) =>
                               t[m] = [frame |-> t[k].frame, pos |-> t[k].pos + (m - k)]
                      /\ k < Len(t) /\ t[k].pos = FrameCells(t[k].frame) =>
                            t[k + 1].pos = 1 /\ t[k + 1].frame.num = t[k].frame.num + 1
      BY DEF Intact
  <2>1. n + k \in 1..Len(s) /\ t[k] = s[n + k]
      BY <1>1
  <2>2. t[k].pos <= FrameCells(t[k].frame)
      BY <2>1 DEF Intact
  <2>3. ASSUME NEW m \in k..Len(t), t[k].pos + (m - k) <= FrameCells(t[k].frame)
        PROVE  t[m] = [frame |-> t[k].frame, pos |-> t[k].pos + (m - k)]
    <3>1. n + m \in (n + k)..Len(s) /\ (n + m) - (n + k) = m - k /\ t[m] = s[n + m]
        BY <1>1
    <3> QED
        BY <2>1, <2>3, <3>1 DEF Intact
  <2>4. ASSUME k < Len(t), t[k].pos = FrameCells(t[k].frame)
        PROVE  t[k + 1].pos = 1 /\ t[k + 1].frame.num = t[k].frame.num + 1
    <3>1. Len(s) \in Nat /\ Len(t) \in Nat
        BY <1>1
    <3>2. n + k < Len(s) /\ (n + k) + 1 = n + (k + 1) /\ k + 1 \in 1..(Len(s) - n)
        BY <1>1, <2>4, <3>1
    <3>3. t[k + 1] = s[n + (k + 1)]
        BY <1>1, <3>2
    <3> QED
        BY <2>1, <2>4, <3>2, <3>3 DEF Intact
  <2> QED
      BY <2>2, <2>3, <2>4
<1>3. ASSUME NEW e, EndsAt(s, e), t # <<>> PROVE t[Len(t)] = s[Len(s)] /\ s # <<>>
    BY <1>1, <1>3
<1> QED
    BY <1>2, <1>3 DEF EndsAt

\* Losing a suffix leaves an intact stream that starts where it started.
LEMMA IntactPrefix ==
    ASSUME NEW T, Framing(T), NEW s \in Seq(Cells(T)), Intact(s), NEW n \in 0..Len(s)
    PROVE  /\ Intact(SubSeq(s, 1, n))
           /\ SubSeq(s, 1, n) # <<>> => s # <<>> /\ SubSeq(s, 1, n)[1] = s[1]
<1> DEFINE t == SubSeq(s, 1, n)
<1>1. t \in Seq(Cells(T)) /\ Len(t) = n /\ \A i \in 1..n : t[i] = s[i]
    BY PrefixProperties
<1>2. Intact(t)
    BY <1>1 DEF Intact
<1> QED
    BY <1>1, <1>2

\* t is s followed by the cells of f.
Extends(t, s, f) ==
    /\ Len(t) = Len(s) + FrameCells(f)
    /\ \A i \in 1..Len(s) : t[i] = s[i]
    /\ \A i \in 1..FrameCells(f) : t[Len(s) + i] = [frame |-> f, pos |-> i]

\* s ends with the frame before f.
Follows(f, s) ==
    s # <<>> => /\ s[Len(s)].pos = FrameCells(s[Len(s)].frame)
                /\ f.num = s[Len(s)].frame.num + 1

LEMMA IntactExtend ==
    ASSUME NEW T, Framing(T), NEW s \in Seq(Cells(T)), Intact(s),
           NEW f \in T, Follows(f, s),
           NEW t \in Seq(Cells(T)), Extends(t, s, f)
    PROVE  /\ Intact(t)
           /\ EndsAt(t, f.num)
           /\ t # <<>>
           /\ s # <<>> => t[1] = s[1]
           /\ s = <<>> => StartsAt(t, f.num)
           /\ \A k \in 1..Len(t) : t[k].frame = f \/ (k \in 1..Len(s) /\ t[k] = s[k])
<1> DEFINE n == Len(s)
           c == FrameCells(f)
<1>0. c \in Nat \ {0} /\ n \in Nat
    BY FrameCellsType DEF Framing
<1>1. /\ t \in Seq(Cells(T)) /\ Len(t) = n + c
      /\ \A i \in 1..n : t[i] = s[i]
      /\ \A i \in 1..c : t[n + i] = [frame |-> f, pos |-> i]
    BY DEF Extends
<1>2. ASSUME NEW k \in (n + 1)..(n + c) PROVE t[k] = [frame |-> f, pos |-> k - n]
  <2>1. k - n \in 1..c /\ n + (k - n) = k
      BY <1>0
  <2> QED
      BY <1>1, <2>1
<1>3. ASSUME NEW k \in 1..Len(t)
      PROVE  /\ t[k].pos <= FrameCells(t[k].frame)
             /\ \A m \in k..Len(t) :
                   t[k].pos + (m - k) <= FrameCells(t[k].frame) =>
                      t[m] = [frame |-> t[k].frame, pos |-> t[k].pos + (m - k)]
             /\ k < Len(t) /\ t[k].pos = FrameCells(t[k].frame) =>
                   t[k + 1].pos = 1 /\ t[k + 1].frame.num = t[k].frame.num + 1
  <2>0. k \in Nat
      BY <1>0, <1>1
  <2>1. CASE k > n
    <3>0. k \in (n + 1)..(n + c)
        BY <1>0, <1>1, <2>1
    <3>1. t[k] = [frame |-> f, pos |-> k - n] /\ k \in (n + 1)..(n + c)
        BY <1>2, <3>0, Zenon
    <3>2. t[k].frame = f /\ t[k].pos = k - n
        BY <3>1
    <3>3. ASSUME NEW m \in k..Len(t) PROVE t[m] = [frame |-> f, pos |-> (k - n) + (m - k)]
      <4>1. m \in (n + 1)..(n + c) /\ m - n = (k - n) + (m - k)
          BY <1>0, <1>1, <3>1
      <4> QED
          BY <1>2, <4>1
    <3>4. ~(k < Len(t) /\ k - n = c)
        BY <1>0, <1>1
    <3>5. k - n <= c
        BY <1>0, <3>1
    <3> QED
        BY <3>2, <3>3, <3>4, <3>5
  <2>2. CASE k <= n
    <3>1. k \in 1..n /\ t[k] = s[k] /\ n \in k..Len(s)
        BY <1>0, <1>1, <2>2
    <3> DEFINE g == s[k].frame
               p == s[k].pos
    <3>2. g \in T /\ p \in 1..FrameCells(g) /\ FrameCells(g) \in Nat
          /\ (p + (n - k) <= FrameCells(g) => s[n] = [frame |-> g, pos |-> p + (n - k)])
        BY <3>1, IntactNext, Zenon
    <3>3. s # <<>> /\ s[n].pos = FrameCells(s[n].frame) /\ f.num = s[n].frame.num + 1
        BY <3>1 DEF Follows
    \* The last cell of s closes its frame, so the frame of cell k ends in s.
    <3>4. p + (n - k) >= FrameCells(g)
      <4> SUFFICES ASSUME p + (n - k) < FrameCells(g) PROVE FALSE
          BY <1>0, <3>1, <3>2
      <4>1. s[n].frame = g /\ s[n].pos = p + (n - k)
          BY <3>2
      <4> QED
          BY <3>3, <4>1, <3>2, <1>0, <3>1
    <3>5. ASSUME NEW m \in k..Len(t), p + (m - k) <= FrameCells(g)
          PROVE  t[m] = [frame |-> g, pos |-> p + (m - k)]
      <4>1. m \in k..Len(s) /\ m \in 1..n
          BY <1>0, <1>1, <3>1, <3>2, <3>4, <3>5
      <4>2. s[m] = [frame |-> g, pos |-> p + (m - k)]
          BY <3>1, <3>5, <4>1, IntactNext
      <4> QED
          BY <1>1, <4>1, <4>2
    <3>6. ASSUME k < Len(t), p = FrameCells(g)
          PROVE  t[k + 1].pos = 1 /\ t[k + 1].frame.num = g.num + 1
      <4>0. k < n \/ k = n
          BY <1>0, <3>1
      <4>1. CASE k < n
        <5>1. s[k + 1].pos = 1 /\ s[k + 1].frame.num = g.num + 1
            BY <3>1, <3>6, <4>1 DEF Intact
        <5>2. k + 1 \in 1..n
            BY <1>0, <3>1, <4>1
        <5>3. t[k + 1] = s[k + 1]
            BY <1>1, <5>2
        <5> QED
            BY <5>1, <5>3
      <4>2. CASE k = n
        <5>1. t[k + 1] = [frame |-> f, pos |-> 1]
            BY <1>0, <1>1, <4>2
        <5> QED
            BY <3>3, <4>2, <5>1
      <4> QED
          BY <4>0, <4>1, <4>2
    <3> QED
        BY <3>1, <3>2, <3>5, <3>6
  <2> QED
      BY <1>0, <2>0, <2>1, <2>2
<1>4. Intact(t)
    BY <1>3 DEF Intact
<1>5. t[Len(t)] = [frame |-> f, pos |-> c] /\ Len(t) > 0 /\ t # <<>>
    BY <1>0, <1>1
<1>6. EndsAt(t, f.num)
    BY <1>5 DEF EndsAt
<1>7. s # <<>> => t[1] = s[1]
    BY <1>0, <1>1
<1>8. s = <<>> => StartsAt(t, f.num)
  <2>1. s = <<>> => t[1] = [frame |-> f, pos |-> 1]
      BY <1>0, <1>1
  <2> QED
      BY <2>1 DEF StartsAt
<1>9. ASSUME NEW k \in 1..Len(t) PROVE t[k].frame = f \/ (k \in 1..n /\ t[k] = s[k])
  <2>1. k \in 1..n \/ k \in (n + 1)..(n + c)
      BY <1>0, <1>1
  <2>2. CASE k \in 1..n
      BY <1>1, <2>2
  <2>3. CASE k \in (n + 1)..(n + c)
    <3>1. t[k] = [frame |-> f, pos |-> k - n]
        BY <1>2, <2>3
    <3> QED
        BY <3>1
  <2> QED
      BY <2>1, <2>2, <2>3
<1> QED
    BY <1>4, <1>5, <1>6, <1>7, <1>8, <1>9

\* What a stream t has become when f was written at the end of s.
Appended(t, s, f) ==
    /\ Intact(t)
    /\ EndsAt(t, f.num)
    /\ t # <<>>
    /\ s # <<>> => t[1] = s[1]
    /\ s = <<>> => StartsAt(t, f.num)
    /\ \A k \in 1..Len(t) : t[k].frame = f \/ (k \in 1..Len(s) /\ t[k] = s[k])

\* Writing frame f after a stream that ends with the frame before it.
LEMMA IntactAppend ==
    ASSUME NEW T, Framing(T), NEW s \in Seq(Cells(T)), Intact(s),
           NEW f \in T, Follows(f, s), NEW t, t = s \o Frame(f)
    PROVE  Appended(t, s, f)
<1>1. Frame(f) \in Seq(Cells(T))
    BY FrameProperties DEF Framing
<1>2. /\ Len(Frame(f)) = FrameCells(f)
      /\ \A i \in 1..FrameCells(f) : Frame(f)[i] = [frame |-> f, pos |-> i]
    BY FrameProperties DEF Framing
<1>3. /\ s \o Frame(f) \in Seq(Cells(T))
      /\ Len(s \o Frame(f)) = Len(s) + Len(Frame(f))
      /\ \A i \in 1..Len(s) : (s \o Frame(f))[i] = s[i]
    BY <1>1, ConcatCells, Zenon
<1>4. \A i \in 1..Len(Frame(f)) : (s \o Frame(f))[Len(s) + i] = Frame(f)[i]
    BY <1>1, ConcatCells, SMT
<1>5. t \in Seq(Cells(T))
    BY <1>3
<1>6. Extends(t, s, f)
    BY <1>2, <1>3, <1>4, Zenon DEF Extends
<1>7. Intact(t)
    BY <1>5, <1>6, IntactExtend, Zenon
<1>8. EndsAt(t, f.num)
    BY <1>5, <1>6, IntactExtend, Zenon
<1>9. t # <<>>
    BY <1>5, <1>6, IntactExtend, Zenon
<1>10. s # <<>> => t[1] = s[1]
  <2>1. s # <<>> => 1 \in 1..Len(s)
      OBVIOUS
  <2> QED
      BY <1>6, <2>1 DEF Extends
<1>11. s = <<>> => StartsAt(t, f.num)
    BY <1>5, <1>6, IntactExtend, Zenon
<1>12. \A k \in 1..Len(t) : t[k].frame = f \/ (k \in 1..Len(s) /\ t[k] = s[k])
    BY <1>5, <1>6, IntactExtend, ZenonT(60)
<1> QED
    BY <1>5, <1>7, <1>8, <1>9, <1>10, <1>11, <1>12 DEF Appended

\* read_exact(header) at the start of frame f.
LEMMA HeaderTaken ==
    ASSUME NEW T, Framing(T), NEW s \in Seq(Cells(T)), Intact(s), Len(s) >= HeaderCells,
           NEW f, f = s[1].frame, s[1].pos = 1
    PROVE  /\ HeaderCells \in 0..Len(s)
           /\ f.len = 0 => StartsAt(After(s, HeaderCells), f.num + 1)
           /\ f.len > 0 /\ After(s, HeaderCells) # <<>> =>
                 After(s, HeaderCells)[1] = [frame |-> f, pos |-> HeaderCells + 1]
           /\ \A e : EndsAt(s, e) /\ After(s, HeaderCells) = <<>> => f.len = 0 /\ f.num = e
<1> DEFINE t == After(s, HeaderCells)
           h == HeaderCells
<1>1. h \in Nat \ {0} /\ Len(s) \in Nat /\ 1 \in 1..Len(s) /\ h \in 0..Len(s) /\ s # <<>>
    BY TransportAssumption
<1>2. f \in T /\ f.len \in Nat /\ FrameCells(f) = h + f.len
    BY <1>1, CellProperties, FrameCellsType DEF Framing
<1>3. Len(t) = Len(s) - h /\ \A i \in 1..(Len(s) - h) : t[i] = s[h + i]
    BY <1>1, AfterProperties
<1>4. t # <<>> => h + 1 \in 1..Len(s) /\ t[1] = s[h + 1]
    BY <1>1, <1>3
<1>5. t # <<>> /\ f.len = 0 => s[h + 1].pos = 1 /\ s[h + 1].frame.num = f.num + 1
  <2> SUFFICES ASSUME t # <<>>, f.len = 0
               PROVE  s[h + 1].pos = 1 /\ s[h + 1].frame.num = f.num + 1
      OBVIOUS
  <2>1. h + 1 \in 1..Len(s) /\ s[1].pos + ((h + 1) - 1) = FrameCells(f) + 1
      BY <1>1, <1>2, <1>4
  <2> QED
      BY <1>1, <2>1, IntactStep
<1>6. t # <<>> /\ f.len > 0 => s[h + 1] = [frame |-> f, pos |-> h + 1]
  <2> SUFFICES ASSUME t # <<>>, f.len > 0 PROVE s[h + 1] = [frame |-> f, pos |-> h + 1]
      OBVIOUS
  <2>1. h + 1 \in 1..Len(s) /\ 1 + ((h + 1) - 1) = h + 1 /\ h + 1 <= FrameCells(f)
      BY <1>1, <1>2, <1>4
  <2> QED
      BY <1>1, <2>1 DEF Intact
<1>7. ASSUME NEW e, EndsAt(s, e), t = <<>> PROVE f.len = 0 /\ f.num = e
  <2>0. Len(t) = 0
      BY <1>7
  <2>10. h = Len(s)
    <3>1. 0 = Len(s) - h
        BY <1>3, <2>0
    <3> QED
        BY <1>1, <3>1
  <2>11. h <= h + f.len
      BY <1>1, <1>2
  <2>1. h = Len(s) /\ h \in 1..Len(s) /\ 1 + (h - 1) = h /\ h <= FrameCells(f)
      BY <1>1, <1>2, <2>10, <2>11
  <2>2. s[1].pos + (h - 1) <= FrameCells(f) => s[h] = [frame |-> f, pos |-> s[1].pos + (h - 1)]
      BY <1>1, <2>1, IntactNext
  <2>3. s[h].frame = f /\ s[h].pos = h
      BY <2>1, <2>2
  <2>4. h = FrameCells(f) /\ f.num = e
      BY <1>1, <1>7, <2>1, <2>3 DEF EndsAt
  <2> QED
      BY <1>1, <1>2, <2>4
<1> QED
    BY <1>1, <1>4, <1>5, <1>6, <1>7 DEF StartsAt

\* read_exact of a rest of frame f of r cells.
LEMMA RestTaken ==
    ASSUME NEW T, Framing(T), NEW s \in Seq(Cells(T)), Intact(s), s # <<>>,
           NEW f, f = s[1].frame, NEW r \in Nat \ {0}, s[1].pos + r = FrameCells(f) + 1,
           Len(s) >= r
    PROVE  /\ r \in 0..Len(s)
           /\ StartsAt(After(s, r), f.num + 1)
           /\ \A e : EndsAt(s, e) /\ After(s, r) = <<>> => f.num = e
<1> DEFINE t == After(s, r)
           p == s[1].pos
<1>1. Len(s) \in Nat /\ 1 \in 1..Len(s) /\ r \in 0..Len(s) /\ r \in 1..Len(s)
    OBVIOUS
<1>2. f \in T /\ FrameCells(f) \in Nat /\ p \in Nat
    BY <1>1, CellProperties, FrameCellsType DEF Framing
<1>3. Len(t) = Len(s) - r /\ \A i \in 1..(Len(s) - r) : t[i] = s[r + i]
    BY <1>1, AfterProperties
<1>4. ASSUME t # <<>> PROVE t[1].pos = 1 /\ t[1].frame.num = f.num + 1
  <2>1. r + 1 \in 1..Len(s) /\ t[1] = s[r + 1] /\ p + ((r + 1) - 1) = FrameCells(f) + 1
      BY <1>1, <1>2, <1>3, <1>4
  <2> QED
      BY <1>1, <2>1, IntactStep
<1>5. ASSUME NEW e, EndsAt(s, e), t = <<>> PROVE f.num = e
  <2>1. r = Len(s) /\ p + (r - 1) <= FrameCells(f)
      BY <1>1, <1>2, <1>3, <1>5
  <2>2. s[r] = [frame |-> f, pos |-> p + (r - 1)]
      BY <1>1, <2>1, IntactNext
  <2>3. s[r].frame = f
      BY <2>2
  <2> QED
      BY <1>5, <2>1, <2>3 DEF EndsAt
<1> QED
    BY <1>1, <1>4, <1>5 DEF StartsAt

\* A whole frame at the head of a stream is what WholeRequest looks for.
LEMMA WholeAtHead ==
    ASSUME NEW T, Framing(T), NEW s \in Seq(Cells(T)), Intact(s), s # <<>>,
           NEW f, f = s[1].frame, s[1].pos = 1, Len(s) >= FrameCells(f)
    PROVE  SubSeq(s, 1, FrameCells(f)) = Frame(f)
<1>1. Len(s) \in Nat /\ 1 \in 1..Len(s)
    OBVIOUS
<1>a. f \in T /\ f.len \in Nat
    BY <1>1, CellProperties DEF Framing
<1>b. FrameCells(f) \in Nat
    BY <1>a, FrameCellsType
<1>2. f \in T /\ f.len \in Nat /\ FrameCells(f) \in 0..Len(s)
    BY <1>1, <1>a, <1>b
<1>3. /\ SubSeq(s, 1, FrameCells(f)) \in Seq(Cells(T))
      /\ Len(SubSeq(s, 1, FrameCells(f))) = FrameCells(f)
      /\ \A i \in 1..FrameCells(f) : SubSeq(s, 1, FrameCells(f))[i] = s[i]
    BY <1>2, PrefixProperties
<1>4. ASSUME NEW i \in 1..FrameCells(f) PROVE s[i] = [frame |-> f, pos |-> i]
  <2>1. i \in 1..Len(s) /\ 1 + (i - 1) = i /\ i <= FrameCells(f)
      BY <1>1, <1>2
  <2> QED
      BY <1>1, <2>1 DEF Intact
<1>5. /\ Frame(f) \in Seq(Cells(T))
      /\ Len(Frame(f)) = FrameCells(f)
      /\ \A i \in 1..FrameCells(f) : Frame(f)[i] = [frame |-> f, pos |-> i]
    BY <1>2, FrameProperties
<1>6. \A t, u \in Seq(Cells(T)) :
          Len(t) = Len(u) /\ (\A i \in 1..Len(t) : t[i] = u[i]) => t = u
    BY SeqEqual
<1>7. \A i \in 1..FrameCells(f) : SubSeq(s, 1, FrameCells(f))[i] = Frame(f)[i]
    BY <1>3, <1>4, <1>5, Zenon
<1> QED
    BY <1>3, <1>5, <1>6, <1>7, Zenon

=============================================================================
