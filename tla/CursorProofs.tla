---------------------------- MODULE CursorProofs ----------------------------
(***************************************************************************)
(* The cursor stays inside its buffer, for every pointer width, payload    *)
(* and sequence of reads.                                                  *)
(***************************************************************************)
EXTENDS CursorWalk, CursorLemmas

LEMMA PayloadLength ==
    ASSUME NEW buf \in Payloads
    PROVE  Buffer(buf) /\ Len(buf) * PTR_SIZE \in Nat
<1>1. PICK k \in 0..MaxWords : buf \in [1..k -> Words]
    BY DEF Payloads
<1>2. Len(buf) = k
    BY <1>1, WalkAssumption
<1>3. k * PTR_SIZE \in Nat /\ k * PTR_SIZE <= MaxWords * PTR_SIZE /\ MaxWords * PTR_SIZE \in Nat
    BY TimesMonotone, WalkAssumption, CursorAssumption
<1>4. k * PTR_SIZE + 2 * PTR_SIZE <= USIZE_MAX
    BY <1>3, WalkAssumption, CursorAssumption
<1>5. buf \in Seq(0..USIZE_MAX)
  <2>1. buf \in [1..k -> 0..USIZE_MAX] /\ k \in Nat
    <3>1. \A i \in 1..k : buf[i] \in 0..USIZE_MAX
        BY <1>1, WalkAssumption
    <3> QED
        BY <1>1, <3>1, WalkAssumption
  <2> QED
      BY <2>1, SeqDef
<1> QED
    BY <1>2, <1>3, <1>4, <1>5 DEF Buffer

-----------------------------------------------------------------------------
\* The inductive invariant: headers are paid for out of the bytes before pos.
WalkInv ==
    /\ WalkTypeOK /\ InBounds
    /\ chunks * header_len <= cur.len
    /\ cur.ok => chunks * header_len <= cur.pos

LEMMA CursorWithin ==
    ASSUME WalkInv, cur.ok
    PROVE  Within(cur)
<1>1. cur.buf \in Payloads
    BY DEF WalkInv, WalkTypeOK
<1>2. Buffer(cur.buf)
    BY <1>1, PayloadLength
<1> QED
    BY <1>2 DEF WalkInv, WalkTypeOK, InBounds, Within

LEMMA WalkInvInit == WalkInit => WalkInv
<1> SUFFICES ASSUME WalkInit PROVE WalkInv
    OBVIOUS
<1>1. PICK buf \in Payloads : \E len \in 0..(Len(buf) * PTR_SIZE) : cur = Cursor(buf, len)
    BY DEF WalkInit
<1>2. Len(buf) * PTR_SIZE \in Nat
    BY PayloadLength
<1>3. PICK len \in 0..(Len(buf) * PTR_SIZE) : cur = Cursor(buf, len)
    BY <1>1
<1>4. /\ cur.buf = buf /\ cur.len = len /\ cur.pos = 0 /\ cur.ok = TRUE
      /\ chunks = 0 /\ slice.at = 0 /\ slice.len = 0
    BY <1>3 DEF Cursor, WalkInit, NoSlice
<1>5. len \in Nat /\ len <= Len(buf) * PTR_SIZE
    BY <1>2, <1>3
<1>6. 0 * header_len = 0
    BY CursorAssumption DEF header_len
<1>7. cur.ok \in BOOLEAN
    BY <1>4, Zenon
<1>8. WalkTypeOK
    BY <1>4, <1>5, <1>7 DEF WalkTypeOK
<1>9. InBounds /\ chunks * header_len <= cur.len /\ chunks * header_len <= cur.pos
    BY <1>4, <1>5, <1>6 DEF InBounds
<1> QED
    BY <1>8, <1>9 DEF WalkInv

\* One read, whatever it was.
LEMMA ReadKeepsInv ==
    ASSUME WalkInv, NEW r, NEW s, ReadChunk(r, s),
           r.buf = cur.buf, r.len = cur.len, r.pos \in Nat, r.ok \in BOOLEAN,
           r.ok => Beyond(r, cur) /\ s.at \in Nat /\ s.len \in Nat /\ s.at + s.len <= cur.len
    PROVE  WalkInv'
<1>0. /\ cur.len \in Nat /\ cur.len <= Len(cur.buf) * PTR_SIZE /\ cur.buf \in Payloads
      /\ cur.pos \in Nat /\ chunks \in Nat /\ chunks * header_len <= cur.len
      /\ cur.ok /\ chunks * header_len <= cur.pos /\ cur' = r
    BY DEF WalkInv, WalkTypeOK, ReadChunk
<1>1. header_len \in Nat
    BY CursorAssumption DEF header_len
<1>2. chunks * header_len \in Nat /\ (chunks + 1) * header_len = chunks * header_len + header_len
    BY <1>0, <1>1, TimesMonotone
<1>3. CASE r.ok
  <2>1. chunks' = chunks + 1 /\ slice' = s
      BY <1>3 DEF ReadChunk
  <2>2. r.pos >= cur.pos + header_len /\ r.pos <= cur.len
      BY <1>3 DEF Beyond
  <2>3. chunks' * header_len <= r.pos /\ chunks' * header_len <= cur.len
    <3> DEFINE x == chunks * header_len
    <3>1. x \in Nat /\ x <= cur.pos /\ chunks' * header_len = x + header_len
        BY <1>0, <1>2, <2>1
    <3> HIDE DEF x
    <3>2. x + header_len <= r.pos /\ x + header_len <= cur.len
        BY <1>0, <1>1, <2>2, <3>1
    <3> QED
        BY <3>1, <3>2
  <2> QED
      BY <1>0, <1>3, <2>1, <2>2, <2>3 DEF WalkInv, WalkTypeOK, InBounds
<1>4. CASE ~r.ok
  <2>1. chunks' = chunks /\ slice' = NoSlice
      BY <1>4 DEF ReadChunk
  <2> QED
      BY <1>0, <1>4, <2>1 DEF WalkInv, WalkTypeOK, InBounds, NoSlice
<1> QED
    BY <1>3, <1>4

LEMMA WalkInvStep == WalkInv /\ [WalkNext]_walkVars => WalkInv'
<1> SUFFICES ASSUME WalkInv, [WalkNext]_walkVars PROVE WalkInv'
    OBVIOUS
<1>1. CASE Marker
  <2> DEFINE h == chunk_header(cur)
             s == [at |-> align_up(cur.pos, PTR_SIZE), len |-> header_len]
  <2>1. ReadChunk(h, s)
      BY <1>1 DEF Marker, consume_substruct_marker
  <2>2. Within(cur)
      BY <2>1, CursorWithin DEF ReadChunk
  <2>3. /\ h.buf = cur.buf /\ h.len = cur.len /\ h.pos \in Nat /\ h.ok \in BOOLEAN
        /\ h.ok => /\ Beyond(h, cur)
                   /\ align_up(cur.pos, PTR_SIZE) \in Nat
                   /\ align_up(cur.pos, PTR_SIZE) + header_len <= cur.len
      BY <2>2, HeaderRead
  <2>4. header_len \in Nat
      BY CursorAssumption DEF header_len
  <2> HIDE DEF h
  <2> QED
      BY <2>1, <2>3, <2>4, ReadKeepsInv
<1>2. ASSUME NEW r, NEW n \in Nat, r = leaf(cur) \/ r = read_chunk_pod(cur, n),
             ReadChunk(r, r.val)
      PROVE  WalkInv'
  <2>1. Within(cur)
      BY <1>2, CursorWithin DEF ReadChunk
  <2>2. /\ r.buf = cur.buf /\ r.len = cur.len /\ r.pos \in Nat /\ r.ok \in BOOLEAN
        /\ r.ok => /\ Beyond(r, cur)
                   /\ r.val.at \in Nat /\ r.val.len \in Nat
                   /\ r.val.at + r.val.len <= cur.len
      BY <1>2, <2>1, ContentRead
  <2> QED
      BY <1>2, <2>2, ReadKeepsInv
<1>3. CASE Leaf
    BY <1>2, <1>3 DEF Leaf
<1>4. CASE \E n \in PodSizes : Pod(n)
    BY <1>2, <1>4, WalkAssumption DEF Pod
<1>5. CASE UNCHANGED walkVars
    BY <1>5 DEF walkVars, WalkInv, WalkTypeOK, InBounds
<1> QED
    BY <1>1, <1>3, <1>4, <1>5 DEF WalkNext

LEMMA WalkInvariant == WalkSpec => []WalkInv
BY WalkInvInit, WalkInvStep, PTL DEF WalkSpec

\* Cursor: no read of any decoder leaves the payload or overflows usize.
THEOREM CursorInBounds == WalkSpec => []InBounds
<1>1. WalkInv => InBounds
    BY DEF WalkInv
<1> QED
    BY <1>1, WalkInvariant, PTL

\* Cursor: a payload of n bytes holds at most n / header_len chunks.
THEOREM CursorDepthBounded == WalkSpec => []DepthBounded
<1>1. WalkInv => DepthBounded
    BY DEF WalkInv, DepthBounded
<1> QED
    BY <1>1, WalkInvariant, PTL

=============================================================================
