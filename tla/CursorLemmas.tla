---------------------------- MODULE CursorLemmas ----------------------------
(***************************************************************************)
(* Facts about the operations of Cursor, for every pointer width and every *)
(* payload: the arithmetic of align_up and of offsets does not overflow,   *)
(* and an operation that succeeds has stayed in the payload and gone past  *)
(* a chunk header.                                                         *)
(***************************************************************************)
EXTENDS Cursor, TLAPS, SequenceTheorems

LEMMA Modulus ==
    ASSUME NEW n \in Nat, NEW a \in Nat \ {0}
    PROVE  n % a \in 0..(a - 1)
OBVIOUS

LEMMA NoWrap ==
    ASSUME NEW n \in Nat, n <= USIZE_MAX
    PROVE  Wrap(n) = n
BY CursorAssumption DEF Wrap

LEMMA Quotient ==
    ASSUME NEW n \in Nat, NEW k \in Nat, NEW a \in Nat \ {0}, n < k * a
    PROVE  (n \div a) + 1 \in 1..k
<1> DEFINE q == n \div a
<1>1. q \in Nat /\ a * q <= n
    OBVIOUS
<1> HIDE DEF q
<1>2. ASSUME q >= k PROVE FALSE
  <2>1. PICK j \in Nat : q = k + j
    <3>1. q - k \in Nat /\ q = k + (q - k)
        BY <1>1, <1>2
    <3> QED
        BY <3>1
  <2>2. a * q = a * k + a * j /\ a * j \in Nat /\ a * k \in Nat /\ a * k = k * a
      BY <2>1
  <2> QED
      BY <1>1, <2>2
<1>3. q < k
    BY <1>1, <1>2
<1> QED
    BY <1>1, <1>3 DEF q

LEMMA TimesMonotone ==
    ASSUME NEW m \in Nat, NEW k \in 0..m, NEW a \in Nat
    PROVE  k * a \in Nat /\ m * a \in Nat /\ k * a <= m * a /\ (k + 1) * a = k * a + a
<1>1. PICK j \in Nat : m = k + j
  <2>1. m - k \in Nat /\ m = k + (m - k)
      OBVIOUS
  <2> QED
      BY <2>1
<1>2. m * a = k * a + j * a /\ j * a \in Nat /\ k * a \in Nat
    BY <1>1
<1>3. (k + 1) * a = k * a + a
    OBVIOUS
<1> QED
    BY <1>2, <1>3

\* transport::align_up moves by less than a word and does not overflow.
LEMMA AlignUp ==
    ASSUME NEW n \in Nat, n + PTR_SIZE <= USIZE_MAX
    PROVE  align_up(n, PTR_SIZE) \in n..(n + PTR_SIZE - 1)
<1> DEFINE r == n % PTR_SIZE
           p == (PTR_SIZE - r) % PTR_SIZE
<1>1. r \in 0..(PTR_SIZE - 1)
    BY Modulus, CursorAssumption
<1>2. p \in 0..(PTR_SIZE - 1)
  <2>1. PTR_SIZE - r \in Nat
      BY <1>1, CursorAssumption
  <2> QED
      BY <2>1, Modulus, CursorAssumption
<1> HIDE DEF p
<1>3. n + p \in Nat /\ n + p <= USIZE_MAX
    BY <1>2, CursorAssumption
<1>4. align_up(n, PTR_SIZE) = n + p
    BY <1>3, NoWrap DEF align_up, p
<1> QED
    BY <1>2, <1>4, CursorAssumption

-----------------------------------------------------------------------------
\* A payload in memory: usize has room for its length and a header more.
Buffer(buf) ==
    /\ buf \in Seq(0..USIZE_MAX)
    /\ Len(buf) * PTR_SIZE + 2 * PTR_SIZE <= USIZE_MAX

LEMMA BufferWords ==
    ASSUME NEW buf, Buffer(buf)
    PROVE  /\ Len(buf) \in Nat /\ Len(buf) * PTR_SIZE \in Nat
           /\ Len(buf) * PTR_SIZE + 2 * PTR_SIZE <= USIZE_MAX
           /\ \A i \in 1..Len(buf) : buf[i] \in Nat
<1>1. buf \in Seq(0..USIZE_MAX) /\ Len(buf) \in Nat
    BY DEF Buffer
<1>2. \A i \in 1..Len(buf) : buf[i] \in 0..USIZE_MAX
    BY <1>1, ElementOfSeq
<1>3. Len(buf) * PTR_SIZE \in Nat
    BY <1>1, CursorAssumption
<1> QED
    BY <1>1, <1>2, <1>3 DEF Buffer

\* A cursor on a payload, somewhere inside it.
Within(c) ==
    /\ Buffer(c.buf)
    /\ c.len \in Nat /\ c.len <= Len(c.buf) * PTR_SIZE
    /\ c.pos \in Nat /\ c.pos <= c.len

\* The cursor r comes after c, a chunk header further on.
Beyond(r, c) ==
    /\ r.buf = c.buf /\ r.len = c.len /\ r.pos \in Nat
    /\ r.pos >= c.pos + header_len /\ r.pos <= c.len

LEMMA HeaderRead ==
    ASSUME NEW c, Within(c), NEW h, h = chunk_header(c)
    PROVE  /\ h.buf = c.buf /\ h.len = c.len /\ h.pos \in Nat /\ h.ok \in BOOLEAN
           /\ h.ok => /\ Beyond(h, c) /\ h.val.len \in Nat
                      /\ align_up(c.pos, PTR_SIZE) \in Nat
                      /\ align_up(c.pos, PTR_SIZE) + header_len <= c.len
<1> DEFINE s == align_up(c.pos, PTR_SIZE)
<1>1. /\ Buffer(c.buf) /\ c.len \in Nat /\ c.pos \in Nat /\ c.pos <= c.len
      /\ c.len <= Len(c.buf) * PTR_SIZE
    BY DEF Within
<1>2. /\ Len(c.buf) \in Nat /\ Len(c.buf) * PTR_SIZE \in Nat
      /\ Len(c.buf) * PTR_SIZE + 2 * PTR_SIZE <= USIZE_MAX
      /\ \A i \in 1..Len(c.buf) : c.buf[i] \in Nat
    BY <1>1, BufferWords
<1>3. PTR_SIZE \in Nat \ {0} /\ USIZE_MAX \in Nat /\ header_len = 2 * PTR_SIZE /\ header_len \in Nat
    BY CursorAssumption DEF header_len
<1>4. c.pos + PTR_SIZE <= USIZE_MAX
  <2> DEFINE m == Len(c.buf) * PTR_SIZE
  <2>1. m \in Nat /\ m + 2 * PTR_SIZE <= USIZE_MAX /\ c.pos <= m
      BY <1>1, <1>2
  <2> HIDE DEF m
  <2> QED
      BY <1>1, <1>3, <2>1
<1>5. s \in Nat /\ s >= c.pos
    BY <1>1, <1>3, <1>4, AlignUp
<1> HIDE DEF s
<1>6. CASE need(s, header_len, c.len)
  <2>1. s + header_len <= c.len /\ s + header_len <= USIZE_MAX /\ s + header_len \in Nat
      BY <1>3, <1>5, <1>6 DEF need
  <2>2. Wrap(s + header_len) = s + header_len
      BY <2>1, NoWrap
  <2>3. s + PTR_SIZE \in Nat /\ s + PTR_SIZE < Len(c.buf) * PTR_SIZE
      BY <1>1, <1>2, <1>3, <1>5, <2>1
  <2>4. ((s + PTR_SIZE) \div PTR_SIZE) + 1 \in 1..Len(c.buf)
      BY <1>2, <1>3, <2>3, Quotient
  <2>5. Word(c, s + PTR_SIZE) \in Nat
      BY <1>2, <2>4 DEF Word
  <2>6. h = Moved(c, s + header_len, [at |-> s, len |-> Word(c, s + PTR_SIZE)])
      BY <1>6, <2>2 DEF chunk_header, s
  <2>7. /\ h.buf = c.buf /\ h.len = c.len /\ h.pos = s + header_len /\ h.ok = TRUE
        /\ h.val.len = Word(c, s + PTR_SIZE)
      BY <2>6 DEF Moved
  <2>8. Beyond(h, c)
      BY <1>1, <1>3, <1>5, <2>1, <2>7 DEF Beyond
  <2> QED
      BY <1>5, <2>1, <2>5, <2>7, <2>8 DEF s
<1>7. CASE ~need(s, header_len, c.len)
  <2>1. h = Err(Moved(c, s, NoSlice))
      BY <1>7 DEF chunk_header, s
  <2>2. h.buf = c.buf /\ h.len = c.len /\ h.pos = s /\ h.ok = FALSE
      BY <2>1 DEF Err, Moved
  <2> QED
      BY <1>5, <2>2
<1> QED
    BY <1>6, <1>7

LEMMA RawRead ==
    ASSUME NEW c, NEW h, Beyond(h, c), Within(c), NEW n \in Nat, NEW r, r = read_raw(h, n)
    PROVE  /\ r.buf = c.buf /\ r.len = c.len /\ r.pos \in Nat /\ r.ok \in BOOLEAN
           /\ r.ok => /\ Beyond(r, c)
                      /\ r.val.at \in Nat /\ r.val.len = n
                      /\ r.val.at + n = r.pos /\ r.val.at + n <= c.len
<1>1. /\ h.buf = c.buf /\ h.len = c.len /\ h.pos \in Nat /\ c.len \in Nat /\ c.pos \in Nat
      /\ h.pos >= c.pos + header_len
    BY DEF Beyond, Within
<1>2. CASE need(h.pos, n, h.len)
  <2>1. h.pos + n <= c.len /\ h.pos + n <= USIZE_MAX /\ h.pos + n \in Nat
      BY <1>1, <1>2 DEF need
  <2>2. Wrap(h.pos + n) = h.pos + n
      BY <2>1, NoWrap
  <2>3. r = Moved(h, h.pos + n, [at |-> h.pos, len |-> n])
      BY <1>2, <2>2 DEF read_raw
  <2>4. /\ r.buf = c.buf /\ r.len = c.len /\ r.pos = h.pos + n /\ r.ok = TRUE
        /\ r.val.at = h.pos /\ r.val.len = n
      BY <1>1, <2>3 DEF Moved
  <2>5. Beyond(r, c)
      BY <1>1, <2>1, <2>4, CursorAssumption DEF Beyond, header_len
  <2> QED
      BY <1>1, <2>1, <2>4, <2>5
<1>3. CASE ~need(h.pos, n, h.len)
  <2>1. r = Err(h)
      BY <1>3 DEF read_raw
  <2> QED
      BY <1>1, <2>1 DEF Err
<1> QED
    BY <1>2, <1>3

\* leaf and read_chunk_pod: a header, a check of its size, a slice.
LEMMA ContentRead ==
    ASSUME NEW c, Within(c), NEW n \in Nat, NEW r, r = leaf(c) \/ r = read_chunk_pod(c, n)
    PROVE  /\ r.buf = c.buf /\ r.len = c.len /\ r.pos \in Nat /\ r.ok \in BOOLEAN
           /\ r.ok => /\ Beyond(r, c)
                      /\ r.val.at \in Nat /\ r.val.len \in Nat
                      /\ r.val.at + r.val.len <= c.len
<1> DEFINE h == chunk_header(c)
<1>1. /\ h.buf = c.buf /\ h.len = c.len /\ h.pos \in Nat /\ h.ok \in BOOLEAN
      /\ h.ok => Beyond(h, c) /\ h.val.len \in Nat
    BY HeaderRead
<1>2. header_len \in Nat
    BY CursorAssumption DEF header_len
<1> HIDE DEF h
<1>3. CASE r = Err(h)
    BY <1>1, <1>3 DEF Err
<1>4. CASE h.ok /\ h.val.len >= header_len /\ r = read_raw(h, h.val.len - header_len)
  <2>1. h.val.len - header_len \in Nat
      BY <1>1, <1>2, <1>4
  <2> QED
      BY <1>1, <1>4, <2>1, RawRead
<1>5. CASE h.ok /\ r = read_raw(h, n)
    BY <1>1, <1>5, RawRead
<1> QED
    BY <1>3, <1>4, <1>5 DEF leaf, read_chunk_pod, h

\* The structure itself ends where the cursor is.
LEMMA PodRead ==
    ASSUME NEW c, Within(c), NEW n \in Nat, NEW r, r = read_chunk_pod(c, n), r.ok
    PROVE  r.val.at \in Nat /\ r.val.at + n = r.pos
<1> DEFINE h == chunk_header(c)
<1>1. h.ok => Beyond(h, c)
    BY HeaderRead
<1> HIDE DEF h
<1>2. h.ok /\ r = read_raw(h, n)
  <2>1. r = Err(h) \/ (h.ok /\ r = read_raw(h, n))
      BY DEF read_chunk_pod, h
  <2> QED
      BY <2>1 DEF Err
<1> QED
    BY <1>1, <1>2, RawRead

=============================================================================
