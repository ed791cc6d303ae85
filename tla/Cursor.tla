------------------------------- MODULE Cursor -------------------------------
(***************************************************************************)
(* The reader of one message payload, src/wire/cursor.rs.  A cursor is a   *)
(* record: the payload as words of PTR_SIZE bytes, its length in bytes,    *)
(* the offset of the next byte, and ok, FALSE once a read has returned     *)
(* Err.  An operation returns the cursor after it, and in val what it      *)
(* read; nothing is read from a cursor that is not ok (the ? operator).    *)
(***************************************************************************)
EXTENDS Naturals, Sequences

CONSTANTS
    PTR_SIZE,   \* size_of::<usize>()
    USIZE_MAX   \* usize::MAX

\* A slice never spans more than half of the address space.
ASSUME CursorAssumption ==
    /\ PTR_SIZE \in Nat \ {0}
    /\ USIZE_MAX \in Nat /\ USIZE_MAX > 4 * PTR_SIZE

\* usize arithmetic in a release build.
Wrap(n) == n % (USIZE_MAX + 1)

\* transport::align_up.
align_up(len, align) == Wrap(len + ((align - (len % align)) % align))

header_len == 2 * PTR_SIZE

-----------------------------------------------------------------------------
\* No slice at all: the message starts with a header, so no content is at 0.
NoSlice == [at |-> 0, len |-> 0]

Cursor(buf, len) == [buf |-> buf, len |-> len, pos |-> 0, ok |-> TRUE, val |-> NoSlice]

\* The cursor moved to pos, having read v; and the cursor after an Err.
Moved(c, pos, v) == [buf |-> c.buf, len |-> c.len, pos |-> pos, ok |-> TRUE, val |-> v]
Err(c) == [buf |-> c.buf, len |-> c.len, pos |-> c.pos, ok |-> FALSE, val |-> NoSlice]

\* Mutant: no tie-breaker between the layouts.
is_exhausted_Never(c) == TRUE

is_exhausted(c) == c.pos = c.len

\* Mutant: forgets the last byte.
need_OffByOne(pos, n, len) == pos + n <= USIZE_MAX /\ pos + n <= len + 1

\* pos.checked_add(n), then the comparison with buf.len().
need(pos, n, len) == pos + n <= USIZE_MAX /\ pos + n <= len

\* read_native_usize at an aligned offset.
Word(c, offset) == c.buf[(offset \div PTR_SIZE) + 1]

\* Mutant: trusts the declared size.
read_raw_Unchecked(c, n) == Moved(c, Wrap(c.pos + n), [at |-> c.pos, len |-> n])

\* read_raw: the value of a slice is where it starts and how long it is.
read_raw(c, n) ==
    IF need(c.pos, n, c.len)
    THEN Moved(c, Wrap(c.pos + n), [at |-> c.pos, len |-> n])
    ELSE Err(c)

\* Skips the padding and reads (orig, size): where the chunk starts and how
\* long it says it is.  orig is never used.
chunk_header(c) ==
    LET start == align_up(c.pos, PTR_SIZE)
    IN  IF need(start, header_len, c.len)
        THEN Moved(c, Wrap(start + header_len), [at |-> start, len |-> Word(c, start + PTR_SIZE)])
        ELSE Err(Moved(c, start, NoSlice))

\* A string or byte string: size is that of its header and its content.
leaf(c) ==
    LET h == chunk_header(c)
    IN  IF h.ok /\ h.val.len >= header_len THEN read_raw(h, h.val.len - header_len) ELSE Err(h)

\* A structure of n bytes: whatever size says beyond it is nested chunks.
read_chunk_pod(c, n) ==
    LET h == chunk_header(c)
    IN  IF h.ok /\ h.val.len >= header_len + n THEN read_raw(h, n) ELSE Err(h)

\* Mutant: looks at the marker and does not step over it.
consume_substruct_marker_Peek(c) == IF chunk_header(c).ok THEN Moved(c, c.pos, NoSlice) ELSE Err(c)

consume_substruct_marker(c) == chunk_header(c)

\* read_opt_cstring and read_opt_bytes: a chunk follows unless the field is 0.
read_opt(c, ptr_field) == IF ptr_field = 0 THEN Moved(c, c.pos, NoSlice) ELSE leaf(c)

=============================================================================
