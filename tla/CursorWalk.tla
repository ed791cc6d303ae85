----------------------------- MODULE CursorWalk -----------------------------
(***************************************************************************)
(* Any decoder on any payload: a walk of cursor operations in any order,   *)
(* over a buffer of any words, until one of them fails.  What holds here   *)
(* holds of every function of src/wire/decode.rs, well-formed message or   *)
(* not.                                                                    *)
(***************************************************************************)
EXTENDS Cursor

CONSTANTS
    Words,     \* what a word of the payload may be
    PodSizes,  \* sizes of the structures a decoder reads
    MaxWords   \* bound: words in a payload

ASSUME WalkAssumption ==
    /\ Words \subseteq 0..USIZE_MAX
    /\ PodSizes \subseteq Nat /\ \A n \in PodSizes : header_len + n <= USIZE_MAX
    /\ MaxWords \in Nat /\ MaxWords * PTR_SIZE + 2 * PTR_SIZE <= USIZE_MAX

VARIABLES
    cur,     \* the cursor
    chunks,  \* chunk headers read so far
    slice    \* the bytes the last operation looked at: [at, len]

walkVars == <<cur, chunks, slice>>

\* Every payload of up to MaxWords words, its last word possibly cut short.
Payloads == UNION {[1..k -> Words] : k \in 0..MaxWords}

WalkInit ==
    /\ \E buf \in Payloads : \E len \in 0..(Len(buf) * PTR_SIZE) :
          /\ len + PTR_SIZE > Len(buf) * PTR_SIZE
          /\ cur = Cursor(buf, len)
    /\ chunks = 0 /\ slice = NoSlice

\* The header that chunk_header looked at ends where it left the cursor.
ReadChunk(after, content) ==
    /\ cur.ok
    /\ cur' = after
    /\ chunks' = IF after.ok THEN chunks + 1 ELSE chunks
    /\ slice' = IF after.ok THEN content ELSE NoSlice

Marker ==
    LET c == consume_substruct_marker(cur)
    IN  ReadChunk(c, [at |-> align_up(cur.pos, PTR_SIZE), len |-> header_len])

Leaf == ReadChunk(leaf(cur), leaf(cur).val)

Pod(n) == ReadChunk(read_chunk_pod(cur, n), read_chunk_pod(cur, n).val)

WalkNext == Marker \/ Leaf \/ \E n \in PodSizes : Pod(n)

WalkSpec == WalkInit /\ [][WalkNext]_walkVars

-----------------------------------------------------------------------------
\* Payloads of whole words; the cursor inside them; slices of natural length.
WalkTypeOK ==
    /\ cur.buf \in Payloads
    /\ cur.len \in Nat /\ cur.len <= Len(cur.buf) * PTR_SIZE
    /\ cur.pos \in Nat /\ cur.ok \in BOOLEAN
    /\ chunks \in Nat
    /\ slice.at \in Nat /\ slice.len \in Nat

\* Cursor::need: no slice that an operation takes, header or content, leaves
\* the buffer (an out-of-bounds index would panic), whatever sizes the
\* message declares, up to usize::MAX.
InBounds ==
    /\ cur.ok => cur.pos <= cur.len
    /\ slice.at + slice.len <= cur.len

\* Every chunk costs the bytes of its header: the recursion of the list
\* decoders (decode_interface_chain and its likes) is bounded by the payload.
DepthBounded == chunks * header_len <= cur.len

=============================================================================
