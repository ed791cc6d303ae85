----------------------------- MODULE DecodeWalk -----------------------------
(***************************************************************************)
(* Each decoder of src/wire/decode.rs on any payload, whoever wrote it,    *)
(* one read at a time.                                                     *)
(***************************************************************************)
EXTENDS Decode

CONSTANT Inputs  \* payloads: [w, n], n bytes in the words w

ASSUME InputAssumption ==
    \A b \in Inputs :
        /\ b.w \in Seq(0..USIZE_MAX)
        /\ Len(b.w) * PTR_SIZE + 2 * PTR_SIZE <= USIZE_MAX
        /\ b.n \in 0..(Len(b.w) * PTR_SIZE)

VARIABLE walk  \* the decoder, in the middle of its work

\* The structure that a decoder starts with, and what it reads behind it.
Decoders ==
    [RawInterfaceList |-> InterfaceListReads,
     RawHardware |-> HardwareReads,
     RawHardwareWithFlagsPrevious |-> HardwareReads,
     RawNeighborChange |-> NeighborChangeReads]

DecodeInit ==
    \E b \in Inputs, T \in DOMAIN Decoders : walk = Pod(Start(b), T, Decoders[T])

DecodeNext ==
    /\ walk.c.ok /\ walk.todo # <<>>
    /\ walk' = Step(walk, Head(walk.todo))

DecodeSpec == DecodeInit /\ [][DecodeNext]_walk

-----------------------------------------------------------------------------
\* decode_hardware and its likes look only at bytes of the payload: the cursor
\* is inside it, and every structure that still has a field to be looked at,
\* the port inside of a RawHardware included, lies before the cursor.
FieldsInBounds ==
    walk.c.ok =>
        /\ walk.c.pos <= walk.c.len
        /\ \A k \in DOMAIN walk.todo :
              LET raw == walk.todo[k].raw
              IN  raw.at + SizeOf[raw.ty] <= walk.c.pos

\* No chunk brings more reads with it: an element of h_rports, the most.
MaxReads == 17

Work(w) == IF w.c.ok THEN MaxReads * (w.c.len - w.c.pos) + Len(w.todo) + 1 ELSE 0

\* Every decoder ends, and soon, on every payload: each read leaves less to be
\* done.  A null pointer ends a list, any other costs the bytes of the element
\* it leads to, so decode_neighbor_chain and its likes recurse no deeper than
\* the payload is long, however the links in it were made up.
WorkShrinks == [][Work(walk') < Work(walk)]_walk

=============================================================================
