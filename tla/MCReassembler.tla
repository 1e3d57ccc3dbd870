--------------------------- MODULE MCReassembler ---------------------------
(* Eight distinct bytes and a stream that holds five. *)
EXTENDS ReassemblerSpec, ReassemblerLoops

MCByte == 1 .. 8
MCSource == [i \in 1 .. 8 |-> i]

\* Every loop, on every object that insert can leave and for every substring
\* that can arrive then, does what its definition in Reassembler says:
\* _write_to_stream and _delete_overlapping on what _insert_to_buffer hands
\* them, and the walk over the blocks the substring begins in.
LoopsAgree ==
  \A end \in 0 .. Len(Source) : \A first \in 0 .. end :
    LET pushed == stream.bytes_pushed_
        room   == Writer_available_capacity(stream)
        begin  == Most(pushed, first)
        stop   == ClampedEnd(r.m_buf, pushed + room, end)
        start  == ClampedBegin(r.m_buf, first, begin)
        added  == [r EXCEPT !.m_buf = [k \in DOMAIN @ \cup {start} |->
                                         IF k = start THEN Slice(Source, start, stop)
                                         ELSE @[k]]]
        stored == insert_to_buffer(r, pushed, room, first, Slice(Source, first, end))
    IN  /\ start = SkipFrom(r.m_buf, first, begin)
        /\ write_to_stream(stored, stream) = WriteLoop(stored, stream)
        /\ start < stop => delete_overlapping(added, start) = DeleteLoop(added, start)
=============================================================================
