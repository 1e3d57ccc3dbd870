--------------------------- MODULE ReliableStream ---------------------------
(***************************************************************************)
(* What every layer of the stack promises to the program that reads from   *)
(* it, whatever happens in between: the bytes of Source arrive once each,  *)
(* in order, and the end of the stream is reported with the last of them   *)
(* or later, and not before.  ByteStreamSpec, ReassemblerSpec and          *)
(* TCPConnection are shown to implement it.                                *)
(***************************************************************************)
EXTENDS Naturals, Sequences

CONSTANT Source        \* the bytes the writing program has to send

VARIABLES delivered,   \* the bytes the reading program has taken
          eof          \* the reading program has been told the stream ended

rsVars == <<delivered, eof>>

Init ==
  /\ delivered = <<>>
  /\ eof = FALSE

\* More bytes arrive, and the end may be reported with the last of them.
Deliver ==
  \E n \in Len(delivered) + 1 .. Len(Source) :
    /\ delivered' = SubSeq(Source, 1, n)
    /\ eof' \in {eof, n = Len(Source)}

End ==
  /\ delivered = Source
  /\ ~eof
  /\ eof' = TRUE
  /\ UNCHANGED delivered

Next == Deliver \/ End

Safety == Init /\ [][Next]_rsVars

\* Every byte arrives and the end is reported.
Spec == Safety /\ WF_rsVars(Next)
=============================================================================
