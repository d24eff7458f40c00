----------------------------- MODULE ByteStream -----------------------------
(***************************************************************************)
(* What a Queue of kernel/files/qio.c promises, whatever its blocks, its   *)
(* flow control and its sleeping readers and writers: bytes come out in    *)
(* the order in which they went in, each one once, and none is missing     *)
(* unless the Queue was closed or flushed, or a message was longer than    *)
(* the read.  End of file is seen only when everything has been read.      *)
(***************************************************************************)
EXTENDS Naturals, Sequences, SequencesExt

CONSTANTS Eof, Hungup   \* what a read returns when there is no more data

VARIABLES stream,       \* the bytes written and not yet read
          closed,
          got,          \* what the last read returned
          framed,       \* do reads keep to message boundaries?
          flushable     \* is there somebody who calls qflush?

vars == <<stream, closed, got, framed, flushable>>
kept == <<framed, flushable>>

Init ==
    /\ stream = <<>>
    /\ closed = FALSE
    /\ got = <<>>
    /\ framed \in BOOLEAN
    /\ flushable \in BOOLEAN

Write ==
    /\ IsPrefix(stream, stream')
    /\ UNCHANGED <<closed, got, kept>>

(* A read takes the first bytes, and in a message stream the rest of the   *)
(* message may be thrown away.                                             *)
Read ==
    /\ IsPrefix(got', stream)
    /\ IsSuffix(stream', stream)
    /\ IF framed THEN Len(stream') <= Len(stream) - Len(got')
                 ELSE Len(stream') = Len(stream) - Len(got')
    /\ UNCHANGED <<closed, kept>>

ReadEnd ==
    /\ closed
    /\ stream = <<>>
    /\ got' \in {Eof, Hungup}
    /\ UNCHANGED <<stream, closed, kept>>

(* Closing may lose bytes that nobody has read, from the end only;         *)
(* flushing likewise.                                                      *)
Close ==
    /\ closed' = TRUE
    /\ IsPrefix(stream', stream)
    /\ UNCHANGED <<got, kept>>

Flush ==
    /\ flushable \/ closed
    /\ IsPrefix(stream', stream)
    /\ UNCHANGED <<closed, got, kept>>

Reopen ==
    /\ closed' = FALSE
    /\ UNCHANGED <<stream, got, kept>>

Next == Write \/ ReadEnd \/ Close \/ Flush \/ Reopen \/ (got' \notin {Eof, Hungup} /\ Read)

Spec == Init /\ [][Next]_vars
=============================================================================
