----------------------------- MODULE MediaPipe -----------------------------
(***************************************************************************)
(* What the connection thread and the push thread promise each other about *)
(* one stream: an FLV file handed over piecewise.  The writer puts the     *)
(* header, the metadata and then numbered tags; the reader gets exactly    *)
(* that file, in order, and is told that it ended only after the writer    *)
(* closed it and everything was read, or because it gave up.  LiveReceiver *)
(* is shown to implement this module.                                      *)
(***************************************************************************)
EXTENDS Integers, Sequences

CONSTANT Stream      \* the ids of the streams metadata may belong to

VARIABLES written,   \* the units put so far
          read,      \* the units the reader was given so far
          closed,    \* the writer will put nothing more
          ended      \* what the reader was told: "no", "eof" or "error"

vars == <<written, read, closed, ended>>

Unit(kind, n) == [kind |-> kind, n |-> n]
Preamble(meta) == <<Unit("flvHeader", 0), Unit("metaData", meta)>>

Init == written = <<>> /\ read = <<>> /\ closed = FALSE /\ ended = "no"

\* The file starts with its header and the metadata of its stream.
PutPreamble(meta) ==
    /\ ~closed
    /\ written = <<>>
    /\ written' = Preamble(meta)
    /\ UNCHANGED <<read, closed, ended>>

\* Tags follow in the order the client sent them, each once.
PutTag ==
    /\ ~closed
    /\ Len(written) >= 2
    /\ written' = Append(written, Unit("tag", Len(written) - 1))
    /\ UNCHANGED <<read, closed, ended>>

Get(k) ==
    /\ ended = "no"
    /\ Len(read) + k <= Len(written)
    /\ read' = SubSeq(written, 1, Len(read) + k)
    /\ UNCHANGED <<written, closed, ended>>

Close ==
    /\ closed' = TRUE
    /\ UNCHANGED <<written, read, ended>>

End ==
    /\ ended = "no"
    /\ closed
    /\ read = written
    /\ ended' = "eof"
    /\ UNCHANGED <<written, read, closed>>

\* The reader waited too long for data.
GiveUp ==
    /\ ended = "no"
    /\ read = written
    /\ ended' = "error"
    /\ UNCHANGED <<written, read, closed>>

Next ==
    \/ \E meta \in Stream : PutPreamble(meta)
    \/ PutTag
    \/ \E k \in 1..Len(written) : Get(k)
    \/ Close \/ End \/ GiveUp

Spec == Init /\ [][Next]_vars
=============================================================================
