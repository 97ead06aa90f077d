------------------------- MODULE FencedOutputStream -------------------------
(***************************************************************************)
(* What the chain promises the user of one logical request, with none of   *)
(* its machinery: a gap-free output stream written by at most one writer   *)
(* at a time, and at most one terminal, after which nothing is written.    *)
(*                                                                         *)
(* Authority to write is a fence number.  Taking it away from a writer and *)
(* raising the fence are one step, so a writer that lost its authority can *)
(* not write again, and no writer ever shares its fence with another one.  *)
(***************************************************************************)
EXTENDS Naturals, Sequences

CONSTANT Reasons    \* the user-visible terminals

VARIABLES
    stream,     \* the frames the user received, in order
    fence,      \* the current fence number
    writer,     \* the writer holding the fence, 0 when there is none
    granted,    \* how many writers have been granted so far
    closed      \* the terminals shown: empty, then exactly one

streamVars == <<stream, fence, writer, granted, closed>>

Init ==
    /\ stream = <<>>
    /\ fence = 0
    /\ writer = 0
    /\ granted = 0
    /\ closed = <<>>

\* A new writer takes the fence, which nobody holds.
Grant ==
    /\ writer = 0
    /\ granted' = granted + 1
    /\ writer' = granted'
    /\ UNCHANGED <<stream, fence, closed>>

\* The writer appends the one frame that extends the stream.
Write ==
    /\ closed = <<>>
    /\ writer # 0
    /\ stream' = Append(stream, [epoch |-> fence, seq |-> Len(stream)])
    /\ UNCHANGED <<fence, writer, granted, closed>>

\* The fence moves and whoever held it is out.
Revoke ==
    /\ fence' = fence + 1
    /\ writer' = 0
    /\ UNCHANGED <<stream, granted, closed>>

Close(reason) ==
    /\ closed = <<>>
    /\ closed' = <<reason>>
    /\ UNCHANGED <<stream, fence, writer, granted>>

Next == Grant \/ Write \/ Revoke \/ \E r \in Reasons : Close(r)

Spec == Init /\ [][Next]_streamVars
=============================================================================
