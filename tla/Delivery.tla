------------------------------- MODULE Delivery -------------------------------
(***************************************************************************)
(* What the retrieval of a frame promises, without how: it waits while the    *)
(* device writes files, and ends with a raw frame of the exposure or none.    *)
(***************************************************************************)
EXTENDS Integers

CONSTANTS
    Start,      \* when the exposure began
    Tolerance,  \* how much earlier the device's clock may say it began
    Waiting,    \* the result until there is one
    None

VARIABLES
    files,      \* the files on the device
    honest,     \* the server tells when a file was written
    baseline,   \* the last file that was retrieved, and the time it had
    result      \* a file, or None

vars == <<files, honest, baseline, result>>

\* A server that is not honest leaves only the time in the file's path.
Dated(f) == f.named \/ f.dir # 0

\* The frame is a single exposure and of this one, as far as the clocks and the
\* server let anybody say.
Deliverable(f) ==
    /\ f.raw
    /\ honest \/ Dated(f) => f.at >= Start - Tolerance
    /\ honest /\ baseline # None => f # baseline.file

Init == result = Waiting

Writes == files \subseteq files' /\ UNCHANGED <<honest, baseline, result>>

Ends ==
    /\ result = Waiting
    /\ \/ \E f \in files : Deliverable(f) /\ result' = f
       \/ result' = None
    /\ UNCHANGED <<files, honest, baseline>>

Next == Writes \/ Ends

Spec == Init /\ [][Next]_vars
=============================================================================
