------------------------------ MODULE TextFile ------------------------------
(***************************************************************************)
(* A file that is written line by line and read line by line, as its       *)
(* readers see it after a writer died in the middle of one.  A line is a   *)
(* record with what a reader makes of it (kind) and whether a newline ends *)
(* it (nl).                                                                *)
(***************************************************************************)
EXTENDS Sequences

\* What no reader understands.
Junk(nl) == [kind |-> "junk", nl |-> nl]

\* A line written after one that no newline ends becomes part of it.
AddLine(file, line) ==
    IF file # <<>> /\ ~file[Len(file)].nl
    THEN [file EXCEPT ![Len(file)] = Junk(line.nl)]
    ELSE Append(file, line)

\* What a crash in the middle of a line leaves of it: nothing, a part, or all
\* of it but the newline.
Torn(file, line) == {file, AddLine(file, Junk(FALSE)), AddLine(file, [line EXCEPT !.nl = FALSE])}
=============================================================================
