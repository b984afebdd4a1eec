---------------------------- MODULE SourceReader ----------------------------
(***************************************************************************)
(* Reading the lines of a source file around a line in focus               *)
(* (internal/source/reader.go, Read and sourceWindow).  The project and    *)
(* the path have been resolved (Workspace).  The file may change, or go,   *)
(* between the two looks at it: the size is that of the first, the lines   *)
(* are those of the second.  A line is its length; lines are joined by one *)
(* byte.                                                                   *)
(***************************************************************************)
EXTENDS Integers, Sequences, SequencesExt

CONSTANTS
    Files,             \* what the file may be: sequences of lengths of lines
    Missing,           \* nothing, or something that is no regular file
    FocusLines, ContextLines,   \* numbers that a request may name
    MaxSourceBytes,    \* maxSourceBytes
    MaxResponseBytes,  \* maxResponseBytes
    DefaultContext, MaxContext  \* defaultContext and maxContext

ASSUME MissingAssumption == Missing \notin Files
ASSUME FilesAssumption == \A f \in Files : f \in Seq(Nat) /\ f # << >>
ASSUME NumbersAssumption == /\ FocusLines \subseteq Int /\ ContextLines \subseteq Int
                            /\ DefaultContext \in Nat /\ MaxContext \in Nat

VARIABLES file, read

sourceVars == <<file, read>>

Size(lines, start, end) ==
    FoldLeft(+, end - start, SubSeq(lines, start, end))

Fits(lines, start, end) == Size(lines, start, end) <= MaxResponseBytes

Refuse(code) == read' = [pc |-> "refused", code |-> code]

\* Another program writes or removes the file.  Later changes go unseen.
Edit ==
    /\ read.pc \in {"stat", "open"}
    /\ file' \in Files \cup {Missing}
    /\ UNCHANGED read

Stat ==
    /\ read.pc = "stat"
    /\ \/ file = Missing /\ (Refuse("SOURCE_NOT_FOUND") \/ Refuse("SOURCE_INVALID"))
       \/ /\ file # Missing
          /\ IF Size(file, 1, Len(file)) > MaxSourceBytes
               THEN Refuse("SOURCE_TOO_LARGE")
               ELSE read' = [read EXCEPT !.pc = "open"]
    /\ UNCHANGED file

Lower(a, b) == IF a < b THEN a ELSE b
Higher(a, b) == IF a > b THEN a ELSE b

\* sourceWindow: the whole file if it fits.
Window(lines, focus, context) ==
    IF Fits(lines, 1, Len(lines))
      THEN [start |-> 1, end |-> Len(lines)]
      ELSE [start |-> Higher(1, focus - context),
            end |-> Lower(Len(lines), focus + context)]

\* os.ReadFile, which fails or finds what is no text; then the clamps on what was
\* asked for.
ReadFile ==
    /\ read.pc = "open"
    /\ \/ file = Missing /\ Refuse("SOURCE_READ_FAILED")
       \/ file # Missing /\ Refuse("SOURCE_BINARY")
       \/ LET focus == Lower(Len(file), Higher(1, read.focus))
                context == IF read.context < 1 THEN DefaultContext
                           ELSE Lower(read.context, MaxContext)
            IN /\ file # Missing
               /\ read' = [pc |-> "shrink", lines |-> file, focus |-> focus,
                           window |-> Window(file, focus, context),
                           first |-> Window(file, focus, context)]
    /\ UNCHANGED file

ContentFits == Fits(read.lines, read.window.start, read.window.end)
Shrinks == ~ContentFits /\ read.window.end > read.window.start

DropNear(start, end, focus) ==     \* mutant: the wrong side
    focus - start < end - focus

\* The side that reaches further from the focus gives a line away.
DropFirst(start, end, focus) == focus - start > end - focus

Shrink ==
    /\ read.pc = "shrink" /\ Shrinks
    /\ read' = IF DropFirst(read.window.start, read.window.end, read.focus)
                 THEN [read EXCEPT !.window.start = @ + 1]
                 ELSE [read EXCEPT !.window.end = @ - 1]
    /\ UNCHANGED file

Reply ==
    /\ read.pc = "shrink" /\ ~Shrinks
    /\ read' = [read EXCEPT !.pc =
                   IF ContentFits THEN "answered" ELSE "line_too_large"]
    /\ UNCHANGED file

SourceInit ==
    /\ file \in Files \cup {Missing}
    /\ read \in [pc : {"stat"}, focus : FocusLines, context : ContextLines]

SourceNext == Edit \/ Stat \/ ReadFile \/ Shrink \/ Reply

SourceSpec == SourceInit /\ [][SourceNext]_sourceVars

-----------------------------------------------------------------------------
\* A window that reaches equally far to both sides of the line in focus, or one line
\* further up, but for a side that reaches as far as the first window did.
Centred(focus, first, start, end) ==
    /\ start > first.start => focus - start >= end - focus
    /\ end < first.end => focus - start <= end - focus + 1

\* The answer fits and holds the line in focus.  It is the whole file if that fits, and
\* otherwise the widest centred window within the lines asked for that does.  It is
\* refused for its size only if the line in focus alone is too large.
WindowHoldsFocus ==
    LET lines == read.lines
        focus == read.focus
        start == read.window.start
        end == read.window.end
        first == read.first
    IN /\ read.pc \in {"answered", "line_too_large"} =>
             start \in 1..focus /\ end \in focus..Len(lines)
       /\ read.pc = "answered" =>
             /\ ContentFits /\ Centred(focus, first, start, end)
             /\ <<start, end>> = <<1, Len(lines)>> \/ ~Fits(lines, 1, Len(lines))
             /\ \A s \in first.start..focus, e \in focus..first.end :
                   Centred(focus, first, s, e) /\ Fits(lines, s, e) => e - s <= end - start
       /\ read.pc = "line_too_large" =>
             start = end /\ ~Fits(lines, focus, focus)
=============================================================================
