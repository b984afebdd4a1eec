---------------------------- MODULE ThreadDetail ----------------------------
(***************************************************************************)
(* Fitting the history of a session into one message                       *)
(* (internal/inventory/service.go, ReadThread and fitThreadDetail): as     *)
(* long as it is too large the oldest turn goes, then the oldest item of   *)
(* the last turn, then the oldest change of the last item, and at last the *)
(* texts of what remains are cut.  A text is its length, and a turn, an    *)
(* item and the session each take one byte themselves.                     *)
(***************************************************************************)
EXTENDS Integers, Sequences, SequencesExt

CONSTANTS
    Histories,         \* sequences of turns, each a sequence of items
    MaxDetailBytes,    \* maxThreadDetailBytes
    CutBytes           \* the 4096 bytes that are left of a text in the end

ASSUME HistoriesAssumption ==
    \A h \in Histories : h \in Seq(Seq([text : Nat, changes : Seq(Nat)]))
ASSUME CutAssumption == CutBytes \in Nat

VARIABLES
    history,           \* the turns as the app-server returned them
    detail             \* the payload as far as it has been fitted

detailVars == <<history, detail>>

\* An item has a text and changes.  The marks are the Truncated of the payload, of the
\* one turn and of the one item that are left, as far as they are set here; those of
\* turns and items that came with a cut text (normalizeTurn) are part of the history.
ItemBytes(item) == FoldLeft(+, 1 + item.text, item.changes)
TurnBytes(items) == FoldLeft(LAMBDA n, item : n + ItemBytes(item), 1, items)
Bytes(turns) == FoldLeft(LAMBDA n, items : n + TurnBytes(items), 1, turns)

TooLarge == Bytes(detail.turns) > MaxDetailBytes
Fitting == detail.pc = "fit" /\ TooLarge

ReadThreadForgets ==               \* mutant: a cut title is not marked
    /\ detail.pc = "read"
    /\ \E clipped \in BOOLEAN :
          detail' = [pc |-> "fit", turns |-> history, marks |-> {}, clipped |-> clipped]
    /\ UNCHANGED history

\* ReadThread: the normalised turns, nothing dropped.  The title or the preview may have
\* been cut.
ReadThread ==
    /\ detail.pc = "read"
    /\ \E clipped \in BOOLEAN :
          detail' = [pc |-> "fit", turns |-> history,
                     marks |-> IF clipped THEN {"thread"} ELSE {}, clipped |-> clipped]
    /\ UNCHANGED history

Keep(turns, mark) ==
    /\ detail' = [detail EXCEPT !.turns = turns, !.marks = @ \cup {"thread", mark}]
    /\ UNCHANGED history

DropNewestTurn ==                  \* mutant: from the wrong end
    /\ Fitting /\ Len(detail.turns) > 1
    /\ Keep(Front(detail.turns), "thread")

DropTurn ==
    /\ Fitting /\ Len(detail.turns) > 1
    /\ Keep(Tail(detail.turns), "thread")

Items == detail.turns[1]
DropItem ==
    /\ Fitting /\ Len(detail.turns) = 1 /\ Len(Items) > 1
    /\ Keep(<<Tail(Items)>>, "turn")

LastItem == Len(detail.turns) = 1 /\ Len(Items) = 1
DropNewestChange ==                \* mutant: from the wrong end
    /\ Fitting /\ LastItem /\ Len(Items[1].changes) > 1
    /\ detail' = [detail EXCEPT !.turns = <<<<[Items[1] EXCEPT !.changes = Front(@)]>>>>,
                                !.marks = @ \cup {"thread", "turn", "item"}]
    /\ UNCHANGED history

DropChange ==
    /\ Fitting /\ LastItem /\ Len(Items[1].changes) > 1
    /\ detail' = [detail EXCEPT !.turns = <<<<[Items[1] EXCEPT !.changes = Tail(@)]>>>>,
                                !.marks = @ \cup {"thread", "turn", "item"}]
    /\ UNCHANGED history

\* truncateUTF8 with its dots; up to three bytes less where a character would be split.
Cut(bytes) == IF bytes > CutBytes THEN CutBytes ELSE bytes

CutItem(item) ==
    [text |-> Cut(item.text),
     changes |-> [k \in DOMAIN item.changes |-> Cut(item.changes[k])]]

CutTexts ==
    /\ Fitting /\ LastItem /\ Len(Items[1].changes) <= 1
    /\ detail' = [detail EXCEPT !.pc = "done", !.turns = <<<<CutItem(Items[1])>>>>,
                                !.marks = {"thread", "turn", "item"}]
    /\ UNCHANGED history

\* There is nothing left to drop.
Empty == \/ detail.turns = << >>
         \/ Len(detail.turns) = 1 /\ Items = << >>

GiveUp ==
    /\ Fitting /\ Empty
    /\ detail' = [detail EXCEPT !.pc = "done", !.marks =
                     @ \cup {"thread"} \cup (IF detail.turns = << >> THEN {} ELSE {"turn"})]
    /\ UNCHANGED history

DetailFits ==
    /\ detail.pc = "fit" /\ ~TooLarge
    /\ detail' = [detail EXCEPT !.pc = "done"]
    /\ UNCHANGED history

DetailInit == history \in Histories /\ detail = [pc |-> "read"]
DetailNext == \/ ReadThread \/ DropTurn \/ DropItem \/ DropChange \/ CutTexts
              \/ GiveUp \/ DetailFits
DetailSpec == DetailInit /\ [][DetailNext]_detailVars

-----------------------------------------------------------------------------
(* Properties *)

TooMuch(turns) == Bytes(turns) > MaxDetailBytes

\* The end of a sequence, from its kth element on.
From(s, k) == SubSeq(s, k, Len(s))

\* The newest turns; the newest items of the newest turn; its newest item with the newest
\* of its changes: with one more of them it would have been too large.
NewestTurns(turns, h) ==
    \/ turns = h
    \/ \E k \in 2..Len(h) : turns = From(h, k) /\ TooMuch(From(h, k - 1))

NewestItems(turns, h) ==
    LET newest == Last(h) IN
    /\ h # << >>
    /\ \E k \in 2..Len(newest) :
          turns = <<From(newest, k)>> /\ TooMuch(<<From(newest, k - 1)>>)

WithChanges(item, k) == <<<<[item EXCEPT !.changes = From(@, k)]>>>>
NewestChanges(turns, h) ==
    LET item == Last(Last(h)) IN
    /\ h # << >> /\ Last(h) # << >>
    /\ \E k \in 2..Len(item.changes) :
          turns = WithChanges(item, k) /\ TooMuch(WithChanges(item, k - 1))

\* Or the newest item with its newest change, their texts cut: whole it was too large.
NewestTexts(turns, h) ==
    LET item == Last(Last(h))
        left == [item EXCEPT !.changes = IF @ = << >> THEN @ ELSE <<Last(@)>>]
    IN /\ h # << >> /\ Last(h) # << >>
       /\ turns = <<<<CutItem(left)>>>> /\ TooMuch(<<<<left>>>>)

\* What is returned is the newest of the history, and no more is dropped than the limit
\* demands: turns before items, items before changes, and texts are cut only where that
\* is not enough.  It may exceed the limit then, or when it holds no item at all.  The
\* turn and the item that lost something are marked, and the whole is if anything is
\* missing in it, or it is too large, or its title or preview was cut.
DetailKeepsNewest ==
    LET turns == detail.turns
        within == detail.marks \ {"thread"}
    IN detail.pc = "done" =>
        /\ "thread" \in detail.marks <=> detail.clipped \/ turns # history \/ TooLarge
        /\ \/ within = {} /\ NewestTurns(turns, history) /\ (TooLarge => turns = << >>)
           \/ within = {"turn"} /\ NewestItems(turns, history) /\ ~TooLarge
           \/ within = {"turn"} /\ NewestTurns(turns, history) /\ turns = <<<< >>>> /\ TooLarge
           \/ within = {"turn", "item"} /\ NewestChanges(turns, history) /\ ~TooLarge
           \/ within = {"turn", "item"} /\ NewestTexts(turns, history)
=============================================================================
