---------------------------- MODULE ReplayWindow ----------------------------
(***************************************************************************)
(* The sliding-window replay filter of internal/crypto/replay.go, as       *)
(* operators on a record [bitmap, floor].                                  *)
(*                                                                         *)
(* The code keeps Words words of WordBits bits (32 of 64) and addresses    *)
(* counter c by position c % WindowSize.  bitmap is the set of positions   *)
(* whose bit is set: position p is bit p % WordBits of word p \div         *)
(* WordBits.  The mutex makes each operator one atomic step of its caller. *)
(***************************************************************************)
EXTENDS Integers

CONSTANTS
    WordBits,   \* bits in a word of the bitmap (64 in the code)
    Words       \* words in the bitmap (windowWords, 32 in the code)

ASSUME WindowAssumption ==
    /\ WordBits \in Nat \ {0}
    /\ Words \in Nat \ {0}

WindowSize == WordBits * Words

Positions == 0 .. WindowSize - 1

Window == [bitmap : SUBSET Positions, floor : Nat]

\* Reset, and the zero value of the type.
EmptyWindow == [bitmap |-> {}, floor |-> 0]

\* MUTANT of Check: a counter inside the window is not looked up.
CheckFloorOnly(w, counter) == counter >= w.floor

\* Acceptable: not behind the floor, and either ahead of the window or unseen.
Check(w, counter) ==
    /\ counter >= w.floor
    /\ \/ counter - w.floor >= WindowSize
       \/ counter % WindowSize \notin w.bitmap

\* The copy(bitmap, bitmap[k:]) of slideBy: every word moves k words down and
\* the first k words are lost.
WordShift(bitmap, k) ==
    {p - k * WordBits : p \in {q \in bitmap : q >= k * WordBits}}

\* The carry loop of slideBy, which walks from the last word to the first: a
\* bit moves b places up inside its word, and one that leaves its word lands
\* at the bottom of the word BELOW (and is lost from word 0).
BitShift(bitmap, b) ==
    LET moved(p) == IF (p % WordBits) + b < WordBits
                    THEN p + b
                    ELSE p + b - 2 * WordBits
    IN  {moved(p) : p \in bitmap} \cap Positions

SlideBy(w, n) ==
    [bitmap |-> IF n >= WindowSize
                THEN {}
                ELSE BitShift(WordShift(w.bitmap, n \div WordBits), n % WordBits),
     floor  |-> w.floor + n]

\* How far Advance slides so that counter becomes the last one of the window.
SlideDistance(w, counter) == counter - w.floor - WindowSize + 1

\* Advance: slide when the counter is ahead of the window, then mark it.
Advance(w, counter) ==
    LET slid == IF counter - w.floor >= WindowSize
                THEN SlideBy(w, SlideDistance(w, counter))
                ELSE w
    IN  IF counter < w.floor
        THEN w
        ELSE [slid EXCEPT !.bitmap = @ \cup {counter % WindowSize}]
=============================================================================
