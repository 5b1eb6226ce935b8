---------------------------- MODULE MCClipboard -----------------------------
(* Instances of Clipboard for TLC. *)
EXTENDS Clipboard, TLC

CONSTANTS blank, word, line, pic, twin

\* A line is the word with a line end; the watcher does not tell the images apart.
MCTrim == [z \in Contents |-> IF z = line THEN word ELSE z]
MCKey == [z \in Contents |-> IF z \in Images THEN pic ELSE z]

\* The watcher's passes differ by name only.
TickerSymmetry == Permutations(Tickers)
=============================================================================
