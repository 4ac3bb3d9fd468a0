------------------------------ MODULE TextCut ------------------------------
(***************************************************************************)
(* truncateText of internal/localpager/context.go: how a text that is      *)
(* longer than its limit is cut.  A text is its length in bytes; lengths,  *)
(* limits and the wording's lengths are the real ones.                     *)
(***************************************************************************)
EXTENDS Integers

HeadSize(max) == (max * 7) \div 10

\* 120 bytes are kept free for the marker, where there are as many.
TailSize(max) == IF max - HeadSize(max) < 120 THEN 0 ELSE max - HeadSize(max) - 120

Fits(length, max) == max <= 0 \/ length <= max

Omitted(length, max) == length - HeadSize(max) - TailSize(max)

\* The number of decimal digits of a number below 10^9.
Digits(n) == IF n < 10 THEN 1 ELSE IF n < 100 THEN 2 ELSE IF n < 1000 THEN 3 ELSE
             IF n < 10000 THEN 4 ELSE IF n < 100000 THEN 5 ELSE IF n < 1000000 THEN 6 ELSE
             IF n < 10000000 THEN 7 ELSE IF n < 100000000 THEN 8 ELSE 9

\* "\n\n[<label> truncated: <omitted> characters omitted]\n\n"
MarkerLength(label, omitted) == 37 + label + Digits(omitted)

\* The length of what truncateText returns; label is the length of the label.
CutLength(length, max, label) ==
    IF Fits(length, max) THEN length
    ELSE HeadSize(max) + MarkerLength(label, Omitted(length, max)) + TailSize(max)
=============================================================================
