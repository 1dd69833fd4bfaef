---------------------------- MODULE MCUrlsFile ----------------------------
(* Small instances of UrlsFile. *)
EXTENDS UrlsFile

CONSTANTS a, b, c

\* A missing file, an empty one, one of whole lines, and one whose last line
\* has no newline.
OperatorFiles ==
    {[exists |-> FALSE, lines |-> <<>>, newline |-> TRUE], Whole(<<>>),
     Whole(<< <<a>>, <<Comment>>, <<b>> >>),
     [exists |-> TRUE, lines |-> << <<a>> >>, newline |-> FALSE]}

TwoURLs == {Whole(<< <<a>>, <<b>> >>)}
=============================================================================
