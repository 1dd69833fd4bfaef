---------------------------- MODULE Subscription ----------------------------
(***************************************************************************)
(* From the body of a subscription to the links a cycle merges:            *)
(* FetchAndParse walks over its URLs, fetcher.Fetch gets one body or an    *)
(* error, parser.Parse decodes the body and reads it line by line.         *)
(*                                                                         *)
(* A body is its encoding and the lines that were encoded.  A line is a    *)
(* link, a comment (or blank), something ParseSingle rejects, or longer    *)
(* than the 64 KB a bufio.Scanner takes.                                   *)
(***************************************************************************)
EXTENDS Sifting, Functions, Integers

CONSTANTS
    Link,        \* links ParseSingle accepts; equal links have equal hashes
    MaxLines,    \* bound: lines of a body
    MaxURLs      \* bound: URLs of one call

VARIABLES
    unfetched,   \* how many URLs of the call are still to be fetched
    found,       \* the links found so far
    bodies       \* history: the bodies that arrived

subsVars == <<unfetched, found, bodies>>

Comment == "comment"
Bad     == "bad"
TooLong == "too long"
LineOf  == Link \cup {Comment, Bad, TooLong}

SubsAssumption ==
    /\ {Comment, Bad, TooLong} \cap Link = {}
    /\ MaxLines \in Nat /\ MaxURLs \in Nat

\* As it is, or base64: with the standard alphabet and padding, the same where
\* the padding is missing, with letters of the URL-safe alphabet.
Encodings == {"plain", "padded", "unpadded", "urlsafe"}

Body == [enc : Encodings, lines : UNION {[1..n -> LineOf] : n \in 0..MaxLines}]

-----------------------------------------------------------------------------
\* IsBase64Encoded and the strict StdEncoding of Parse: what they do not
\* decode is read as it stands, a line that no parser takes.
Decoded(b) ==
    CASE b.enc \in {"plain", "padded"} -> b.lines
      [] b.lines = <<>>                -> <<>>
      [] OTHER                         -> <<Bad>>

\* The lines before the first one that is in S.
Before(lines, S) ==
    LET ends == {i \in DOMAIN lines : lines[i] \in S}
    IN IF ends = {} THEN lines
       ELSE SubSeq(lines, 1, (CHOOSE i \in ends : \A j \in ends : i <= j) - 1)

\* Mutant: the first line that does not parse ends the loop.
StopsAtBad(lines) == Before(lines, {TooLong, Bad})

\* The scanner ends before a line it cannot hold.
Scanned(lines) == Before(lines, {TooLong})

\* Parse: the configs and whether there is an error.  Lines that fail are an
\* error only if nothing else is left.
Parse(b) ==
    LET lines   == Decoded(b)
        configs == Sift(Scanned(lines), Link)
    IN [configs |-> Range(configs),
        failed  |-> \/ lines = <<>>
                    \/ TooLong \in Range(lines)
                    \/ configs = <<>> /\ Bad \in Range(lines)]

\* handleSub serves working.txt, one link a line, in base64.
Sub(links) == [enc |-> "padded", lines |-> links]

-----------------------------------------------------------------------------
SubsInit == unfetched = -1 /\ found = {} /\ bodies = {}

Call ==
    /\ unfetched = -1
    /\ unfetched' \in 0..MaxURLs
    /\ UNCHANGED <<found, bodies>>

\* Fetch fails, answers other than 200, or runs into its timeout.
FetchFails ==
    /\ unfetched > 0
    /\ unfetched' = unfetched - 1
    /\ UNCHANGED <<found, bodies>>

Merges(b) ==
    /\ unfetched > 0
    /\ unfetched' = unfetched - 1
    /\ bodies' = bodies \cup {b}
    /\ found' = found \cup IF Parse(b).failed THEN {} ELSE Parse(b).configs

FetchBody == \E b \in Body : Merges(b)

\* The subscription is another instance's /sub.
FetchOwn == \E n \in 0..MaxLines : \E links \in [1..n -> Link] : Merges(Sub(links))

SubsNext == Call \/ FetchFails \/ FetchBody \/ FetchOwn

SubsSpec == SubsInit /\ [][SubsNext]_subsVars

-----------------------------------------------------------------------------
LinksOf(b) == Range(b.lines) \cap Link

\* Neither a line that does not parse, nor a subscription that cannot be
\* fetched or decoded, costs a link of another line or another subscription,
\* and no link comes from nowhere: a call finds all links of the bodies in
\* plain text or padded base64 without an oversized line.
GoodLinesSurvive ==
    /\ \A b \in bodies :
          b.enc \in {"plain", "padded"} /\ TooLong \notin Range(b.lines)
             => LinksOf(b) \subseteq found
    /\ found \subseteq UNION {LinksOf(b) : b \in bodies}

\* "base64 in the alphabets real subscriptions use: standard and URL-safe,
\* each with or without padding": no encoding costs a link.
EveryEncodingIsRead ==
    \A b \in bodies : TooLong \notin Range(b.lines) => LinksOf(b) \subseteq found
=============================================================================
