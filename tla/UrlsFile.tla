----------------------------- MODULE UrlsFile -----------------------------
(***************************************************************************)
(* The urls file: edited by the handlers of /api/urls, each on a goroutine *)
(* of its own, and read by LoadURLs from the handlers and from every       *)
(* cycle.  There is no lock: what one request does is interleaved with the *)
(* others between any two system calls.                                    *)
(*                                                                         *)
(* A line is a sequence of tokens.  A line of one token is a subscription  *)
(* URL or a comment; a longer one came about when text was appended to a   *)
(* line that had no newline.  All URLs have the same length, so a write    *)
(* over longer contents leaves whole lines of the old contents behind.     *)
(***************************************************************************)
EXTENDS Sifting, Functions, Integers

CONSTANTS
    Url,          \* valid subscription URLs
    Invalid,      \* a body entry that validSubscriptionURL rejects
    Comment,      \* a line of the file that starts with "#", or is blank
    Ops,          \* the requests clients send
    Request,      \* bound: requests in flight at the same time
    MaxRequests,  \* bound: requests in a behaviour
    MaxBatch,     \* bound: entries in the body of a PUT
    MaxCrashes,   \* bound: how often the process dies
    InitialFile   \* what the operator's file may be

\* A line, and a file.
Line     == Seq(Url \cup {Comment})
Contents == [exists: BOOLEAN, lines: Seq(Line), newline: BOOLEAN]

ASSUME UrlsAssumption ==
    /\ Invalid \notin Url \cup {Comment} /\ Comment \notin Url
    /\ Ops \subseteq {"list", "add", "replace", "delete"}
    /\ MaxRequests \in Nat /\ MaxBatch \in Nat /\ MaxCrashes \in Nat
    /\ InitialFile \subseteq Contents

VARIABLES
    file,       \* the urls file
    req,        \* the requests in flight
    requests, crashes,
    \* history
    acked,      \* URLs a POST was answered 201 for and no DELETE removed
    committed,  \* the lists that whole requests have left
    torn,       \* LoadURLs returned a list that no request has left
    before,     \* the list before the write that is in progress
    unfinished, \* the last line is the operator's and has no newline
    atRisk,     \* URLs that may get lost, see AddedIsKept
    overlapped  \* a request wrote the file under a rewrite's feet

seen == <<committed, torn>>
risks == <<unfinished, atRisk, overlapped>>
vars == <<file, req, requests, crashes, acked, seen, before, risks>>

\* A file of whole lines.
Whole(lines) == [exists |-> TRUE, lines |-> lines, newline |-> TRUE]
Lines(urls)  == [i \in DOMAIN urls |-> <<urls[i]>>]

-----------------------------------------------------------------------------
(***************************************************************************)
(* The file operations.                                                    *)
(***************************************************************************)
\* LoadURLs: the lines that are neither blank nor comments.
Entry == {l \in Line : l # <<>> /\ l[1] # Comment}

LoadURLs(f) == Sift(f.lines, Entry)

\* Mutant: the newline after the URL is forgotten.
AppendsBareURL(f, u) ==
    [exists  |-> TRUE,
     lines   |-> IF f.newline \/ f.lines = <<>>
                   THEN Append(f.lines, <<u>>)
                   ELSE [f.lines EXCEPT ![Len(f.lines)] = Append(@, u)],
     newline |-> FALSE]

\* addURL appends "url\n" at the end of the file, wherever that is.
AppendURL(f, u) ==
    [exists  |-> TRUE,
     lines   |-> IF f.newline \/ f.lines = <<>>
                   THEN Append(f.lines, <<u>>)
                   ELSE [f.lines EXCEPT ![Len(f.lines)] = Append(@, u)],
     newline |-> TRUE]

\* os.WriteFile opens with O_TRUNC ...
Truncate(f) == Whole(<<>>)

\* ... and writes at offset 0: what others wrote since then and lies further
\* back stays.
WriteOver(f, lines) ==
    IF Len(f.lines) <= Len(lines)
      THEN Whole(lines)
      ELSE [f EXCEPT !.lines = lines \o SubSeq(@, Len(lines) + 1, Len(@))]

\* Mutant: ids taken for zero-based.
RemovesNext(s, id) == SubSeq(s, 1, id) \o SubSeq(s, id + 2, Len(s))

\* handleURLsByID: the list without its id-th entry, counted from 1.
WithoutID(s, id) == SubSeq(s, 1, id - 1) \o SubSeq(s, id + 1, Len(s))

-----------------------------------------------------------------------------
(***************************************************************************)
(* The handlers.  A request that is rejected, or fails, changes nothing.   *)
(***************************************************************************)
Body == Url \cup {Invalid, Comment}

Batches == UNION {[1..n -> Body] : n \in 0..MaxBatch}

\* A request: how far its handler is, what was asked for, and what the handler
\* has worked out to write (and, for a DELETE, to take away).
NoRequest == [pc |-> "idle", op |-> "none", id |-> 0, body |-> <<>>,
              out |-> <<>>, gone |-> <<>>]

Init ==
    /\ file \in InitialFile
    /\ req = [r \in Request |-> NoRequest]
    /\ requests = 0 /\ crashes = 0
    /\ acked = {} /\ committed = {LoadURLs(file)} /\ torn = FALSE
    /\ before = <<>>
    /\ unfinished = (file.lines # <<>> /\ ~file.newline)
    /\ atRisk = {} /\ overlapped = unfinished

\* A DELETE has read the list it will write back, or the file is empty for a
\* moment: what another request writes now may be lost.
Exposed(q) == req[q].op = "delete" \/ req[q].pc = "write"

\* Some request has emptied the file and not written it yet.
HalfWritten == \E r \in Request : req[r].pc = "write"

Quiet == \A r \in Request : req[r].pc = "idle"

Arrives(r, op) ==
    /\ op \in Ops /\ req[r].pc = "idle" /\ requests < MaxRequests
    /\ requests' = requests + 1

Finishes(r) == req' = [req EXCEPT ![r] = NoRequest]

\* What one request leaves is what a reader may see.
Commit == committed' = committed \cup {LoadURLs(file')}

\* LoadURLs in listURLs and in runCycle: ReadFile fails or returns what is
\* in the file.
List(r) ==
    /\ Arrives(r, "list")
    /\ torn' = (torn \/ (file.exists /\ LoadURLs(file) \notin committed))
    /\ UNCHANGED <<file, req, crashes, acked, committed, before, risks>>

\* addURL.  The append is one write(2) on a file opened with O_APPEND.
StartAdd(r) ==
    /\ Arrives(r, "add")
    /\ \E u \in Url :
          req' = [req EXCEPT ![r] = [NoRequest EXCEPT !.pc = "append",
                                     !.op = "add", !.body = <<u>>]]
    /\ UNCHANGED <<file, crashes, acked, seen, before, risks>>

AddURL(r) ==
    /\ req[r].pc = "append"
    /\ file' = AppendURL(file, req[r].body[1])
    /\ acked' = acked \cup {req[r].body[1]}
    /\ overlapped' = (overlapped \/ \E q \in Request : Exposed(q))
    /\ atRisk' = IF unfinished \/ \E q \in Request : Exposed(q)
                    THEN atRisk \cup {req[r].body[1]}
                    ELSE atRisk \ {req[r].body[1]}
    /\ unfinished' = FALSE
    /\ Commit
    /\ Finishes(r)
    /\ UNCHANGED <<requests, crashes, torn, before>>

\* replaceURLs: blank entries and comments are dropped; one invalid entry
\* rejects the batch.
StartReplace(r) ==
    /\ Arrives(r, "replace")
    /\ \E batch \in Batches :
          /\ \A i \in DOMAIN batch : batch[i] # Invalid
          /\ req' = [req EXCEPT ![r] =
                    [NoRequest EXCEPT
                     !.pc = "truncate", !.op = "replace", !.body = batch,
                     !.out = Lines(Sift(batch, Body \ {Comment}))]]
    /\ UNCHANGED <<file, crashes, acked, seen, before, risks>>

\* handleURLsByID reads the list and keeps what it will write back.
StartDelete(r) ==
    /\ Arrives(r, "delete")
    /\ file.exists
    /\ \E id \in DOMAIN LoadURLs(file) :
          req' = [req EXCEPT ![r] =
                    [NoRequest EXCEPT
                     !.pc = "truncate", !.op = "delete", !.id = id,
                     !.out = WithoutID(LoadURLs(file), id),
                     !.gone = LoadURLs(file)[id]]]
    /\ atRisk' = IF HalfWritten THEN atRisk \cup acked ELSE atRisk
    /\ UNCHANGED <<file, crashes, acked, seen, before, unfinished, overlapped>>

Overlaps(r) ==
    overlapped' = (overlapped \/ \E q \in Request \ {r} : Exposed(q))

\* os.WriteFile, in both.
OpenTruncated(r) ==
    /\ req[r].pc = "truncate"
    /\ before' = LoadURLs(file)
    /\ file' = Truncate(file)
    /\ req' = [req EXCEPT ![r].pc = "write"]
    /\ unfinished' = FALSE
    /\ Overlaps(r)
    /\ UNCHANGED <<requests, crashes, acked, seen, atRisk>>

WriteBack(r) ==
    /\ req[r].pc = "write"
    /\ file' = WriteOver(file, req[r].out)
    /\ acked' = IF req[r].op = "replace"
                  THEN acked \cap Range(req[r].body)
                  ELSE acked \ Range(req[r].gone)
    /\ Commit
    /\ Finishes(r)
    /\ Overlaps(r)
    /\ UNCHANGED <<requests, crashes, torn, before, unfinished, atRisk>>

\* The process dies; what is in the file stays.
Crash ==
    /\ crashes < MaxCrashes
    /\ crashes' = crashes + 1
    /\ req' = [r \in Request |-> NoRequest]
    /\ atRisk' = IF HalfWritten THEN atRisk \cup acked ELSE atRisk
    /\ UNCHANGED <<file, requests, acked, seen, before, unfinished, overlapped>>

Next ==
    \/ \E r \in Request :
          \/ List(r) \/ StartAdd(r) \/ AddURL(r) \/ StartReplace(r)
          \/ StartDelete(r) \/ OpenTruncated(r) \/ WriteBack(r)
    \/ Crash

Spec == Init /\ [][Next]_vars

-----------------------------------------------------------------------------
Subscribed(u) == <<u>> \in Range(LoadURLs(file))

\* A URL that was acknowledged with 201 is a subscription as long as no
\* request removed it, however many requests overlap and whenever the process
\* dies.  There are just four ways to lose one: it was added while a PUT or
\* DELETE was in flight, which writes back what it read before, or behind a
\* last line the operator left unfinished; or it was in the list when a DELETE
\* read the file, or the process died, while another request had emptied it.
AddedIsKept == Quiet => \A u \in acked \ atRisk : Subscribed(u)

\* No reader meets a list that is neither the old nor the new one of a request.
ReadsAreWhole == ~torn

\* As long as a PUT or DELETE has a file of whole lines for itself, the
\* handlers change the list exactly as UrlList says, although a replacement
\* takes two steps and POSTs overlap.  A write that is under way still shows
\* the list before it; from the first overlap on the mapping shows none.
UrlOf(lines) == [i \in DOMAIN lines |-> lines[i][1]]
Current ==
    IF overlapped THEN <<>>
    ELSE IF HalfWritten THEN before
    ELSE LoadURLs(file)
UL == INSTANCE UrlList WITH list <- UrlOf(Current),
                            asked <- {req[r] : r \in Request}
ImplementsList == UL!Spec
=============================================================================
