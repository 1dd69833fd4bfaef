--------------------------- MODULE UrlsFileProofs ---------------------------
(***************************************************************************)
(* Proofs about UrlsFile: what becomes of an acknowledged URL, and that    *)
(* the handlers implement UrlList until a rewrite is overlapped, for any   *)
(* number of requests and lines.                                           *)
(***************************************************************************)
EXTENDS UrlsFile, RecursionProofs

USE UrlsAssumption

-----------------------------------------------------------------------------
(***************************************************************************)
(* The file operations.                                                    *)
(***************************************************************************)
\* What LoadURLs keeps begins with a URL.
LEMMA Entries ==
    /\ Entry \subseteq Line
    /\ \A l \in Entry : l[1] \in Url
    /\ \A u \in Url : <<u>> \in Entry /\ <<u>>[1] = u
<1>1. ASSUME NEW l \in Entry PROVE l \in Line /\ l[1] \in Url
  <2>1. l \in Seq(Url \cup {Comment}) /\ l # <<>> /\ l[1] # Comment
    BY DEF Entry, Line
  <2>2. Len(l) \in Nat \ {0}
    BY <2>1, EmptySeq
  <2>3. l[1] \in Url \cup {Comment}
    BY <2>1, <2>2, ElementOfSeq
  <2> QED BY <2>1, <2>3 DEF Line
<1>2. ASSUME NEW u \in Url PROVE <<u>> \in Entry /\ <<u>>[1] = u
  BY DEF Entry, Line
<1> QED BY <1>1, <1>2

LEMMA Loads ==
    ASSUME NEW f \in Contents
    PROVE  /\ LoadURLs(f) \in Seq(Entry)
           /\ Range(LoadURLs(f)) = Range(f.lines) \cap Entry
<1>1. f.lines \in Seq(Line)
  BY DEF Contents
<1>2. Line \cap Entry = Entry
  BY Entries
<1>3. Sift(f.lines, Entry) \in Seq(Entry)
  BY <1>1, <1>2, SiftType
<1>4. Range(Sift(f.lines, Entry)) = Range(f.lines) \cap Entry
  BY <1>1, SiftRange
<1> QED BY <1>3, <1>4 DEF LoadURLs

\* A POST to a file of whole lines adds its URL at the end of the list; one to
\* a file whose last line is unfinished is still a file.
LEMMA AppendLoads ==
    ASSUME NEW f \in Contents, NEW u \in Url
    PROVE  /\ AppendURL(f, u) \in Contents
           /\ AppendURL(f, u).newline
           /\ f.newline \/ f.lines = <<>> =>
                 LoadURLs(AppendURL(f, u)) = Append(LoadURLs(f), <<u>>)
<1>1. f.lines \in Seq(Line) /\ <<u>> \in Line /\ <<u>> \in Entry
  BY Entries DEF Contents
<1>2. Append(f.lines, <<u>>) \in Seq(Line)
  BY <1>1, AppendProperties
<1>3. ASSUME f.lines # <<>>
      PROVE  [f.lines EXCEPT ![Len(f.lines)] = Append(@, u)] \in Seq(Line)
  <2>1. Len(f.lines) \in 1..Len(f.lines)
    BY <1>1, <1>3, EmptySeq
  <2>2. f.lines[Len(f.lines)] \in Seq(Url \cup {Comment})
    BY <1>1, <2>1, ElementOfSeq DEF Line
  <2>3. Append(f.lines[Len(f.lines)], u) \in Line
    BY <2>2, AppendProperties DEF Line
  <2> QED BY <1>1, <2>1, <2>3, ExceptSeq
<1>4. AppendURL(f, u) \in Contents /\ AppendURL(f, u).newline
  BY <1>2, <1>3 DEF AppendURL, Contents
<1>5. ASSUME f.newline \/ f.lines = <<>>
      PROVE  LoadURLs(AppendURL(f, u)) = Append(LoadURLs(f), <<u>>)
  <2>1. AppendURL(f, u).lines = Append(f.lines, <<u>>)
    BY <1>5 DEF AppendURL
  <2>2. Sift(Append(f.lines, <<u>>), Entry) = Append(Sift(f.lines, Entry), <<u>>)
    BY <1>1, SiftAppend
  <2> QED BY <2>1, <2>2 DEF LoadURLs
<1> QED BY <1>4, <1>5

\* What a rewrite writes is in the file afterwards, and is its whole list if
\* nobody wrote since the file was emptied.
LEMMA WriteOverLoads ==
    ASSUME NEW f \in Contents, NEW out \in Seq(Line)
    PROVE  /\ WriteOver(f, out) \in Contents
           /\ f.newline \/ f.lines = <<>> => WriteOver(f, out).newline
           /\ Range(out) \subseteq Range(WriteOver(f, out).lines)
           /\ f.lines = <<>> /\ out \in Seq(Entry) => LoadURLs(WriteOver(f, out)) = out
<1>1. f.lines \in Seq(Line) /\ Len(f.lines) \in Nat /\ Len(out) \in Nat
  BY LenProperties DEF Contents
<1> DEFINE tail == SubSeq(f.lines, Len(out) + 1, Len(f.lines))
<1>2. CASE Len(f.lines) <= Len(out)
  <2>1. WriteOver(f, out) = Whole(out)
    BY <1>2 DEF WriteOver
  <2>2. ASSUME out \in Seq(Entry) PROVE LoadURLs(Whole(out)) = out
    BY <2>2, SiftAll DEF LoadURLs, Whole
  <2> QED BY <2>1, <2>2 DEF Whole, Contents
<1>3. CASE ~(Len(f.lines) <= Len(out))
  <2>1. tail \in Seq(Line)
    <3>1. \A i \in (Len(out) + 1)..Len(f.lines) : f.lines[i] \in Line
      BY <1>1, ElementOfSeq
    <3> QED BY <1>1, <3>1, SubSeqProperties
  <2> HIDE DEF tail
  <2>2. /\ out \o tail \in Seq(Line)
        /\ Range(out \o tail) = Range(out) \cup Range(tail)
    BY <2>1, ConcatProperties, RangeConcatenation
  <2>3. WriteOver(f, out) = [f EXCEPT !.lines = out \o tail]
    BY <1>3 DEF WriteOver, tail
  <2>4. f.lines # <<>>
    BY <1>1, <1>3
  <2>5. /\ WriteOver(f, out) \in Contents
        /\ WriteOver(f, out).newline = f.newline
        /\ WriteOver(f, out).lines = out \o tail
    BY <2>2, <2>3 DEF Contents
  <2> QED BY <2>2, <2>4, <2>5
<1> QED BY <1>2, <1>3

\* A DELETE keeps every entry but one, in their order.
LEMMA Deleted ==
    ASSUME NEW X, NEW s \in Seq(X), NEW id \in DOMAIN s
    PROVE  /\ WithoutID(s, id) \in Seq(X)
           /\ Len(WithoutID(s, id)) = Len(s) - 1
           /\ \A i \in 1..(Len(s) - 1) :
                 WithoutID(s, id)[i] = IF i < id THEN s[i] ELSE s[i + 1]
           /\ Range(s) \subseteq Range(WithoutID(s, id)) \cup {s[id]}
<1>1. Len(s) \in Nat /\ DOMAIN s = 1..Len(s) /\ id \in 1..Len(s)
  BY LenProperties
<1> DEFINE front == SubSeq(s, 1, id - 1)
           back  == SubSeq(s, id + 1, Len(s))
<1>2. \A i \in 1..Len(s) : s[i] \in X
  BY <1>1, ElementOfSeq
<1>3. /\ front \in Seq(X) /\ Len(front) = id - 1
      /\ \A i \in 1..(id - 1) : front[i] = s[i]
  <2>1. \A i \in 1..(id - 1) : s[i] \in X
    BY <1>1, <1>2
  <2>2. /\ SubSeq(s, 1, id - 1) \in Seq(X)
        /\ Len(SubSeq(s, 1, id - 1)) = IF 1 <= id - 1 THEN id - 1 - 1 + 1 ELSE 0
        /\ \A i \in 1..(id - 1 - 1 + 1) : SubSeq(s, 1, id - 1)[i] = s[1 + i - 1]
    BY <1>1, <2>1, SubSeqProperties
  <2>3. \A i \in 1..(id - 1) : SubSeq(s, 1, id - 1)[i] = s[i]
    BY <1>1, <2>2
  <2> QED BY <1>1, <2>2, <2>3
<1>4. /\ back \in Seq(X) /\ Len(back) = Len(s) - id
      /\ \A i \in 1..(Len(s) - id) : back[i] = s[id + i]
  <2>1. \A i \in (id + 1)..Len(s) : s[i] \in X
    BY <1>1, <1>2
  <2>2. /\ SubSeq(s, id + 1, Len(s)) \in Seq(X)
        /\ Len(SubSeq(s, id + 1, Len(s))) =
              IF id + 1 <= Len(s) THEN Len(s) - (id + 1) + 1 ELSE 0
        /\ \A i \in 1..(Len(s) - (id + 1) + 1) :
              SubSeq(s, id + 1, Len(s))[i] = s[(id + 1) + i - 1]
    BY <1>1, <2>1, SubSeqProperties
  <2>3. \A i \in 1..(Len(s) - id) : SubSeq(s, id + 1, Len(s))[i] = s[id + i]
    BY <1>1, <2>2
  <2> QED BY <1>1, <2>2, <2>3
<1>5. WithoutID(s, id) = front \o back
  BY DEF WithoutID
<1> HIDE DEF front, back
<1> DEFINE w == front \o back
<1>6. /\ w \in Seq(X) /\ Len(w) = (id - 1) + (Len(s) - id)
      /\ \A i \in 1..((id - 1) + (Len(s) - id)) :
            w[i] = IF i <= id - 1 THEN front[i] ELSE back[i - (id - 1)]
  <2>1. /\ w \in Seq(X) /\ Len(w) = Len(front) + Len(back)
        /\ \A i \in 1..(Len(front) + Len(back)) :
              w[i] = IF i <= Len(front) THEN front[i] ELSE back[i - Len(front)]
    BY <1>3, <1>4, ConcatProperties
  <2> HIDE DEF w
  <2> QED BY <1>3, <1>4, <2>1
<1> HIDE DEF w
<1>7. /\ Len(w) = Len(s) - 1 /\ Len(w) \in Nat
      /\ \A i \in 1..(Len(s) - 1) : w[i] = IF i < id THEN s[i] ELSE s[i + 1]
  <2>1. Len(w) = Len(s) - 1 /\ Len(w) \in Nat
    BY <1>1, <1>6
  <2>2. ASSUME NEW i \in 1..(Len(s) - 1)
        PROVE  w[i] = IF i < id THEN s[i] ELSE s[i + 1]
    <3>1. CASE i < id
      <4>1. i \in 1..((id - 1) + (Len(s) - id)) /\ i <= id - 1 /\ i \in 1..(id - 1)
        BY <1>1, <3>1
      <4> QED BY <1>3, <1>6, <3>1, <4>1
    <3>2. CASE ~(i < id)
      <4>1. /\ i \in 1..((id - 1) + (Len(s) - id)) /\ ~(i <= id - 1)
            /\ i - (id - 1) \in 1..(Len(s) - id) /\ id + (i - (id - 1)) = i + 1
        BY <1>1, <3>2
      <4> QED BY <1>4, <1>6, <3>2, <4>1
    <3> QED BY <3>1, <3>2
  <2> QED BY <2>1, <2>2
<1>8. ASSUME NEW i \in DOMAIN s PROVE s[i] \in Range(w) \cup {s[id]}
  <2>1. DOMAIN w = 1..(Len(s) - 1)
    BY <1>6, <1>7, LenProperties
  <2>2. CASE i < id
    <3>1. i \in 1..(Len(s) - 1)
      BY <1>1, <2>2
    <3> QED BY <1>7, <2>1, <2>2, <3>1 DEF Range
  <2>3. CASE i > id
    <3>1. i - 1 \in 1..(Len(s) - 1) /\ ~(i - 1 < id) /\ (i - 1) + 1 = i
      BY <1>1, <2>3
    <3>2. w[i - 1] = s[i]
      BY <1>7, <3>1
    <3> QED BY <2>1, <3>1, <3>2 DEF Range
  <2>4. CASE i = id
    BY <2>4
  <2> QED BY <1>1, <2>2, <2>3, <2>4
<1>9. Range(s) \subseteq Range(w) \cup {s[id]}
  BY <1>8 DEF Range
<1>10. WithoutID(s, id) = w
  BY <1>5 DEF w
<1> QED BY <1>6, <1>7, <1>9, <1>10

\* A PUT writes a line for each URL of its body.
LEMMA Replaced ==
    ASSUME NEW s \in Seq(Url)
    PROVE  /\ Lines(s) \in Seq(Entry)
           /\ \A u \in Range(s) : <<u>> \in Range(Lines(s))
           /\ UrlOf(Lines(s)) = s
<1>1. Len(s) \in Nat /\ DOMAIN s = 1..Len(s) /\ \A i \in 1..Len(s) : s[i] \in Url
  BY LenProperties, ElementOfSeq
<1>2. \A i \in 1..Len(s) : <<s[i]>> \in Entry /\ <<s[i]>>[1] = s[i]
  BY <1>1, Entries
<1>3. Lines(s) = [i \in 1..Len(s) |-> <<s[i]>>]
  BY <1>1 DEF Lines
<1>4. Lines(s) \in Seq(Entry)
  BY <1>1, <1>2, <1>3, IsASeq
<1>5. \A u \in Range(s) : <<u>> \in Range(Lines(s))
  BY <1>1, <1>3 DEF Range
<1>6. UrlOf(Lines(s)) = [i \in 1..Len(s) |-> s[i]]
  BY <1>2, <1>3 DEF UrlOf
<1>7. s = [i \in 1..Len(s) |-> s[i]]
  BY <1>1
<1> QED BY <1>4, <1>5, <1>6, <1>7

-----------------------------------------------------------------------------
(***************************************************************************)
(* The requests in flight.                                                 *)
(***************************************************************************)
Requests == [pc   : {"idle", "append", "truncate", "write"},
             op   : {"none", "add", "replace", "delete"},
             id   : Nat,
             body : Seq(Body),
             out  : Seq(Line),
             gone : Line]

\* What a handler has worked out so far.
WorkedOut(q) ==
    /\ q.pc = "idle" => q.op = "none"
    /\ q.pc = "append" => q.op = "add" /\ \E u \in Url : q.body = <<u>>
    /\ q.pc \in {"truncate", "write"} => q.op \in {"replace", "delete"}
    /\ q.op = "replace" =>
          /\ q.body \in Seq(Url \cup {Comment})
          /\ q.out = Lines(Sift(q.body, Body \ {Comment}))
    /\ q.op = "delete" => q.out \in Seq(Entry)

TypeInv ==
    /\ file \in Contents
    /\ req \in [Request -> Requests]
    /\ \A r \in Request : WorkedOut(req[r])
    /\ acked \subseteq Url /\ atRisk \subseteq Url
    /\ before \in Seq(Entry)
    /\ unfinished \in BOOLEAN /\ overlapped \in BOOLEAN

\* As long as nobody is between emptying the file and writing it, every URL
\* that is not at risk is in it; and a DELETE that is under way will write it
\* back, unless it is the one that was asked for.
KeptInv ==
    /\ unfinished => acked = {} /\ overlapped /\ ~HalfWritten
    /\ unfinished \/ file.newline \/ file.lines = <<>>
    /\ ~HalfWritten => \A u \in acked \ atRisk : Subscribed(u)
    /\ \A r \in Request : req[r].op = "delete" =>
          \A u \in acked \ atRisk : <<u>> \in Range(req[r].out) \cup {req[r].gone}

\* Until an overlap, an emptied file is empty, and what a DELETE will write is
\* the list without its entry.
ListInv ==
    ~overlapped =>
       \A r \in Request :
          /\ req[r].pc = "write" => file.lines = <<>>
          /\ req[r].op = "delete" =>
                /\ req[r].id \in DOMAIN Current
                /\ req[r].out = WithoutID(Current, req[r].id)

-----------------------------------------------------------------------------
LEMMA NothingAsked == NoRequest \in Requests /\ WorkedOut(NoRequest)
<1>1. <<>> \in Seq(Body) /\ <<>> \in Seq(Line) /\ <<>> \in Line
  BY EmptySeq DEF Line
<1> QED BY <1>1 DEF NoRequest, Requests, WorkedOut

LEMMA Batch ==
    ASSUME NEW batch \in Batches, \A i \in DOMAIN batch : batch[i] # Invalid
    PROVE  batch \in Seq(Url \cup {Comment})
<1>1. PICK n \in 0..MaxBatch : batch \in [1..n -> Body]
  BY DEF Batches
<1>2. \A i \in 1..n : batch[i] \in Url \cup {Comment}
  BY <1>1 DEF Body
<1>3. batch = [i \in 1..n |-> batch[i]] /\ n \in Nat
  BY <1>1
<1>4. [i \in 1..n |-> batch[i]] \in Seq(Url \cup {Comment})
  BY <1>2, <1>3, IsASeq
<1> QED BY <1>3, <1>4

\* A PUT writes the URLs of its body.
LEMMA Written ==
    ASSUME NEW s \in Seq(Url \cup {Comment})
    PROVE  /\ Sift(s, Body \ {Comment}) \in Seq(Url)
           /\ Range(Sift(s, Body \ {Comment})) = Range(s) \cap Url
           /\ Sift(s, Body \ {Comment}) = Sift(s, Url)
<1>1. (Url \cup {Comment}) \cap (Body \ {Comment}) = Url
  BY DEF Body
<1>2. (Url \cup {Comment}) \cap Url = Url
  OBVIOUS
<1>3. Sift(s, Body \ {Comment}) = Sift(s, Url)
  BY <1>1, <1>2, SiftAgrees
<1>4. Sift(s, Url) \in Seq(Url)
  BY <1>2, SiftType
<1>5. Range(Sift(s, Url)) = Range(s) \cap Url
  BY SiftRange
<1> QED BY <1>3, <1>4, <1>5

LEMMA TypeInit == Init => TypeInv
<1> SUFFICES ASSUME Init PROVE TypeInv
  OBVIOUS
<1>1. file \in Contents /\ before \in Seq(Entry)
  BY EmptySeq DEF Init
<1> QED BY <1>1, NothingAsked DEF Init, TypeInv

LEMMA TypeStep == TypeInv /\ [Next]_vars => TypeInv'
<1> SUFFICES ASSUME TypeInv, [Next]_vars PROVE TypeInv'
  OBVIOUS
<1> USE DEF TypeInv
<1>1. ASSUME NEW r \in Request, List(r) PROVE TypeInv'
  BY <1>1 DEF List, Arrives, risks
<1>2. ASSUME NEW r \in Request, StartAdd(r) PROVE TypeInv'
  <2>1. PICK u \in Url :
           req' = [req EXCEPT ![r] = [NoRequest EXCEPT !.pc = "append",
                                      !.op = "add", !.body = <<u>>]]
    BY <1>2 DEF StartAdd
  <2> DEFINE q == [NoRequest EXCEPT !.pc = "append", !.op = "add", !.body = <<u>>]
  <2>2. q \in Requests /\ WorkedOut(q)
    <3>1. <<u>> \in Seq(Body)
      BY DEF Body
    <3> QED BY <3>1, NothingAsked DEF NoRequest, Requests, WorkedOut
  <2> HIDE DEF q
  <2>3. req' = [req EXCEPT ![r] = q]
    BY <2>1 DEF q
  <2>4. req' \in [Request -> Requests] /\ \A p \in Request : WorkedOut(req'[p])
    BY <2>2, <2>3
  <2> QED BY <1>2, <2>4 DEF StartAdd, risks
<1>3. ASSUME NEW r \in Request, AddURL(r) PROVE TypeInv'
  <2>1. PICK u \in Url : req[r].body = <<u>>
    BY <1>3 DEF AddURL, WorkedOut
  <2>2. req[r].body[1] = u
    BY <2>1
  <2>3. req' \in [Request -> Requests] /\ \A p \in Request : WorkedOut(req'[p])
    BY <1>3, NothingAsked DEF AddURL, Finishes
  <2>4. file' \in Contents
    BY <1>3, <2>2, AppendLoads DEF AddURL
  <2>5. acked' \subseteq Url /\ atRisk' \subseteq Url
    BY <1>3, <2>2 DEF AddURL
  <2>6. unfinished' \in BOOLEAN /\ overlapped' \in BOOLEAN /\ before' = before
    BY <1>3 DEF AddURL
  <2> QED BY <2>3, <2>4, <2>5, <2>6
<1>4. ASSUME NEW r \in Request, StartReplace(r) PROVE TypeInv'
  <2>1. PICK batch \in Batches :
           /\ \A i \in DOMAIN batch : batch[i] # Invalid
           /\ req' = [req EXCEPT ![r] =
                     [NoRequest EXCEPT
                      !.pc = "truncate", !.op = "replace", !.body = batch,
                      !.out = Lines(Sift(batch, Body \ {Comment}))]]
    BY <1>4 DEF StartReplace
  <2> DEFINE q == [NoRequest EXCEPT
                      !.pc = "truncate", !.op = "replace", !.body = batch,
                      !.out = Lines(Sift(batch, Body \ {Comment}))]
  <2>2. q \in Requests /\ WorkedOut(q)
    <3>1. batch \in Seq(Url \cup {Comment})
      BY <2>1, Batch
    <3>2. batch \in Seq(Body)
      <4>1. Url \cup {Comment} \subseteq Body
        BY DEF Body
      <4> QED BY <3>1, <4>1, SeqMonotonic
    <3>3. Lines(Sift(batch, Body \ {Comment})) \in Seq(Line)
      <4>1. Lines(Sift(batch, Body \ {Comment})) \in Seq(Entry)
        BY <3>1, Written, Replaced
      <4> QED BY <4>1, Entries, SeqMonotonic
    <3> QED BY <3>1, <3>2, <3>3, NothingAsked DEF NoRequest, Requests, WorkedOut
  <2> HIDE DEF q
  <2>3. req' = [req EXCEPT ![r] = q]
    BY <2>1 DEF q
  <2>4. req' \in [Request -> Requests] /\ \A p \in Request : WorkedOut(req'[p])
    BY <2>2, <2>3
  <2> QED BY <1>4, <2>4 DEF StartReplace, risks
<1>5. ASSUME NEW r \in Request, StartDelete(r) PROVE TypeInv'
  <2> DEFINE list == LoadURLs(file)
  <2>1. PICK id \in DOMAIN list :
          req' = [req EXCEPT ![r] =
                    [NoRequest EXCEPT
                     !.pc = "truncate", !.op = "delete", !.id = id,
                     !.out = WithoutID(list, id),
                     !.gone = list[id]]]
    BY <1>5 DEF StartDelete
  <2>2. list \in Seq(Entry)
    BY Loads
  <2> HIDE DEF list
  <2> DEFINE q == [NoRequest EXCEPT
                     !.pc = "truncate", !.op = "delete", !.id = id,
                     !.out = WithoutID(list, id),
                     !.gone = list[id]]
  <2>3. q \in Requests /\ WorkedOut(q)
    <3>1. WithoutID(list, id) \in Seq(Entry)
      BY <2>2, Deleted
    <3>2. WithoutID(list, id) \in Seq(Line)
      BY <3>1, Entries, SeqMonotonic
    <3>3. id \in Nat /\ list[id] \in Line
      BY <2>2, Entries, LenProperties, ElementOfSeq
    <3> QED BY <3>1, <3>2, <3>3, NothingAsked DEF NoRequest, Requests, WorkedOut
  <2> HIDE DEF q
  <2>4. req' = [req EXCEPT ![r] = q]
    BY <2>1 DEF q
  <2>5. req' \in [Request -> Requests] /\ \A p \in Request : WorkedOut(req'[p])
    BY <2>3, <2>4
  <2> QED BY <1>5, <2>5 DEF StartDelete
<1>6. ASSUME NEW r \in Request, OpenTruncated(r) PROVE TypeInv'
  <2>1. file' \in Contents
    BY <1>6, EmptySeq DEF OpenTruncated, Truncate, Whole, Contents
  <2>2. before' \in Seq(Entry)
    BY <1>6, Loads DEF OpenTruncated
  <2> DEFINE q == [req[r] EXCEPT !.pc = "write"]
  <2>3. q \in Requests /\ WorkedOut(q)
    BY <1>6 DEF OpenTruncated, Requests, WorkedOut
  <2>4. req' = [req EXCEPT ![r] = q]
    BY <1>6 DEF OpenTruncated
  <2> HIDE DEF q
  <2>5. req' \in [Request -> Requests] /\ \A p \in Request : WorkedOut(req'[p])
    BY <2>3, <2>4
  <2> QED BY <1>6, <2>1, <2>2, <2>5 DEF OpenTruncated, Overlaps
<1>7. ASSUME NEW r \in Request, WriteBack(r) PROVE TypeInv'
  <2>1. req[r].out \in Seq(Line)
    BY DEF Requests
  <2>2. file' \in Contents
    BY <1>7, <2>1, WriteOverLoads DEF WriteBack
  <2>3. req' \in [Request -> Requests] /\ \A p \in Request : WorkedOut(req'[p])
    BY <1>7, NothingAsked DEF WriteBack, Finishes
  <2> QED BY <1>7, <2>2, <2>3 DEF WriteBack, Overlaps
<1>8. CASE Crash
  <2>1. req' \in [Request -> Requests] /\ \A p \in Request : WorkedOut(req'[p])
    BY <1>8, NothingAsked DEF Crash
  <2> QED BY <1>8, <2>1 DEF Crash
<1>9. CASE UNCHANGED vars
  BY <1>9 DEF vars, risks
<1> QED BY <1>1, <1>2, <1>3, <1>4, <1>5, <1>6, <1>7, <1>8, <1>9 DEF Next

\* Every variable has its type, and every request in flight is one a handler
\* can have worked out.
THEOREM TypeCorrect == Spec => []TypeInv
BY TypeInit, TypeStep, PTL DEF Spec
-----------------------------------------------------------------------------
(***************************************************************************)
(* Acknowledged URLs.                                                      *)
(***************************************************************************)
LEMMA KeptInit == Init => KeptInv
<1> SUFFICES ASSUME Init PROVE KeptInv
  OBVIOUS
<1>1. \A r \in Request : req[r].pc = "idle" /\ req[r].op = "none"
  BY DEF Init, NoRequest
<1>2. ~HalfWritten
  BY <1>1 DEF HalfWritten
<1>3. file.newline \in BOOLEAN
  BY DEF Init, Contents
<1> QED BY <1>1, <1>2, <1>3 DEF Init, KeptInv

\* A URL of a file's lines that has a line of its own is a subscription.
LEMMA OwnLine ==
    ASSUME NEW f \in Contents, NEW u \in Url
    PROVE  <<u>> \in Range(LoadURLs(f)) <=> <<u>> \in Range(f.lines)
BY Loads, Entries

\* A handler that gets on without emptying or writing the file leaves it half
\* written or not as it was.
LEMMA SameHalf ==
    ASSUME TypeInv, NEW r \in Request, NEW q,
           req' = [req EXCEPT ![r] = q], req[r].pc # "write", q.pc # "write"
    PROVE  HalfWritten' <=> HalfWritten
<1>1. \A p \in Request : req'[p].pc = "write" <=> req[p].pc = "write"
  BY DEF TypeInv
<1> QED BY <1>1 DEF HalfWritten

LEMMA KeptAdd ==
    ASSUME TypeInv, KeptInv, NEW r \in Request, AddURL(r)
    PROVE  KeptInv'
<1>1. PICK u \in Url : req[r].body = <<u>>
  BY DEF AddURL, TypeInv, WorkedOut
<1>2. /\ file' = AppendURL(file, u) /\ file \in Contents
      /\ acked' = acked \cup {u}
      /\ atRisk' = IF unfinished \/ \E q \in Request : Exposed(q)
                     THEN atRisk \cup {u} ELSE atRisk \ {u}
      /\ unfinished' = FALSE
  BY <1>1 DEF AddURL, TypeInv
<1>3. HalfWritten' <=> HalfWritten
  <2>1. req' = [req EXCEPT ![r] = NoRequest] /\ req[r].pc # "write"
    BY DEF AddURL, Finishes
  <2>2. NoRequest.pc # "write"
    BY DEF NoRequest
  <2> QED BY <2>1, <2>2, SameHalf
<1>4. file'.newline
  BY <1>2, AppendLoads
<1>5. ASSUME ~HalfWritten, NEW v \in acked' \ atRisk' PROVE Subscribed(v)'
  <2>1. ~unfinished
    BY <1>2, <1>5 DEF KeptInv
  <2>2. LoadURLs(file') = Append(LoadURLs(file), <<u>>)
    BY <1>2, <2>1, AppendLoads DEF KeptInv
  <2>3. Range(LoadURLs(file')) = Range(LoadURLs(file)) \cup {<<u>>}
    <3>1. LoadURLs(file) \in Seq(Entry) /\ <<u>> \in Entry
      BY <1>2, Loads, Entries
    <3> QED BY <2>2, <3>1, RangeAppend
  <2>4. CASE v = u
    BY <2>3, <2>4 DEF Subscribed
  <2>5. CASE v # u
    <3>1. v \in acked \ atRisk
      BY <1>2, <1>5, <2>5
    <3> QED BY <1>5, <2>3, <3>1 DEF Subscribed, KeptInv
  <2> QED BY <2>4, <2>5
<1>6. ASSUME NEW p \in Request, req'[p].op = "delete", NEW v \in acked' \ atRisk'
      PROVE  <<v>> \in Range(req'[p].out) \cup {req'[p].gone}
  <2>1. req'[p] = req[p]
    BY <1>6 DEF AddURL, Finishes, NoRequest, TypeInv
  <2>2. Exposed(p)
    BY <1>6, <2>1 DEF Exposed
  <2>3. v \in acked \ atRisk
    BY <1>2, <1>6, <2>2
  <2> QED BY <1>6, <2>1, <2>3 DEF KeptInv
<1> QED BY <1>2, <1>3, <1>4, <1>5, <1>6 DEF KeptInv

LEMMA KeptStartDelete ==
    ASSUME TypeInv, KeptInv, NEW r \in Request, StartDelete(r)
    PROVE  KeptInv'
<1> DEFINE list == LoadURLs(file)
<1>1. PICK id \in DOMAIN list :
         req' = [req EXCEPT ![r] =
                   [NoRequest EXCEPT
                    !.pc = "truncate", !.op = "delete", !.id = id,
                    !.out = WithoutID(list, id),
                    !.gone = list[id]]]
  BY DEF StartDelete
<1>2. list \in Seq(Entry)
  BY Loads DEF TypeInv
<1>3. Range(list) \subseteq Range(WithoutID(list, id)) \cup {list[id]}
  BY <1>2, Deleted
<1>4. /\ req'[r].out = WithoutID(list, id) /\ req'[r].gone = list[id]
      /\ \A p \in Request \ {r} : req'[p] = req[p]
  BY <1>1 DEF NoRequest, TypeInv
<1>5. HalfWritten' <=> HalfWritten
  <2>1. \A p \in Request : req'[p].pc = "write" <=> req[p].pc = "write"
    BY <1>1 DEF StartDelete, Arrives, NoRequest, TypeInv
  <2> QED BY <2>1 DEF HalfWritten
<1>6. /\ file' = file /\ acked' = acked /\ unfinished' = unfinished
      /\ overlapped' = overlapped
      /\ atRisk' = IF HalfWritten THEN atRisk \cup acked ELSE atRisk
  BY DEF StartDelete
<1>7. \A v \in acked \ atRisk' : v \in acked \ atRisk /\ ~HalfWritten
  BY <1>6
<1>8. ~HalfWritten => \A v \in acked \ atRisk : <<v>> \in Range(list)
  BY DEF KeptInv, Subscribed
<1> HIDE DEF list
<1>9. ASSUME NEW p \in Request, req'[p].op = "delete", NEW v \in acked' \ atRisk'
      PROVE  <<v>> \in Range(req'[p].out) \cup {req'[p].gone}
  <2>1. v \in acked \ atRisk /\ <<v>> \in Range(list)
    BY <1>6, <1>7, <1>8, <1>9
  <2>2. CASE p = r
    BY <1>3, <1>4, <2>1, <2>2
  <2>3. CASE p # r
    <3>1. req'[p] = req[p]
      BY <1>4, <2>3
    <3> QED BY <1>9, <2>1, <3>1 DEF KeptInv
  <2> QED BY <2>2, <2>3
<1> QED BY <1>5, <1>6, <1>9 DEF KeptInv, Subscribed

LEMMA KeptWriteBack ==
    ASSUME TypeInv, KeptInv, NEW r \in Request, WriteBack(r)
    PROVE  KeptInv'
<1> DEFINE q == req[r]
<1>1. /\ file \in Contents /\ q.out \in Seq(Line) /\ WorkedOut(q)
      /\ q.op \in {"replace", "delete"} /\ HalfWritten
      /\ file' = WriteOver(file, q.out)
      /\ acked' = IF q.op = "replace" THEN acked \cap Range(q.body)
                  ELSE acked \ Range(q.gone)
  BY DEF WriteBack, TypeInv, WorkedOut, Requests, HalfWritten
<1>2. ~unfinished /\ unfinished' = unfinished /\ atRisk' = atRisk
  BY <1>1 DEF KeptInv, WriteBack
<1>3. file'.newline
  BY <1>1, <1>2, WriteOverLoads DEF KeptInv
<1>4. ASSUME NEW v \in acked' \ atRisk' PROVE Subscribed(v)'
  <2>1. v \in acked \ atRisk /\ v \in Url
    BY <1>1, <1>2, <1>4 DEF TypeInv
  <2>2. <<v>> \in Range(q.out)
    <3>1. CASE q.op = "replace"
      <4>1. /\ q.body \in Seq(Url \cup {Comment})
            /\ q.out = Lines(Sift(q.body, Body \ {Comment}))
        BY <1>1, <3>1 DEF WorkedOut
      <4>2. v \in Range(q.body)
        BY <1>1, <1>4, <3>1
      <4>3. /\ Sift(q.body, Body \ {Comment}) \in Seq(Url)
            /\ v \in Range(Sift(q.body, Body \ {Comment}))
        BY <2>1, <4>1, <4>2, Written
      <4> QED BY <4>1, <4>3, Replaced
    <3>2. CASE q.op = "delete"
      <4>1. <<v>> \in Range(q.out) \cup {q.gone}
        BY <2>1, <3>2 DEF KeptInv
      <4>2. v \notin Range(q.gone)
        BY <1>1, <1>4, <3>2
      <4>3. v \in Range(<<v>>)
        BY DEF Range
      <4> QED BY <4>1, <4>2, <4>3
    <3> QED BY <1>1, <3>1, <3>2
  <2>3. <<v>> \in Range(file'.lines) /\ file' \in Contents
    BY <1>1, <2>2, WriteOverLoads
  <2> QED BY <2>1, <2>3, OwnLine DEF Subscribed
<1>5. ASSUME NEW p \in Request, req'[p].op = "delete", NEW v \in acked' \ atRisk'
      PROVE  <<v>> \in Range(req'[p].out) \cup {req'[p].gone}
  <2>1. req'[p] = req[p]
    BY <1>5 DEF WriteBack, Finishes, NoRequest, TypeInv
  <2>2. v \in acked \ atRisk
    BY <1>1, <1>2, <1>5
  <2> QED BY <1>5, <2>1, <2>2 DEF KeptInv
<1> QED BY <1>2, <1>3, <1>4, <1>5 DEF KeptInv

LEMMA KeptStep == TypeInv /\ KeptInv /\ [Next]_vars => KeptInv'
<1> SUFFICES ASSUME TypeInv, KeptInv, [Next]_vars PROVE KeptInv'
  OBVIOUS
<1>1. ASSUME NEW r \in Request, List(r) PROVE KeptInv'
  BY <1>1 DEF List, KeptInv, risks, HalfWritten, Subscribed
<1>2. ASSUME NEW r \in Request, NEW q,
             req' = [req EXCEPT ![r] = q], q.pc # "write", q.op # "delete",
             req[r].pc = "idle", UNCHANGED <<file, acked, risks>>
      PROVE  KeptInv'
  <2>1. HalfWritten' <=> HalfWritten
    BY <1>2, SameHalf
  <2>2. \A p \in Request : req'[p].op = "delete" => req'[p] = req[p]
    BY <1>2 DEF TypeInv
  <2> QED BY <1>2, <2>1, <2>2 DEF KeptInv, Subscribed, risks
<1>3. ASSUME NEW r \in Request, StartAdd(r) PROVE KeptInv'
  <2>1. PICK u \in Url :
           req' = [req EXCEPT ![r] = [NoRequest EXCEPT !.pc = "append",
                                      !.op = "add", !.body = <<u>>]]
    BY <1>3 DEF StartAdd
  <2>2. UNCHANGED <<file, acked, risks>> /\ req[r].pc = "idle"
    BY <1>3 DEF StartAdd, Arrives
  <2> DEFINE q == [NoRequest EXCEPT !.pc = "append", !.op = "add", !.body = <<u>>]
  <2>3. q.pc # "write" /\ q.op # "delete"
    BY DEF NoRequest
  <2>4. req' = [req EXCEPT ![r] = q]
    BY <2>1
  <2> HIDE DEF q
  <2> QED BY <1>2, <2>2, <2>3, <2>4
<1>4. ASSUME NEW r \in Request, StartReplace(r) PROVE KeptInv'
  <2>1. PICK batch \in Batches :
           req' = [req EXCEPT ![r] =
                     [NoRequest EXCEPT
                      !.pc = "truncate", !.op = "replace", !.body = batch,
                      !.out = Lines(Sift(batch, Body \ {Comment}))]]
    BY <1>4 DEF StartReplace
  <2>2. UNCHANGED <<file, acked, risks>> /\ req[r].pc = "idle"
    BY <1>4 DEF StartReplace, Arrives
  <2> DEFINE q == [NoRequest EXCEPT
                      !.pc = "truncate", !.op = "replace", !.body = batch,
                      !.out = Lines(Sift(batch, Body \ {Comment}))]
  <2>3. q.pc # "write" /\ q.op # "delete"
    BY DEF NoRequest
  <2>4. req' = [req EXCEPT ![r] = q]
    BY <2>1
  <2> HIDE DEF q
  <2> QED BY <1>2, <2>2, <2>3, <2>4
<1>5. ASSUME NEW r \in Request, OpenTruncated(r) PROVE KeptInv'
  <2>1. /\ req' = [req EXCEPT ![r].pc = "write"] /\ file' = Whole(<<>>)
        /\ acked' = acked /\ atRisk' = atRisk /\ unfinished' = FALSE
    BY <1>5 DEF OpenTruncated, Truncate
  <2>2. HalfWritten' /\ file'.newline
    BY <2>1 DEF HalfWritten, Whole, TypeInv
  <2>3. \A p \in Request : /\ req'[p].op = req[p].op
                           /\ req'[p].out = req[p].out /\ req'[p].gone = req[p].gone
    BY <2>1 DEF TypeInv, Requests
  <2> QED BY <2>1, <2>2, <2>3 DEF KeptInv
<1>6. CASE Crash
  <2>1. \A p \in Request : req'[p].pc = "idle" /\ req'[p].op = "none"
    BY <1>6 DEF Crash, NoRequest
  <2>2. ~HalfWritten'
    BY <2>1 DEF HalfWritten
  <2>3. /\ UNCHANGED <<file, acked, unfinished, overlapped>>
        /\ \A v \in acked \ atRisk' : v \in acked \ atRisk /\ ~HalfWritten
    BY <1>6 DEF Crash
  <2> QED BY <2>1, <2>2, <2>3 DEF KeptInv, Subscribed
<1>7. CASE UNCHANGED vars
  BY <1>7 DEF vars, risks, KeptInv, HalfWritten, Subscribed
<1> QED BY <1>1, <1>3, <1>4, <1>5, <1>6, <1>7, KeptAdd, KeptStartDelete, KeptWriteBack
        DEF Next

\* Whatever the requests and however they overlap or die, an acknowledged URL
\* is lost in no way but the four that AddedIsKept names: addURL,
\* replaceURLs and handleURLsByID in http.go.
THEOREM AddedIsKeptHolds == Spec => []AddedIsKept
<1>1. KeptInv => AddedIsKept
  <2>1. Quiet => ~HalfWritten
    BY DEF Quiet, HalfWritten
  <2> QED BY <2>1 DEF KeptInv, AddedIsKept
<1> QED BY <1>1, TypeInit, TypeStep, KeptInit, KeptStep, PTL DEF Spec
-----------------------------------------------------------------------------
(***************************************************************************)
(* The list a client sees.                                                 *)
(***************************************************************************)
LEMMA UrlsOf ==
    ASSUME NEW s \in Seq(Entry)
    PROVE  /\ UrlOf(s) \in Seq(Url)
           /\ Len(UrlOf(s)) = Len(s) /\ DOMAIN UrlOf(s) = DOMAIN s
           /\ \A i \in DOMAIN s : UrlOf(s)[i] = s[i][1]
<1>1. Len(s) \in Nat /\ DOMAIN s = 1..Len(s) /\ \A i \in 1..Len(s) : s[i] \in Entry
  BY LenProperties, ElementOfSeq
<1>2. \A i \in 1..Len(s) : s[i][1] \in Url
  BY <1>1, Entries
<1>3. UrlOf(s) = [i \in 1..Len(s) |-> s[i][1]]
  BY <1>1 DEF UrlOf
<1>4. [i \in 1..Len(s) |-> s[i][1]] \in Seq(Url)
  BY <1>1, <1>2, IsASeq
<1>5. DOMAIN UrlOf(s) = 1..Len(UrlOf(s)) /\ Len(UrlOf(s)) \in Nat
  BY <1>3, <1>4, LenProperties
<1>6. Len(UrlOf(s)) = Len(s)
  BY <1>1, <1>3, <1>5
<1> QED BY <1>1, <1>3, <1>4, <1>6

LEMMA NoUrls == UrlOf(<<>>) = <<>>
<1>1. <<>> \in Seq(Entry) /\ Len(<<>>) = 0
  BY EmptySeq
<1>2. UrlOf(<<>>) \in Seq(Url) /\ Len(UrlOf(<<>>)) = 0
  BY <1>1, UrlsOf
<1> QED BY <1>2, EmptySeq

LEMMA UrlsAppended ==
    ASSUME NEW s \in Seq(Entry), NEW u \in Url
    PROVE  UrlOf(Append(s, <<u>>)) = Append(UrlOf(s), u)
<1> DEFINE t == Append(s, <<u>>)
           us == Append(UrlOf(s), u)
<1>1. /\ t \in Seq(Entry) /\ Len(t) = Len(s) + 1 /\ t[Len(s) + 1] = <<u>>
      /\ \A i \in 1..Len(s) : t[i] = s[i]
  BY Entries, AppendProperties
<1>2. /\ UrlOf(s) \in Seq(Url) /\ Len(UrlOf(s)) = Len(s)
      /\ \A i \in 1..Len(s) : UrlOf(s)[i] = s[i][1]
  BY UrlsOf, LenProperties
<1>3. /\ us \in Seq(Url) /\ Len(us) = Len(s) + 1 /\ us[Len(s) + 1] = u
      /\ \A i \in 1..Len(s) : us[i] = s[i][1]
  BY <1>2, AppendProperties
<1> HIDE DEF t, us
<1>4. /\ UrlOf(t) \in Seq(Url) /\ Len(UrlOf(t)) = Len(s) + 1
      /\ \A i \in 1..(Len(s) + 1) : UrlOf(t)[i] = t[i][1]
  BY <1>1, UrlsOf, LenProperties
<1>5. Len(s) \in Nat /\ <<u>>[1] = u
  BY LenProperties
<1>6. \A i \in 1..(Len(s) + 1) : UrlOf(t)[i] = us[i]
  BY <1>1, <1>3, <1>4, <1>5
<1>7. UrlOf(t) = us
  BY <1>3, <1>4, <1>6, SeqEqual
<1> QED BY <1>7 DEF t, us

LEMMA UrlsWithout ==
    ASSUME NEW s \in Seq(Entry), NEW id \in DOMAIN s
    PROVE  /\ id \in DOMAIN UrlOf(s)
           /\ UrlOf(WithoutID(s, id)) = WithoutID(UrlOf(s), id)
<1> DEFINE t == WithoutID(s, id)
           us == WithoutID(UrlOf(s), id)
<1>1. /\ t \in Seq(Entry) /\ Len(t) = Len(s) - 1
      /\ \A i \in 1..(Len(s) - 1) : t[i] = IF i < id THEN s[i] ELSE s[i + 1]
  BY Deleted
<1>2. /\ UrlOf(s) \in Seq(Url) /\ Len(UrlOf(s)) = Len(s)
      /\ DOMAIN UrlOf(s) = DOMAIN s /\ DOMAIN s = 1..Len(s)
      /\ \A i \in 1..Len(s) : UrlOf(s)[i] = s[i][1]
  BY UrlsOf, LenProperties
<1>3. /\ us \in Seq(Url) /\ Len(us) = Len(s) - 1
      /\ \A i \in 1..(Len(s) - 1) :
            us[i] = IF i < id THEN UrlOf(s)[i] ELSE UrlOf(s)[i + 1]
  <2> DEFINE v == UrlOf(s)
  <2>1. v \in Seq(Url) /\ id \in DOMAIN v /\ Len(v) = Len(s)
    BY <1>2
  <2> HIDE DEF v
  <2>2. /\ WithoutID(v, id) \in Seq(Url) /\ Len(WithoutID(v, id)) = Len(v) - 1
        /\ \A i \in 1..(Len(v) - 1) :
              WithoutID(v, id)[i] = IF i < id THEN v[i] ELSE v[i + 1]
    BY <2>1, Deleted
  <2>3. /\ WithoutID(v, id) \in Seq(Url) /\ Len(WithoutID(v, id)) = Len(s) - 1
        /\ \A i \in 1..(Len(s) - 1) :
              WithoutID(v, id)[i] = IF i < id THEN v[i] ELSE v[i + 1]
    BY <2>1, <2>2
  <2> QED BY <2>3 DEF v
<1> HIDE DEF t, us
<1>4. /\ UrlOf(t) \in Seq(Url) /\ Len(UrlOf(t)) = Len(s) - 1
      /\ \A i \in 1..(Len(s) - 1) : UrlOf(t)[i] = t[i][1]
  BY <1>1, UrlsOf, LenProperties
<1>5. Len(s) \in Nat
  BY LenProperties
<1>6. ASSUME NEW i \in 1..(Len(s) - 1) PROVE UrlOf(t)[i] = us[i]
  <2>1. i \in 1..Len(s) /\ i + 1 \in 1..Len(s)
    BY <1>5
  <2> QED BY <1>1, <1>2, <1>3, <1>4, <2>1
<1>7. UrlOf(t) = us
  BY <1>3, <1>4, <1>6, SeqEqual
<1> QED BY <1>2, <1>7 DEF t, us

LEMMA CurrentType == TypeInv => Current \in Seq(Entry)
BY Loads, EmptySeq DEF TypeInv, Current

LEMMA ListInit == Init => ListInv
BY DEF Init, ListInv, NoRequest

\* While a request starts, the list stays as it is.
LEMMA ListStarts ==
    ASSUME TypeInv, NEW r \in Request, NEW q,
           req' = [req EXCEPT ![r] = q], req[r].pc # "write", q.pc # "write",
           UNCHANGED <<file, before, overlapped>>
    PROVE  Current' = Current
<1>1. HalfWritten' <=> HalfWritten
  BY SameHalf
<1> QED BY <1>1 DEF Current

\* A request that overlaps a rewrite may lose the list; another PUT or DELETE
\* is in flight then.
LEMMA ListLost ==
    ASSUME TypeInv, NEW r \in Request, Exposed(r), overlapped'
    PROVE  UL!Next
<1>1. req[r].op \in {"delete", "replace"}
  BY DEF Exposed, TypeInv, WorkedOut
<1>2. UrlOf(Current') = <<>>
  BY NoUrls DEF Current
<1>3. UL!Lose(req[r])
  BY <1>1, <1>2 DEF UL!Lose
<1> QED BY <1>3 DEF UL!Next

LEMMA ListAdd ==
    ASSUME TypeInv, KeptInv, ListInv, NEW r \in Request, AddURL(r)
    PROVE  ListInv' /\ (UL!Next \/ UNCHANGED UrlOf(Current))
<1>1. PICK u \in Url : req[r].body = <<u>>
  BY DEF AddURL, TypeInv, WorkedOut
<1>2. req[r].body[1] = u /\ req[r].op = "add" /\ req[r].pc = "append"
  BY <1>1 DEF AddURL, TypeInv, WorkedOut
<1>3. overlapped' = (overlapped \/ \E q \in Request : Exposed(q))
  BY DEF AddURL
<1>4. CASE overlapped
  BY <1>3, <1>4 DEF ListInv, Current
<1>5. CASE \E q \in Request : Exposed(q)
  BY <1>3, <1>5, ListLost DEF ListInv
<1>6. CASE ~overlapped /\ ~\E q \in Request : Exposed(q)
  <2>1. ~HalfWritten /\ ~overlapped'
    BY <1>3, <1>6 DEF HalfWritten, Exposed
  <2>2. \A p \in Request : req'[p].pc # "write" /\ req'[p].op # "delete"
    BY <1>6 DEF Exposed, AddURL, Finishes, NoRequest, TypeInv
  <2>3. ~HalfWritten'
    BY <2>2 DEF HalfWritten
  <2>4. LoadURLs(file') = Append(LoadURLs(file), <<u>>)
    BY <1>2, <1>6, AppendLoads DEF AddURL, KeptInv, TypeInv
  <2>5. Current' = Append(Current, <<u>>)
    BY <1>6, <2>1, <2>3, <2>4 DEF Current
  <2>6. UrlOf(Current)' = Append(UrlOf(Current), u)
    BY <2>5, CurrentType, UrlsAppended
  <2>7. UL!Add(req[r])
    BY <1>2, <2>6 DEF UL!Add
  <2> QED BY <2>2, <2>7 DEF ListInv, UL!Next
<1> QED BY <1>4, <1>5, <1>6

LEMMA ListStartDelete ==
    ASSUME TypeInv, ListInv, NEW r \in Request, StartDelete(r)
    PROVE  ListInv' /\ UNCHANGED Current
<1> DEFINE list == LoadURLs(file)
<1>1. PICK id \in DOMAIN list :
         req' = [req EXCEPT ![r] =
                   [NoRequest EXCEPT
                    !.pc = "truncate", !.op = "delete", !.id = id,
                    !.out = WithoutID(list, id),
                    !.gone = list[id]]]
  BY DEF StartDelete
<1>2. /\ req'[r].out = WithoutID(list, id) /\ req'[r].id = id
      /\ req'[r].op = "delete" /\ req'[r].pc = "truncate"
      /\ \A p \in Request \ {r} : req'[p] = req[p]
  BY <1>1 DEF NoRequest, TypeInv
<1>3. HalfWritten' <=> HalfWritten
  <2>1. \A p \in Request : req'[p].pc = "write" <=> req[p].pc = "write"
    BY <1>2 DEF StartDelete, Arrives
  <2> QED BY <2>1 DEF HalfWritten
<1>4. Current' = Current
  BY <1>3 DEF Current, StartDelete
<1>5. ASSUME ~overlapped PROVE Current = list
  <2>1. ~HalfWritten
    <3>1. SUFFICES ASSUME file.lines = <<>> PROVE FALSE
      BY <1>5 DEF HalfWritten, ListInv
    <3>2. list = <<>>
      BY <3>1, SiftEmpty DEF LoadURLs
    <3> QED BY <3>2
  <2> QED BY <1>5, <2>1 DEF Current
<1> HIDE DEF list
<1>6. ASSUME ~overlapped', NEW p \in Request
      PROVE  /\ req'[p].pc = "write" => file'.lines = <<>>
             /\ req'[p].op = "delete" =>
                   /\ req'[p].id \in DOMAIN Current'
                   /\ req'[p].out = WithoutID(Current', req'[p].id)
  <2>1. ~overlapped /\ file' = file
    BY <1>6 DEF StartDelete
  <2>2. CASE p = r
    BY <1>2, <1>4, <1>5, <2>1, <2>2
  <2>3. CASE p # r
    BY <1>2, <1>4, <2>1, <2>3 DEF ListInv
  <2> QED BY <2>2, <2>3
<1> QED BY <1>4, <1>6 DEF ListInv

LEMMA ListOpen ==
    ASSUME TypeInv, ListInv, NEW r \in Request, OpenTruncated(r)
    PROVE  ListInv' /\ (UL!Next \/ UNCHANGED UrlOf(Current))
<1>1. overlapped' = (overlapped \/ \E q \in Request \ {r} : Exposed(q))
  BY DEF OpenTruncated, Overlaps
<1>2. CASE overlapped
  BY <1>1, <1>2 DEF ListInv, Current
<1>3. CASE \E q \in Request \ {r} : Exposed(q)
  BY <1>1, <1>3, ListLost DEF ListInv
<1>4. CASE ~overlapped /\ ~\E q \in Request \ {r} : Exposed(q)
  <2>1. /\ file' = Whole(<<>>) /\ before' = LoadURLs(file)
        /\ req' = [req EXCEPT ![r].pc = "write"] /\ req[r].pc = "truncate"
    BY DEF OpenTruncated, Truncate
  <2>2. ~HalfWritten
    BY <1>4, <2>1 DEF HalfWritten, Exposed
  <2>3. HalfWritten'
    BY <2>1 DEF HalfWritten, TypeInv
  <2>4. Current' = Current
    BY <1>1, <1>4, <2>1, <2>2, <2>3 DEF Current
  <2>5. file'.lines = <<>>
    BY <2>1 DEF Whole
  <2>6. \A p \in Request : /\ req'[p].op = req[p].op
                           /\ req'[p].out = req[p].out /\ req'[p].id = req[p].id
    BY <2>1 DEF TypeInv, Requests
  <2> QED BY <1>4, <2>4, <2>5, <2>6 DEF ListInv
<1> QED BY <1>2, <1>3, <1>4

LEMMA ListWriteBack ==
    ASSUME TypeInv, ListInv, NEW r \in Request, WriteBack(r)
    PROVE  ListInv' /\ (UL!Next \/ UNCHANGED UrlOf(Current))
<1>1. overlapped' = (overlapped \/ \E q \in Request \ {r} : Exposed(q))
  BY DEF WriteBack, Overlaps
<1>2. CASE overlapped
  BY <1>1, <1>2 DEF ListInv, Current
<1>3. CASE \E q \in Request \ {r} : Exposed(q)
  BY <1>1, <1>3, ListLost DEF ListInv
<1>4. CASE ~overlapped /\ ~\E q \in Request \ {r} : Exposed(q)
  <2> DEFINE q == req[r]
  <2>1. /\ q.pc = "write" /\ WorkedOut(q) /\ q.op \in {"replace", "delete"}
        /\ q.out \in Seq(Line) /\ file \in Contents
        /\ file' = WriteOver(file, q.out)
    BY DEF WriteBack, TypeInv, WorkedOut, Requests
  <2>2. q.out \in Seq(Entry)
    BY <2>1, Written, Replaced DEF WorkedOut
  <2>3. file.lines = <<>>
    BY <1>4, <2>1 DEF ListInv
  <2>4. LoadURLs(file') = q.out
    BY <2>1, <2>2, <2>3, WriteOverLoads
  <2>5. \A p \in Request : req'[p].pc # "write" /\ req'[p].op # "delete"
    BY <1>4 DEF Exposed, WriteBack, Finishes, NoRequest, TypeInv
  <2>6. Current' = q.out
    BY <1>1, <1>4, <2>4, <2>5 DEF Current, HalfWritten
  <2>7. CASE q.op = "replace"
    <3>1. /\ q.body \in Seq(Url \cup {Comment})
          /\ q.out = Lines(Sift(q.body, Body \ {Comment}))
      BY <2>1, <2>7 DEF WorkedOut
    <3>2. UrlOf(q.out) = Sift(q.body, Url)
      BY <3>1, Written, Replaced
    <3>3. UL!Replace(q)
      BY <2>6, <2>7, <3>2 DEF UL!Replace, UL!Sift, Sift
    <3> QED BY <2>5, <3>3 DEF ListInv, UL!Next
  <2>8. CASE q.op = "delete"
    <3>1. q.id \in DOMAIN Current /\ q.out = WithoutID(Current, q.id)
      BY <1>4, <2>8 DEF ListInv
    <3>2. /\ q.id \in DOMAIN UrlOf(Current)
          /\ UrlOf(q.out) = WithoutID(UrlOf(Current), q.id)
      BY <3>1, CurrentType, UrlsWithout
    <3>3. UL!Remove(q)
      BY <2>6, <2>8, <3>2 DEF UL!Remove, UL!Without, WithoutID
    <3> QED BY <2>5, <3>3 DEF ListInv, UL!Next
  <2> QED BY <2>1, <2>7, <2>8
<1> QED BY <1>2, <1>3, <1>4

LEMMA ListCrash ==
    ASSUME TypeInv, ListInv, Crash
    PROVE  ListInv' /\ (UL!Next \/ UNCHANGED UrlOf(Current))
<1>1. \A p \in Request : req'[p].pc = "idle" /\ req'[p].op = "none"
  BY DEF Crash, NoRequest
<1>2. ~HalfWritten' /\ file' = file /\ overlapped' = overlapped
  BY <1>1 DEF HalfWritten, Crash
<1>3. CASE overlapped \/ ~HalfWritten
  <2>1. Current' = Current
    BY <1>2, <1>3 DEF Current
  <2> QED BY <1>1, <2>1 DEF ListInv
<1>4. CASE ~overlapped /\ HalfWritten
  <2>1. PICK r \in Request : req[r].pc = "write"
    BY <1>4 DEF HalfWritten
  <2>2. file.lines = <<>> /\ req[r].op \in {"delete", "replace"}
    BY <1>4, <2>1 DEF ListInv, TypeInv, WorkedOut
  <2>3. Current' = <<>>
    BY <1>2, <1>4, <2>2, SiftEmpty DEF Current, LoadURLs
  <2>4. UL!Lose(req[r])
    BY <2>2, <2>3, NoUrls DEF UL!Lose
  <2> QED BY <1>1, <2>4 DEF UL!Next, ListInv
<1> QED BY <1>3, <1>4

LEMMA ListStep ==
    TypeInv /\ KeptInv /\ ListInv /\ [Next]_vars
       => ListInv' /\ (UL!Next \/ UNCHANGED UrlOf(Current))
<1> SUFFICES ASSUME TypeInv, KeptInv, ListInv, [Next]_vars
             PROVE  ListInv' /\ (UL!Next \/ UNCHANGED UrlOf(Current))
  OBVIOUS
<1>1. ASSUME UNCHANGED <<file, req, before, overlapped>>
      PROVE  ListInv' /\ UNCHANGED Current
  BY <1>1 DEF ListInv, Current, HalfWritten
<1>2. ASSUME NEW r \in Request, List(r) PROVE ListInv' /\ UNCHANGED Current
  BY <1>1, <1>2 DEF List, risks
<1>3. ASSUME NEW r \in Request, NEW q,
             req' = [req EXCEPT ![r] = q], q.pc # "write", q.op # "delete",
             req[r].pc = "idle", UNCHANGED <<file, before, overlapped>>
      PROVE  ListInv' /\ UNCHANGED Current
  <2>1. Current' = Current
    BY <1>3, ListStarts
  <2>2. \A p \in Request : /\ req'[p].pc = "write" => req[p] = req'[p]
                           /\ req'[p].op = "delete" => req[p] = req'[p]
    BY <1>3 DEF TypeInv
  <2> QED BY <1>3, <2>1, <2>2 DEF ListInv
<1>4. ASSUME NEW r \in Request, StartAdd(r) PROVE ListInv' /\ UNCHANGED Current
  <2>1. PICK u \in Url :
           req' = [req EXCEPT ![r] = [NoRequest EXCEPT !.pc = "append",
                                      !.op = "add", !.body = <<u>>]]
    BY <1>4 DEF StartAdd
  <2> DEFINE q == [NoRequest EXCEPT !.pc = "append", !.op = "add", !.body = <<u>>]
  <2>2. q.pc # "write" /\ q.op # "delete"
    BY DEF NoRequest
  <2>3. req' = [req EXCEPT ![r] = q]
    BY <2>1
  <2>4. UNCHANGED <<file, before, overlapped>> /\ req[r].pc = "idle"
    BY <1>4 DEF StartAdd, Arrives, risks
  <2> HIDE DEF q
  <2> QED BY <1>3, <2>2, <2>3, <2>4
<1>5. ASSUME NEW r \in Request, StartReplace(r) PROVE ListInv' /\ UNCHANGED Current
  <2>1. PICK batch \in Batches :
           req' = [req EXCEPT ![r] =
                     [NoRequest EXCEPT
                      !.pc = "truncate", !.op = "replace", !.body = batch,
                      !.out = Lines(Sift(batch, Body \ {Comment}))]]
    BY <1>5 DEF StartReplace
  <2> DEFINE q == [NoRequest EXCEPT
                      !.pc = "truncate", !.op = "replace", !.body = batch,
                      !.out = Lines(Sift(batch, Body \ {Comment}))]
  <2>2. q.pc # "write" /\ q.op # "delete"
    BY DEF NoRequest
  <2>3. req' = [req EXCEPT ![r] = q]
    BY <2>1
  <2>4. UNCHANGED <<file, before, overlapped>> /\ req[r].pc = "idle"
    BY <1>5 DEF StartReplace, Arrives, risks
  <2> HIDE DEF q
  <2> QED BY <1>3, <2>2, <2>3, <2>4
<1>6. CASE UNCHANGED vars
  BY <1>1, <1>6 DEF vars, risks
<1> QED BY <1>2, <1>4, <1>5, <1>6, ListAdd, ListStartDelete, ListOpen,
           ListWriteBack, ListCrash DEF Next

\* As long as rewrites have the file for themselves, POST, PUT and DELETE are
\* the operations UrlList promises, for any list and any number of requests.
THEOREM ImplementsListHolds == Spec => ImplementsList
<1>1. TypeInv => UL!Init
  BY CurrentType, UrlsOf DEF UL!Init
<1>2. TypeInv /\ KeptInv /\ ListInv /\ [Next]_vars => [UL!Next]_(UrlOf(Current))
  BY ListStep
<1> QED BY <1>1, <1>2, TypeInit, TypeStep, KeptInit, KeptStep, ListInit, ListStep, PTL
        DEF Spec, ImplementsList, UL!Spec
=============================================================================
