------------------------------ MODULE UrlList ------------------------------
(***************************************************************************)
(* What the URL endpoints of the management API promise: a list of         *)
(* subscriptions that changes only as a request in flight asks for.        *)
(***************************************************************************)
EXTENDS Sifting

CONSTANT Url
VARIABLES
    list,       \* the subscriptions, in the order of the file
    asked       \* what the requests in flight ask for

Without(s, i) == SubSeq(s, 1, i - 1) \o SubSeq(s, i + 1, Len(s))

\* POST appends its URL, DELETE takes out the entry with its id, PUT leaves the
\* URLs of its body.
Add(q)     == q.op = "add" /\ list' = Append(list, q.body[1])
Remove(q)  ==
    /\ q.op = "delete" /\ q.id \in DOMAIN list
    /\ list' = Without(list, q.id)
Replace(q) ==
    /\ q.op = "replace"
    /\ list' = Sift(q.body, Url)

\* A process that dies while it writes the file leaves the empty list.
Lose(q) == q.op \in {"delete", "replace"} /\ list' = <<>>

Init == list \in Seq(Url)

Next == \E q \in asked : Add(q) \/ Remove(q) \/ Replace(q) \/ Lose(q)

Spec == Init /\ [][Next]_list
=============================================================================
