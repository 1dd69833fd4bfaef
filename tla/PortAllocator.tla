--------------------------- MODULE PortAllocator ---------------------------
(***************************************************************************)
(* What concurrency.PortManager promises its callers: a port is lent to    *)
(* one caller at a time.  Which one, and when a caller is turned away, is  *)
(* left open.                                                              *)
(***************************************************************************)
CONSTANTS Client, Port, NoPort
VARIABLE held

AllFree == [c \in Client |-> NoPort]

Lend(c, p) ==
    /\ held[c] = NoPort
    /\ \A d \in Client : held[d] # p
    /\ held' = [held EXCEPT ![c] = p]

TakeBack(c) ==
    /\ held[c] # NoPort
    /\ held' = [held EXCEPT ![c] = NoPort]

Init == held = AllFree
Next == \E c \in Client : TakeBack(c) \/ \E p \in Port : Lend(c, p)
Spec == Init /\ [][Next]_held
=============================================================================
