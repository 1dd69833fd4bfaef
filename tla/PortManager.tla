---------------------------- MODULE PortManager ----------------------------
(***************************************************************************)
(* concurrency.PortManager: ports of [base, base+limit) handed out round   *)
(* robin under a mutex.  Allocate walks the range from the cursor and asks *)
(* the operating system about every port it passes; meanwhile other        *)
(* programs open and close ports as they like.                             *)
(***************************************************************************)
EXTENDS Integers

CONSTANTS
    Client,       \* goroutines that share the manager
    base, limit

ASSUME PortsAssumption ==
    base \in Nat \ {0} /\ limit \in Nat \ {0} /\ "free" \notin Client

Port   == base .. (base + limit - 1)
NoPort == 0

VARIABLES
    mu,           \* who holds the mutex
    allocated,    \* ports marked as allocated
    next,         \* the cursor
    start,        \* where the scan in progress began
    pc,           \* what each client is doing
    held,         \* the port each client was given and did not give back
    busy,         \* ports that other programs listen on
    tried         \* history: ports found unusable by the scan in progress

vars == <<mu, allocated, next, start, pc, held, busy, tried>>

Free == "free"

Init ==
    /\ mu = Free
    /\ allocated = {} /\ next = base /\ start = base
    /\ pc = [c \in Client |-> "out"]
    /\ held = [c \in Client |-> NoPort]
    /\ busy \in SUBSET Port
    /\ tried = {}

\* Another program opens or closes a port.
Elsewhere ==
    /\ \E p \in Port :
          busy' = IF p \in busy THEN busy \ {p} ELSE busy \cup {p}
    /\ UNCHANGED <<mu, allocated, next, start, pc, held, tried>>

Call(c) ==
    /\ pc[c] = "out" /\ held[c] = NoPort
    /\ pc' = [pc EXCEPT ![c] = "lock"]
    /\ UNCHANGED <<mu, allocated, next, start, held, busy, tried>>

Lock(c) ==
    /\ pc[c] = "lock" /\ mu = Free
    /\ mu' = c /\ start' = next /\ tried' = {}
    /\ pc' = [pc EXCEPT ![c] = "scan"]
    /\ UNCHANGED <<allocated, next, held, busy>>

\* The cursor moves on before the port is looked at.
Advance(n) == IF n + 1 >= base + limit THEN base ELSE n + 1

Usable(p) == p \notin allocated /\ p \notin busy

Unlock(c) == mu' = Free /\ pc' = [pc EXCEPT ![c] = "out"]

Take(c) ==
    /\ pc[c] = "scan" /\ Usable(next)
    /\ allocated' = allocated \cup {next}
    /\ held' = [held EXCEPT ![c] = next]
    /\ next' = Advance(next)
    /\ Unlock(c)
    /\ UNCHANGED <<start, busy, tried>>

\* Mutant: a port somebody listens on does not end the scan.
SkipsForEver(c) ==
    /\ pc[c] = "scan" /\ ~Usable(next)
    /\ Advance(next) # start \/ next \notin allocated
    /\ next' = Advance(next)
    /\ tried' = tried \cup {next}
    /\ UNCHANGED <<mu, allocated, start, pc, held, busy>>

Skip(c) ==
    /\ pc[c] = "scan" /\ ~Usable(next)
    /\ Advance(next) # start
    /\ next' = Advance(next)
    /\ tried' = tried \cup {next}
    /\ UNCHANGED <<mu, allocated, start, pc, held, busy>>

\* Mutant: the end of the walk is noticed one port early.
GivesUpEarly(c) ==
    /\ pc[c] = "scan" /\ ~Usable(next)
    /\ Advance(Advance(next)) = start \/ Advance(next) = start
    /\ next' = Advance(next)
    /\ tried' = tried \cup {next}
    /\ Unlock(c)
    /\ UNCHANGED <<allocated, start, held, busy>>

\* The walk is back where it began: "port range exhausted".
Exhausted(c) ==
    /\ pc[c] = "scan" /\ ~Usable(next)
    /\ Advance(next) = start
    /\ next' = Advance(next)
    /\ tried' = tried \cup {next}
    /\ Unlock(c)
    /\ UNCHANGED <<allocated, start, held, busy>>

\* Mutant: a port that is allocated may be reserved as well.
ReservesTwice(c, p) ==
    /\ pc[c] = "out" /\ held[c] = NoPort /\ mu = Free
    /\ allocated' = allocated \cup {p}
    /\ held' = [held EXCEPT ![c] = p]
    /\ UNCHANGED <<mu, next, start, pc, busy, tried>>

\* Reserve takes a given port and does not ask whether it can be bound.
Reserve(c, p) ==
    /\ pc[c] = "out" /\ held[c] = NoPort /\ mu = Free
    /\ p \notin allocated
    /\ allocated' = allocated \cup {p}
    /\ held' = [held EXCEPT ![c] = p]
    /\ UNCHANGED <<mu, next, start, pc, busy, tried>>

Release(c) ==
    /\ pc[c] = "out" /\ held[c] # NoPort /\ mu = Free
    /\ allocated' = allocated \ {held[c]}
    /\ held' = [held EXCEPT ![c] = NoPort]
    /\ UNCHANGED <<mu, next, start, pc, busy, tried>>

Allocate(c) == Lock(c) \/ Take(c) \/ Skip(c) \/ Exhausted(c)

Next ==
    \/ Elsewhere
    \/ \E c \in Client : Call(c) \/ Allocate(c) \/ Release(c)
    \/ \E c \in Client, p \in Port : Reserve(c, p)

Spec == Init /\ [][Next]_vars

\* A goroutine inside Allocate runs on, and sync.Mutex hands itself to a
\* waiter that it has kept for a millisecond.
Fairness ==
    \A c \in Client : /\ SF_vars(Lock(c))
                      /\ WF_vars(Take(c) \/ Skip(c) \/ Exhausted(c))

LiveSpec == Spec /\ Fairness

-----------------------------------------------------------------------------
TypeOK ==
    /\ mu \in Client \cup {Free}
    /\ allocated \subseteq Port /\ next \in Port /\ start \in Port
    /\ pc \in [Client -> {"out", "lock", "scan"}]
    /\ held \in [Client -> Port \cup {NoPort}]
    /\ busy \subseteq Port /\ tried \subseteq Port

\* No port is lent twice, although Allocate, Reserve and Release of many
\* goroutines interleave, and the map holds exactly the ports that are out.
Exclusive ==
    /\ allocated = {held[c] : c \in Client} \ {NoPort}
    /\ \A c, d \in Client : held[c] = held[d] /\ held[c] # NoPort => c = d

\* Allocate reports an exhausted range only after it has met every port of
\* the range allocated or in use, wherever the cursor stood when it began.
RefusesOnlyWhenFull ==
    [][\A c \in Client : Exhausted(c) => tried' = Port]_vars

\* Every call of Allocate returns, whatever other programs do with the ports.
AllocateReturns == \A c \in Client : pc[c] = "lock" ~> pc[c] = "out"

\* The scan is a step of the abstract allocator.
Promise == INSTANCE PortAllocator
ImplementsAllocator == Promise!Spec
=============================================================================
