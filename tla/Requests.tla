------------------------------ MODULE Requests ------------------------------
(* HTTP requests of the Master's services.  Each is handled by a goroutine  *)
(* of its own: it reads, decides on what it read and writes later, and what *)
(* it carries from one statement to the next is in `req`.  No transaction   *)
(* joins the statements, so that requests overtake each other.              *)
EXTENDS Integers

CONSTANTS
    None,
    Clients,      \* requests in flight at one time
    MaxRequests,  \* bound: requests of a behaviour
    MaxTime       \* bound: steps of the clock

ASSUME RequestsAssumption == MaxRequests \in Nat /\ MaxTime \in Nat

VARIABLES
    req,    \* [Clients -> what the request carries to its next step]
    asked,  \* requests so far
    clock   \* time.Now, in steps

requestsVars == <<req, asked, clock>>

Idle == [op |-> "idle"]

RequestsInit ==
    /\ req = [c \in Clients |-> Idle]
    /\ asked = 0
    /\ clock = 0

(* A request arrives and carries r after its first step.                    *)
Begin(c, r) ==
    /\ req[c] = Idle /\ asked < MaxRequests
    /\ req' = [req EXCEPT ![c] = r]
    /\ asked' = asked + 1
    /\ UNCHANGED clock

(* A request goes on with r.                                                *)
Then(c, r) ==
    /\ req' = [req EXCEPT ![c] = r]
    /\ UNCHANGED <<asked, clock>>

Done(c) == Then(c, Idle)

(* A statement fails, or the caller goes away and its context is cancelled: *)
(* the handler returns, and what it wrote before stays.                     *)
Abandon(c) == req[c] # Idle /\ Done(c)

(* The Master dies or restarts: no request survives.                        *)
DropRequests ==
    /\ req' = [c \in Clients |-> Idle]
    /\ UNCHANGED <<asked, clock>>

Tick ==
    /\ clock < MaxTime
    /\ clock' = clock + 1
    /\ UNCHANGED <<req, asked>>
=============================================================================
