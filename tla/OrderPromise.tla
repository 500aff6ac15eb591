---------------------------- MODULE OrderPromise ----------------------------
(***************************************************************************)
(* What the live order path promises, whatever happens to the process, to  *)
(* the network or to the order of the callbacks:                           *)
(*                                                                         *)
(*   - an intent is committed to a broker at most once, and only while the *)
(*     safety gates of its source and broker are open;                     *)
(*   - an idempotency key is spent by at most one committed intent;        *)
(*   - a symbol has at most one committed order that may still change the  *)
(*     account.                                                            *)
(*                                                                         *)
(* LiveOrders implements this module (LiveOrders!Promise).                 *)
(***************************************************************************)

CONSTANTS
    Intents,     \* identities of order intents
    Requests,    \* what a caller may ask for: [source, key, symbol, side]
    NoRequest,   \* the request of an intent that was never committed
    Enabled      \* the requests the environment variables switch on

VARIABLES
    armed,       \* runtime mode is live and the kill switch is off
    order,       \* per intent: "idle", "live" or "over"
    about        \* per intent: the request it was committed for

vars == <<armed, order, about>>

SameKey(q, p) == q.source = "manual" /\ p.source = "manual" /\ q.key = p.key

Init ==
    /\ armed \in BOOLEAN
    /\ order = [i \in Intents |-> "idle"]
    /\ about = [i \in Intents |-> NoRequest]

\* The user, or a corrupted settings file, changes the runtime gates.
Arm ==
    /\ armed' \in BOOLEAN
    /\ UNCHANGED <<order, about>>

\* The order is written down as about to be sent: from here on it may exist.
Commit(i, q) ==
    /\ armed
    /\ q \in Enabled
    /\ order[i] = "idle"
    /\ \A j \in Intents : order[j] = "live" => about[j].symbol # q.symbol
    /\ \A j \in Intents : order[j] # "idle" => ~SameKey(about[j], q)
    /\ order' = [order EXCEPT ![i] = "live"]
    /\ about' = [about EXCEPT ![i] = q]
    /\ UNCHANGED armed

\* An intent is refused before it was ever committed.  Its key stays spent.
Decline(i, q) ==
    /\ order[i] = "idle"
    /\ \A j \in Intents : order[j] # "idle" => ~SameKey(about[j], q)
    /\ order' = [order EXCEPT ![i] = "over"]
    /\ about' = [about EXCEPT ![i] = q]
    /\ UNCHANGED armed

\* The broker is done with the order (filled, cancelled, refused), or it is
\* certain that the order never left.
Conclude(i) ==
    /\ order[i] = "live"
    /\ order' = [order EXCEPT ![i] = "over"]
    /\ UNCHANGED <<armed, about>>

Next ==
    \/ Arm
    \/ \E i \in Intents :
         \/ Conclude(i)
         \/ \E q \in Requests : Commit(i, q) \/ Decline(i, q)

Spec == Init /\ [][Next]_vars
=============================================================================
