---------------------------- MODULE LossRecovery ----------------------------
(***************************************************************************)
(* What the receiving end of an RTP hop promises about each packet of a    *)
(* stream, whatever the network does: a packet that is missing is asked    *)
(* for a bounded number of times; one that was handed on, or that was      *)
(* passed over, is never asked for again.                                  *)
(***************************************************************************)
EXTENDS Naturals

CONSTANTS
    Packets,
    MaxAsks     \* how often one packet may be asked for

VARIABLES
    status,     \* status[n]: what became of packet n
    asked       \* asked[n]: requests so far, while n is missing

hopVars == <<status, asked>>

Statuses == {"ahead", "missing", "passed", "delivered"}

\* A packet passed over may still arrive by itself; "delivered" is final.
Moves ==
    {"ahead"} \X {"missing", "passed", "delivered"}
        \cup {"missing"} \X {"passed", "delivered"}
        \cup {"passed"} \X {"delivered"}

Init ==
    /\ status = [n \in Packets |-> "ahead"]
    /\ asked = [n \in Packets |-> 0]

\* What a step may do to the status of a packet and to its count of requests.
Moved(old, new, before, after) ==
    /\ old = new \/ <<old, new>> \in Moves
    /\ IF old = "missing" /\ new = "missing"
       THEN after \in {before, before + 1}
       ELSE after = 0

\* One step moves packets on, at most one of them by handing it on, and asks
\* at most once for each that is missing.
Next ==
    /\ status' \in [Packets -> Statuses]
    /\ asked' \in [Packets -> 0 .. MaxAsks]
    /\ \A n \in Packets : Moved(status[n], status'[n], asked[n], asked'[n])
    /\ LET handed == {n \in Packets : status'[n] = "delivered"}
                         \ {n \in Packets : status[n] = "delivered"}
       IN  \A m, n \in handed : m = n

Spec == Init /\ [][Next]_hopVars
=============================================================================
