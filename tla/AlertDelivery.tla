--------------------------- MODULE AlertDelivery ---------------------------
(***************************************************************************)
(* What the alert outbox promises, without claims, leases, batches or      *)
(* crashes: an alert is attempted a bounded number of times, it is settled *)
(* once and for ever, it is called sent only when the provider accepted    *)
(* it, and it is given up only when the provider refused it or every       *)
(* attempt was used.  AlertOutbox implements this specification.           *)
(***************************************************************************)
EXTENDS Naturals

CONSTANTS Keys, MaxAttempts

VARIABLES
    status,     \* "open", "sent" or "dead"
    tries,      \* attempts used
    delivered,  \* the attempts whose message the provider accepted
    rejected    \* alerts the provider refused permanently

vars == <<status, tries, delivered, rejected>>

Init ==
    /\ status = [k \in Keys |-> "open"]
    /\ tries = [k \in Keys |-> 0]
    /\ delivered = [k \in Keys |-> {}]
    /\ rejected = {}

Try(k) ==
    /\ status[k] = "open"
    /\ tries[k] < MaxAttempts
    /\ tries' = [tries EXCEPT ![k] = @ + 1]
    /\ UNCHANGED <<status, delivered, rejected>>

\* Also after the alert was settled: the send of a lost claim cannot be
\* called back.
Accept(k) ==
    /\ \E n \in 1..tries[k] :
        delivered' = [delivered EXCEPT ![k] = @ \cup {n}]
    /\ UNCHANGED <<status, tries, rejected>>

Refuse(k) ==
    /\ tries[k] > 0
    /\ rejected' = rejected \cup {k}
    /\ UNCHANGED <<status, tries, delivered>>

Settle(k) ==
    /\ status[k] = "open"
    /\ delivered[k] # {}
    /\ status' = [status EXCEPT ![k] = "sent"]
    /\ UNCHANGED <<tries, delivered, rejected>>

GiveUp(k) ==
    /\ status[k] = "open"
    /\ tries[k] = MaxAttempts \/ k \in rejected
    /\ status' = [status EXCEPT ![k] = "dead"]
    /\ UNCHANGED <<tries, delivered, rejected>>

Next == \E k \in Keys :
    Try(k) \/ Accept(k) \/ Refuse(k) \/ Settle(k) \/ GiveUp(k)

Spec == Init /\ [][Next]_vars

=============================================================================
