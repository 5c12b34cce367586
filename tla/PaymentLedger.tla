---------------------------- MODULE PaymentLedger ----------------------------
(* What the list of received M-Pesa payments promises a branch, whatever     *)
(* happens to the tills, their requests and the answers: a payment is known  *)
(* once, one till at a time holds it, it goes to another till only after it  *)
(* was given back, and one order uses it, for good.                          *)
(* MpesaClaims is the protocol that keeps the promise.                       *)
CONSTANTS Payments, Tills, Orders, None

VARIABLES
    known,   \* payments Safaricom has confirmed
    holder,  \* the till that holds each payment, if any
    usedBy   \* the order each payment paid, if any

vars == <<known, holder, usedBy>>

Init ==
    /\ known = {}
    /\ holder = [p \in Payments |-> None]
    /\ usedBy = [p \in Payments |-> None]

Receive(p) ==
    /\ p \notin known
    /\ known' = known \cup {p}
    /\ UNCHANGED <<holder, usedBy>>

Hold(p, t) ==
    /\ p \in known /\ holder[p] = None /\ usedBy[p] = None
    /\ holder' = [holder EXCEPT ![p] = t]
    /\ UNCHANGED <<known, usedBy>>

GiveBack(p) ==
    /\ holder[p] # None
    /\ holder' = [holder EXCEPT ![p] = None]
    /\ UNCHANGED <<known, usedBy>>

\* Held or not: a sale rung with the code typed uses it too.
Use(p, o) ==
    /\ p \in known /\ usedBy[p] = None
    /\ usedBy' = [usedBy EXCEPT ![p] = o]
    /\ holder' = [holder EXCEPT ![p] = None]
    /\ UNCHANGED known

Next ==
    \E p \in Payments :
        \/ Receive(p) \/ GiveBack(p)
        \/ \E t \in Tills : Hold(p, t)
        \/ \E o \in Orders : Use(p, o)

Spec == Init /\ [][Next]_vars
=============================================================================
