----------------------------- MODULE MpesaClaims -----------------------------
(* M-Pesa payments a customer made to the branch's number (C2B): Safaricom   *)
(* tells the cloud, every till of the branch lists those nobody has taken,   *)
(* and a cashier taps one onto the M-Pesa leg of a bill                      *)
(* (MpesaReceivedPanel.tsx, main/mpesaC2b.ts, routes/c2b.ts,                 *)
(* lib/c2bStore.ts, lib/c2bOrders.ts).  Requests and their answers are steps *)
(* of their own; the cloud's claim is three database statements.  A payment  *)
(* here pays any leg exactly, so every leg would list it.                    *)
EXTENDS Naturals, FiniteSets

CONSTANTS Payments,  \* M-Pesa codes
          Legs,      \* M-Pesa legs, each with its panel and its saleRef
          Tills,
          TillOf,    \* [Legs -> Tills]
          None,
          Split,     \* a bill may be split: two legs of a till open together
          Typed,     \* legs whose code the cashier may type instead
          Faulty,       \* what may happen: "ask", "claim", "release", "restart", "mark", "owner"
          MaxFaults  \* how often (bound)

ASSUME LegsAssumption ==
    /\ TillOf \in [Legs -> Tills] /\ Typed \subseteq Legs
    /\ None \notin Payments \cup Legs \cup Tills
ASSUME FaultsAssumption ==
    /\ Split \in BOOLEAN /\ MaxFaults \in Nat
    /\ Faulty \subseteq {"ask", "claim", "release", "restart", "mark", "owner"}

VARIABLES
  payment,  \* [Payments -> [st, by, ref, order]]: mpesa_c2b_payments
  panel,    \* [Legs -> [st, shown, taken, code]]: the leg on its till's payment screen
  last,     \* [Tills -> payments]: the list its client got last
  claim,    \* [Legs -> [p, at, lost]]: the claim a leg waits for, or gave up on
  releases, \* <<leg, payment>>: releases on their way
  arrived,  \* sold legs whose order the cloud has
  faults,
  loose,    \* payments the owner released, or tapped again at the till that has them
            \* (on another leg of its, or beside its own release)
  orphans   \* payments whose claim was answered when its panel was closed

history == <<loose, orphans>>
vars == <<payment, panel, last, claim, releases, arrived, faults, history>>

NoClaim == [p |-> None, at |-> "none", lost |-> FALSE]
Free == [st |-> "received", by |-> None, ref |-> None, order |-> None]
Row == [st: {"none", "received", "held", "used"}, by: Tills \cup {None},
        ref: Legs \cup {None}, order: Legs \cup {None}]
Panel == [st: {"none", "open", "sold", "closed"}, shown: SUBSET Payments,
          taken: Payments \cup {None}, code: Payments \cup {None}]
Claim == [p: Payments \cup {None}, at: {"none", "first", "read", "again", "ok", "refused"},
          lost: BOOLEAN]
TypeOK ==
    /\ payment \in [Payments -> Row] /\ panel \in [Legs -> Panel]
    /\ last \in [Tills -> SUBSET Payments] /\ claim \in [Legs -> Claim]
    /\ releases \subseteq Legs \X Payments /\ arrived \subseteq Legs
    /\ faults \in 0..MaxFaults /\ loose \subseteq Payments /\ orphans \subseteq Payments

Init ==
    /\ payment = [p \in Payments |-> [Free EXCEPT !.st = "none"]]
    /\ panel = [l \in Legs |-> [st |-> "none", shown |-> {}, taken |-> None, code |-> None]]
    /\ last = [t \in Tills |-> {}] /\ claim = [l \in Legs |-> NoClaim]
    /\ releases = {} /\ arrived = {} /\ faults = 0 /\ loose = {} /\ orphans = {}

Fault(kind) == kind \in Faulty /\ faults < MaxFaults /\ faults' = faults + 1

-----------------------------------------------------------------------------
(* THE CLOUD                                                                 *)

CloudOnly == UNCHANGED <<panel, last, releases, arrived, faults>>
Set(p, row) == payment' = [payment EXCEPT ![p] = row]
\* Mutant: held by the bill, not by the till.
HeldByLeg(l) == [st |-> "held", by |-> l, ref |-> l, order |-> None]
Held(l) == [st |-> "held", by |-> TillOf[l], ref |-> l, order |-> None]

\* Mutant: Safaricom's retry writes the row again.
KeepsAlways(p) == TRUE
Keeps(p) == payment[p].st = "none"
(* POST /confirm: kept once per code, Safaricom may send it again            *)
(* (keepPayment, ignoreDuplicates).                                          *)
Confirm(p) ==
    /\ Keeps(p) /\ Set(p, Free)
    /\ CloudOnly /\ UNCHANGED <<claim, history>>

\* Mutant: the update asks only that it is not used.
WaitingOrHeld(p) == payment[p].st # "used"
Waiting(p) == payment[p].st = "received"
(* claimPayment, one step per statement: taken if nobody has it; else the    *)
(* row is read; taken again if this till holds it.                           *)
ClaimFirst(l) ==
    /\ claim[l].at = "first"
    /\ LET p == claim[l].p IN
       IF Waiting(p)
       THEN Set(p, Held(l)) /\ claim' = [claim EXCEPT ![l].at = "ok"]
       ELSE UNCHANGED payment /\ claim' = [claim EXCEPT ![l].at = "read"]
    /\ CloudOnly /\ UNCHANGED history
(* claimRefusal: used, or held by another till.                              *)
Refused(l, p) ==
    \/ payment[p].st = "used"
    \/ payment[p].st = "held" /\ payment[p].by # TillOf[l]
ClaimRead(l) ==
    /\ claim[l].at = "read"
    /\ claim' = [claim EXCEPT ![l].at = IF Refused(l, claim[l].p) THEN "refused" ELSE "again"]
    /\ CloudOnly /\ UNCHANGED <<payment, history>>
\* Mutant: the last update asks only that the till was the holder.
StillMineOnce(l, p) == payment[p].by = TillOf[l]
StillMine(l, p) == payment[p].st = "held" /\ payment[p].by = TillOf[l]
ClaimAgain(l) ==
    /\ claim[l].at = "again"
    /\ LET p == claim[l].p IN
       IF StillMine(l, p)
       THEN Set(p, Held(l)) /\ claim' = [claim EXCEPT ![l].at = "ok"]
       ELSE UNCHANGED payment /\ claim' = [claim EXCEPT ![l].at = "refused"]
    /\ CloudOnly /\ UNCHANGED history

Own(l, p) == payment[p].st = "held" /\ payment[p].by = TillOf[l] /\ payment[p].ref = l
(* releasePayment: only what this till holds for this very leg.              *)
Release(l, p) ==
    /\ <<l, p>> \in releases /\ releases' = releases \ {<<l, p>>}
    /\ IF Own(l, p) THEN Set(p, Free) ELSE UNCHANGED payment
    /\ UNCHANGED <<panel, last, claim, arrived, faults, history>>
(* The owner frees a payment a till holds (releaseHeldPayment).              *)
OwnerRelease(p) ==
    /\ payment[p].st = "held" /\ Set(p, Free) /\ Fault("owner")
    /\ loose' = loose \cup {p} /\ UNCHANGED <<panel, last, claim, releases, arrived, orphans>>

NotUsedYet(p) == payment[p].st # "used"
(* The sale's order reaches the cloud and its payment is marked used,        *)
(* whoever holds it, unless it is already (markPaymentsUsed); a failed mark  *)
(* is only logged, and a handler that died before it is answered as done on  *)
(* the retry.                                                                *)
OrderArrives(l) ==
    /\ panel[l].st = "sold" /\ l \notin arrived /\ arrived' = arrived \cup {l}
    /\ \/ /\ LET p == panel[l].code IN
             IF p # None /\ payment[p].st # "none" /\ NotUsedYet(p)
             THEN Set(p, [payment[p] EXCEPT !.st = "used", !.order = l]) ELSE UNCHANGED payment
          /\ UNCHANGED faults
       \/ Fault("mark") /\ UNCHANGED payment
    /\ UNCHANGED <<panel, last, claim, releases, history>>

-----------------------------------------------------------------------------
(* A TILL'S PAYMENT SCREEN                                                   *)

Screen == UNCHANGED <<payment, arrived>>
Open(l) == panel[l].st = "open"
(* The M-Pesa leg's panel opens.                                             *)
OpenPanel(l) ==
    /\ panel[l].st = "none"
    /\ Split \/ \A k \in Legs : TillOf[k] = TillOf[l] => ~Open(k)
    /\ panel' = [panel EXCEPT ![l].st = "open"]
    /\ Screen /\ UNCHANGED <<last, claim, releases, faults, history>>
(* It asks for the payments nobody took (list); when the ask fails, the list *)
(* the till got last stands.                                                 *)
Received == {p \in Payments : payment[p].st = "received"}
Ask(l) ==
    /\ Open(l) /\ panel[l].shown # Received
    /\ panel' = [panel EXCEPT ![l].shown = Received]
    /\ last' = [last EXCEPT ![TillOf[l]] = Received]
    /\ Screen /\ UNCHANGED <<claim, releases, faults, history>>
AskFails(l) ==
    /\ Open(l) /\ panel[l].shown # last[TillOf[l]] /\ Fault("ask")
    /\ panel' = [panel EXCEPT ![l].shown = last[TillOf[l]]]
    /\ Screen /\ UNCHANGED <<last, claim, releases, history>>
(* The cashier taps a payment: it is claimed; one tap at a time.             *)
Tap(l, p) ==
    /\ Open(l) /\ panel[l].taken = None /\ claim[l] = NoClaim /\ p \in panel[l].shown
    /\ claim' = [claim EXCEPT ![l] = [NoClaim EXCEPT !.p = p, !.at = "first"]]
    /\ loose' = IF \E k \in Legs : TillOf[k] = TillOf[l] /\ (<<k, p>> \in releases \/ panel[k].taken = p \/ claim[k].p = p)
                THEN loose \cup {p} ELSE loose
    /\ Screen /\ UNCHANGED <<panel, last, releases, faults, orphans>>
(* The answer: the payment is on the leg, or leaves its list.  On a screen   *)
(* that was closed nothing happens.                                          *)
Answered(l) ==
    IF claim[l].at = "ok" THEN [panel[l] EXCEPT !.taken = claim[l].p, !.code = claim[l].p]
    ELSE [panel[l] EXCEPT !.shown = @ \ {claim[l].p}]
Answer(l) ==
    /\ claim[l].at \in {"ok", "refused"} /\ claim' = [claim EXCEPT ![l] = NoClaim]
    /\ panel' = [panel EXCEPT ![l] = IF ~Open(l) \/ claim[l].lost THEN @ ELSE Answered(l)]
    /\ orphans' = IF claim[l].at = "ok" /\ ~Open(l) THEN orphans \cup {claim[l].p} ELSE orphans
    /\ Screen /\ UNCHANGED <<last, releases, faults, loose>>
(* No answer reaches the till in time; the claim goes on.                    *)
AnswerLost(l) ==
    /\ Open(l) /\ claim[l] # NoClaim /\ ~claim[l].lost /\ Fault("claim")
    /\ claim' = [claim EXCEPT ![l].lost = TRUE]
    /\ panel' = [panel EXCEPT ![l].shown = @ \ {claim[l].p}]
    /\ Screen /\ UNCHANGED <<last, releases, history>>
\* Mutant: a payment taken off its leg stays with the till.
GivenBackNever(l) == {}
GivenBack(l) == IF panel[l].taken = None THEN {} ELSE {<<l, panel[l].taken>>}
SendRelease(l) ==
    \/ releases' = releases \cup GivenBack(l) /\ UNCHANGED faults
    \/ GivenBack(l) # {} /\ Fault("release") /\ UNCHANGED releases
(* The payment is taken off the leg.                                         *)
TakeOff(l) ==
    /\ Open(l) /\ panel[l].taken # None /\ SendRelease(l)
    /\ panel' = [panel EXCEPT ![l].taken = None, ![l].code = None]
    /\ Screen /\ UNCHANGED <<last, claim, history>>
(* Another code is typed over it, or typed at once.                          *)
TypeCode(l, p) ==
    /\ l \in Typed /\ Open(l) /\ panel[l].code # p /\ SendRelease(l)
    /\ panel' = [panel EXCEPT ![l].taken = None, ![l].code = p]
    /\ Screen /\ UNCHANGED <<last, claim, history>>
(* The payment screen is closed unsold, or the leg is removed.               *)
CloseUnsold(l) ==
    /\ Open(l) /\ SendRelease(l)
    /\ panel' = [panel EXCEPT ![l] = [st |-> "closed", shown |-> {}, taken |-> None, code |-> None]]
    /\ Screen /\ UNCHANGED <<last, claim, history>>
(* The sale is made: nothing is given back.                                  *)
Sell(l) ==
    /\ Open(l) /\ panel[l].code # None
    /\ panel' = [panel EXCEPT ![l].st = "sold", ![l].shown = {}]
    /\ Screen /\ UNCHANGED <<last, claim, releases, faults, history>>
(* The till restarts: its screens and its list are gone, nothing is sent.    *)
Restart(t) ==
    /\ Fault("restart")
    /\ panel' = [l \in Legs |-> IF TillOf[l] = t /\ Open(l)
                   THEN [st |-> "closed", shown |-> {}, taken |-> None, code |-> None] ELSE panel[l]]
    /\ last' = [last EXCEPT ![t] = {}]
    /\ Screen /\ UNCHANGED <<claim, releases, history>>

Next ==
    \/ \E p \in Payments : Confirm(p) \/ OwnerRelease(p)
    \/ \E l \in Legs :
         \/ ClaimFirst(l) \/ ClaimRead(l) \/ ClaimAgain(l) \/ OrderArrives(l)
         \/ OpenPanel(l) \/ Ask(l) \/ AskFails(l) \/ Answer(l) \/ AnswerLost(l)
         \/ TakeOff(l) \/ CloseUnsold(l) \/ Sell(l)
         \/ \E p \in Payments : Release(l, p) \/ Tap(l, p) \/ TypeCode(l, p)
    \/ \E t \in Tills : Restart(t)
Spec == Init /\ [][Next]_vars

-----------------------------------------------------------------------------
(* A payment tapped onto a sale stays with its till until an order has used  *)
(* it: no other till is offered it, and none can claim it, whatever was lost *)
(* (claimPayment, releasePayment).  "Loose" payments are excepted.           *)
SoldStaysHeld ==
    \A l \in Legs : LET p == panel[l].taken IN
        panel[l].st = "sold" /\ p # None /\ p \notin loose =>
            \/ payment[p].st = "used"
            \/ payment[p].st = "held" /\ payment[p].by = TillOf[l]
(* Of two tills tapping one payment one gets it (claimPayment): no legs of   *)
(* different tills have it, unless the owner released it or its till lost    *)
(* hold of it by tapping it twice.                                           *)
OneTillPerPayment ==
    \A k, l \in Legs : panel[k].taken # None /\ panel[k].taken = panel[l].taken
        => TillOf[k] = TillOf[l] \/ panel[k].taken \in loose
(* The panel owns the payment it took for its leg (MpesaReceivedPanel.tsx):  *)
(* no other leg has it too, not even one of its own till.                    *)
OneLegPerPayment ==
    \A k, l \in Legs : k # l /\ panel[k].taken = panel[l].taken => panel[k].taken = None
(* A payment is held for something: a leg on a screen or a sale that has it, *)
(* or a request that is on its way; nothing is kept from the other tills for *)
(* a bill that was given up, unless something went wrong.                    *)
HeldForALeg ==
    faults = 0 => \A p \in Payments \ orphans : payment[p].st = "held" =>
        \E l \in Legs : \/ panel[l].taken = p \/ claim[l].p = p
                        \/ <<l, p>> \in releases
(* The same without excuse: MpesaReceivedPanel.tsx says of its payment that  *)
(* it is given back "when it closes unsold".                                 *)
ClosedUnsoldGivesBack ==
    faults = 0 => \A p \in Payments : payment[p].st = "held" =>
        \E l \in Legs : panel[l].taken = p \/ claim[l].p = p \/ <<l, p>> \in releases
(* The protocol keeps the ledger's promise (PaymentLedger): whatever is      *)
(* lost, late or typed, a payment passes from till to till only by being     *)
(* given back, and once an order used it no claim, release, late             *)
(* confirmation or second order with its code moves it again.                *)
Ledger == INSTANCE PaymentLedger WITH
    Orders <- Legs,
    known  <- {p \in Payments : payment[p].st # "none"},
    holder <- [p \in Payments |-> IF payment[p].st = "held" THEN payment[p].by ELSE None],
    usedBy <- [p \in Payments |-> payment[p].order]
KeepsLedger == Ledger!Spec
=============================================================================
