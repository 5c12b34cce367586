-------------------------- MODULE MpesaClaimsProofs --------------------------
(* MpesaClaims, proved for any payments, legs and tills: its variables keep  *)
(* their types, the protocol implements PaymentLedger, and a payment on a    *)
(* leg is its till's, and no other's, and is held for a leg.                 *)
EXTENDS MpesaClaims, TLAPS

(* A payment's row names an order exactly when it is used, and a claim on    *)
(* its way names a payment.                                                  *)
RowsMakeSense ==
    /\ \A p \in Payments : payment[p].order # None <=> payment[p].st = "used"
    /\ \A p \in Payments : payment[p].st = "held" => payment[p].by \in Tills
    /\ \A l \in Legs : claim[l].at # "none" => claim[l].p \in Payments

LedgerInv == TypeOK /\ RowsMakeSense

(* Init establishes the invariant.                                           *)
LEMMA InitLedgerInv == Init => LedgerInv
BY LegsAssumption, FaultsAssumption
   DEF Init, LedgerInv, TypeOK, RowsMakeSense, Free, NoClaim, Row, Panel, Claim

(* The records the actions write have their types.                           *)
LEMMA RowTypes ==
    /\ Free \in Row
    /\ \A l \in Legs : Held(l) \in Row
    /\ \A r \in Row, l \in Legs : [r EXCEPT !.st = "used", !.order = l] \in Row
BY LegsAssumption DEF Free, Held, Row

LEMMA PanelTypes ==
    \A q \in Panel, p \in Payments \cup {None}, S \in SUBSET Payments :
        /\ [q EXCEPT !.st = "open"] \in Panel
        /\ [q EXCEPT !.st = "sold", !.shown = {}] \in Panel
        /\ [q EXCEPT !.shown = S] \in Panel
        /\ [q EXCEPT !.shown = @ \ {p}] \in Panel
        /\ [q EXCEPT !.taken = p, !.code = p] \in Panel
        /\ [q EXCEPT !.taken = None, !.code = p] \in Panel
        /\ [st |-> "closed", shown |-> {}, taken |-> None, code |-> None] \in Panel
BY DEF Panel

LEMMA ClaimTypes ==
    /\ NoClaim \in Claim
    /\ \A p \in Payments : [NoClaim EXCEPT !.p = p, !.at = "first"] \in Claim
    /\ \A c \in Claim :
        /\ [c EXCEPT !.lost = TRUE] \in Claim
        /\ \A s \in {"read", "again", "ok", "refused"} : [c EXCEPT !.at = s] \in Claim
BY DEF NoClaim, Claim

LEMMA UpdateFunction ==
    ASSUME NEW S, NEW T, NEW f \in [S -> T], NEW x \in S, NEW y \in T
    PROVE  [f EXCEPT ![x] = y] \in [S -> T]
OBVIOUS

(* What a claim does to the types: one row and one claim at most.            *)
LEMMA CloudTypeOK ==
    ASSUME LedgerInv, [Next]_vars,
           \/ \E p \in Payments : Confirm(p) \/ OwnerRelease(p)
           \/ \E l \in Legs : \/ ClaimFirst(l) \/ ClaimRead(l) \/ ClaimAgain(l)
                              \/ OrderArrives(l) \/ \E p \in Payments : Release(l, p)
    PROVE  TypeOK'
<1>t. /\ payment \in [Payments -> Row] /\ claim \in [Legs -> Claim]
      BY DEF LedgerInv, TypeOK
<1>f. faults \in 0 .. MaxFaults /\ MaxFaults \in Nat
      BY FaultsAssumption DEF LedgerInv, TypeOK
<1>c. ASSUME NEW l \in Legs, NEW v \in {"ok", "read", "again", "refused"}
      PROVE [claim EXCEPT ![l].at = v] \in [Legs -> Claim]
  <2>1. [claim[l] EXCEPT !.at = v] \in Claim BY <1>t DEF Claim
  <2> QED BY <1>t, <2>1, UpdateFunction
<1>r. ASSUME NEW p \in Payments, NEW r \in Row
      PROVE [payment EXCEPT ![p] = r] \in [Payments -> Row]
      BY <1>t
<1>1. ASSUME NEW p \in Payments, Confirm(p) \/ OwnerRelease(p) PROVE TypeOK'
  <2>1. payment' \in [Payments -> Row]
        BY <1>1, <1>r, RowTypes DEF Confirm, OwnerRelease, Set
  <2>2. faults' \in 0 .. MaxFaults
        BY <1>1, <1>f DEF Confirm, OwnerRelease, CloudOnly, Fault
  <2> QED BY <1>1, <2>1, <2>2
          DEF LedgerInv, TypeOK, Confirm, OwnerRelease, CloudOnly, history
<1>2. ASSUME NEW l \in Legs, ClaimFirst(l) \/ ClaimRead(l) \/ ClaimAgain(l)
      PROVE TypeOK'
  <2>0. claim[l].at # "none" BY <1>2 DEF ClaimFirst, ClaimRead, ClaimAgain
  <2>p. claim[l].p \in Payments BY <2>0 DEF LedgerInv, RowsMakeSense
  <2>1. payment' \in [Payments -> Row]
        BY <1>2, <1>t, <1>r, <2>p, RowTypes DEF ClaimFirst, ClaimRead, ClaimAgain, Set
  <2>2. claim' \in [Legs -> Claim]
        BY <1>2, <1>c DEF ClaimFirst, ClaimRead, ClaimAgain
  <2> QED BY <1>2, <2>1, <2>2
          DEF LedgerInv, TypeOK, ClaimFirst, ClaimRead, ClaimAgain, CloudOnly, history
<1>3. ASSUME NEW l \in Legs, OrderArrives(l) PROVE TypeOK'
  <2>1. ASSUME NEW p \in Payments
        PROVE [payment[p] EXCEPT !.st = "used", !.order = l] \in Row
        BY <1>t, RowTypes
  <2>2. panel[l].code \in Payments \cup {None}
        BY DEF LedgerInv, TypeOK, Panel
  <2>3. payment' \in [Payments -> Row]
        BY <1>3, <1>t, <1>r, <2>1, <2>2 DEF OrderArrives, Set
  <2>4. faults' = faults \/ Fault("mark") BY <1>3 DEF OrderArrives
  <2>5. faults' \in 0 .. MaxFaults BY <2>4, <1>f DEF Fault
  <2> QED BY <1>3, <2>3, <2>5 DEF LedgerInv, TypeOK, OrderArrives, history
<1>4. ASSUME NEW l \in Legs, NEW p \in Payments, Release(l, p) PROVE TypeOK'
  <2>1. payment' \in [Payments -> Row]
        BY <1>4, <1>t, <1>r, RowTypes DEF Release, Set
  <2> QED BY <1>4, <2>1 DEF LedgerInv, TypeOK, Release, history
<1> QED BY <1>1, <1>2, <1>3, <1>4

(* What a payment screen does to the types.                                  *)
LEMMA ScreenTypeOK ==
    ASSUME LedgerInv, [Next]_vars,
           \/ \E l \in Legs : \/ OpenPanel(l) \/ Ask(l) \/ AskFails(l) \/ Sell(l)
                              \/ TakeOff(l) \/ CloseUnsold(l) \/ Answer(l) \/ AnswerLost(l)
                              \/ \E p \in Payments : Tap(l, p) \/ TypeCode(l, p)
           \/ \E t \in Tills : Restart(t)
    PROVE  TypeOK'
<1>t. /\ panel \in [Legs -> Panel] /\ claim \in [Legs -> Claim]
      /\ last \in [Tills -> SUBSET Payments] /\ releases \subseteq Legs \X Payments
      BY DEF LedgerInv, TypeOK
<1>f. faults \in 0 .. MaxFaults /\ MaxFaults \in Nat
      BY FaultsAssumption DEF LedgerInv, TypeOK
<1>n. None \in Payments \cup {None} OBVIOUS
<1>p. ASSUME NEW l \in Legs, NEW p \in Payments \cup {None}, NEW S \in SUBSET Payments
      PROVE  /\ [panel[l] EXCEPT !.st = "open"] \in Panel
             /\ [panel[l] EXCEPT !.st = "sold", !.shown = {}] \in Panel
             /\ [panel[l] EXCEPT !.shown = S] \in Panel
             /\ [panel[l] EXCEPT !.shown = panel[l].shown \ {p}] \in Panel
             /\ [panel[l] EXCEPT !.taken = p, !.code = p] \in Panel
             /\ [panel[l] EXCEPT !.taken = None, !.code = p] \in Panel
             /\ [st |-> "closed", shown |-> {}, taken |-> None, code |-> None] \in Panel
  <2>1. panel[l] \in Panel BY <1>t
  <2> QED BY <2>1, PanelTypes
<1>g. ASSUME NEW l \in Legs, SendRelease(l)
      PROVE releases' \subseteq Legs \X Payments /\ faults' \in 0 .. MaxFaults
  <2>1. panel[l].taken \in Payments \cup {None} BY <1>t DEF Panel
  <2>2. GivenBack(l) \subseteq Legs \X Payments BY <2>1 DEF GivenBack
  <2> QED BY <1>g, <1>t, <1>f, <2>2 DEF SendRelease, Fault
<1>1. ASSUME NEW l \in Legs, OpenPanel(l) \/ Sell(l) PROVE TypeOK'
  <2>1. panel' \in [Legs -> Panel]
        BY <1>1, <1>t, <1>p, <1>n DEF OpenPanel, Sell
  <2> QED BY <1>1, <2>1 DEF LedgerInv, TypeOK, OpenPanel, Sell, Screen, history
<1>2. ASSUME NEW l \in Legs, Ask(l) \/ AskFails(l) PROVE TypeOK'
  <2>1. Received \in SUBSET Payments /\ last[TillOf[l]] \in SUBSET Payments
        BY <1>t, LegsAssumption DEF Received
  <2>a. /\ [panel[l] EXCEPT !.shown = Received] \in Panel
        /\ [panel[l] EXCEPT !.shown = last[TillOf[l]]] \in Panel
        BY <1>p, <1>n, <2>1
  <2>2. panel' \in [Legs -> Panel] BY <1>2, <1>t, <2>a DEF Ask, AskFails
  <2>3. last' \in [Tills -> SUBSET Payments] BY <1>2, <1>t, <2>1 DEF Ask, AskFails
  <2>4. faults' \in 0 .. MaxFaults BY <1>2, <1>f DEF Ask, AskFails, Fault
  <2> QED BY <1>2, <2>2, <2>3, <2>4 DEF LedgerInv, TypeOK, Ask, AskFails, Screen, history
<1>3. ASSUME NEW l \in Legs, TakeOff(l) \/ CloseUnsold(l) \/ \E p \in Payments : TypeCode(l, p)
      PROVE TypeOK'
  <2>1. panel' \in [Legs -> Panel]
    <3>1. CASE TakeOff(l)
      <4>1. [panel[l] EXCEPT !.taken = None, !.code = None] \in Panel BY <1>p, <1>n
      <4> QED BY <3>1, <4>1, <1>t DEF TakeOff
    <3>2. CASE CloseUnsold(l)
      <4>1. [st |-> "closed", shown |-> {}, taken |-> None, code |-> None] \in Panel
            BY <1>p, <1>n
      <4> QED BY <3>2, <4>1, <1>t DEF CloseUnsold
    <3>3. ASSUME NEW p \in Payments, TypeCode(l, p) PROVE panel' \in [Legs -> Panel]
      <4>1. [panel[l] EXCEPT !.taken = None, !.code = p] \in Panel BY <1>p, <1>n
      <4> QED BY <3>3, <4>1, <1>t DEF TypeCode
    <3> QED BY <1>3, <3>1, <3>2, <3>3
  <2>2. SendRelease(l) BY <1>3 DEF TakeOff, CloseUnsold, TypeCode
  <2> QED BY <1>3, <1>g, <2>1, <2>2
          DEF LedgerInv, TypeOK, TakeOff, CloseUnsold, TypeCode, Screen, history
<1>4. ASSUME NEW l \in Legs, Answer(l) PROVE TypeOK'
  <2>0. claim[l].at # "none" BY <1>4 DEF Answer
  <2>1. claim[l].p \in Payments BY <2>0 DEF LedgerInv, RowsMakeSense
  <2>a. /\ [panel[l] EXCEPT !.taken = claim[l].p, !.code = claim[l].p] \in Panel
        /\ [panel[l] EXCEPT !.shown = panel[l].shown \ {claim[l].p}] \in Panel
        BY <1>p, <1>t, <2>1
  <2>b. Answered(l) \in Panel BY <2>a DEF Answered
  <2>2. panel' \in [Legs -> Panel] BY <1>4, <1>t, <2>b DEF Answer
  <2>3. claim' \in [Legs -> Claim] BY <1>4, <1>t, ClaimTypes DEF Answer
  <2> QED BY <1>4, <2>1, <2>2, <2>3 DEF LedgerInv, TypeOK, Answer, Screen
<1>5. ASSUME NEW l \in Legs, AnswerLost(l) PROVE TypeOK'
  <2>1. claim[l].p \in Payments \cup {None} /\ claim[l] \in Claim BY <1>t DEF Claim
  <2>2. panel' \in [Legs -> Panel] BY <1>5, <1>t, <1>p, <2>1 DEF AnswerLost
  <2>3. [claim[l] EXCEPT !.lost = TRUE] \in Claim BY <2>1, ClaimTypes
  <2>4. claim' \in [Legs -> Claim] BY <1>5, <1>t, <2>3 DEF AnswerLost
  <2>5. faults' \in 0 .. MaxFaults BY <1>5, <1>f DEF AnswerLost, Fault
  <2> QED BY <1>5, <2>2, <2>4, <2>5 DEF LedgerInv, TypeOK, AnswerLost, Screen, history
<1>6. ASSUME NEW l \in Legs, NEW p \in Payments, Tap(l, p) PROVE TypeOK'
  <2>1. claim' \in [Legs -> Claim] BY <1>6, <1>t, ClaimTypes DEF Tap
  <2>2. loose' \subseteq Payments BY <1>6 DEF Tap, LedgerInv, TypeOK
  <2> QED BY <1>6, <2>1, <2>2 DEF LedgerInv, TypeOK, Tap, Screen
<1>7. ASSUME NEW t \in Tills, Restart(t) PROVE TypeOK'
  <2>1. panel' \in [Legs -> Panel] BY <1>7, <1>t, <1>p, <1>n DEF Restart
  <2>2. last' \in [Tills -> SUBSET Payments] BY <1>7, <1>t DEF Restart
  <2>3. faults' \in 0 .. MaxFaults BY <1>7, <1>f DEF Restart, Fault
  <2> QED BY <1>7, <2>1, <2>2, <2>3 DEF LedgerInv, TypeOK, Restart, Screen, history
<1> QED BY <1>1, <1>2, <1>3, <1>4, <1>5, <1>6, <1>7

(* Every step keeps the types.                                               *)
LEMMA StepTypeOK == LedgerInv /\ [Next]_vars => TypeOK'
<1>1. CASE UNCHANGED vars
      BY <1>1 DEF LedgerInv, TypeOK, vars, history
<1>2. CASE Next
      BY <1>2, CloudTypeOK, ScreenTypeOK DEF Next
<1> QED BY <1>1, <1>2

(* Rows keep making sense: only an order's use names an order, only a till's *)
(* claim names a till, and only a tap names a claim.                         *)
LEMMA StepRowsMakeSense == LedgerInv /\ [Next]_vars => RowsMakeSense'
<1> SUFFICES ASSUME LedgerInv, [Next]_vars PROVE RowsMakeSense'
    OBVIOUS
<1>t. /\ payment \in [Payments -> Row] /\ claim \in [Legs -> Claim] /\ RowsMakeSense
      BY DEF LedgerInv, TypeOK
<1>h. ASSUME NEW l \in Legs PROVE Held(l).by \in Tills /\ Held(l).order = None /\ Held(l).st = "held"
      BY LegsAssumption DEF Held
<1>f. Free.order = None /\ Free.st = "received" BY DEF Free
<1>s. ASSUME UNCHANGED payment,
             \A l \in Legs : claim'[l].at # "none" =>
                 claim'[l].p \in Payments
      PROVE RowsMakeSense'
      BY <1>t, <1>s DEF RowsMakeSense
<1>1. ASSUME NEW p \in Payments, Confirm(p) \/ OwnerRelease(p) PROVE RowsMakeSense'
      BY <1>1, <1>t, <1>f DEF Confirm, OwnerRelease, Set, RowsMakeSense, Row
<1>2. ASSUME NEW l \in Legs, ClaimFirst(l) \/ ClaimRead(l) \/ ClaimAgain(l)
      PROVE RowsMakeSense'
  <2>0. claim[l].at # "none" /\ claim[l].p \in Payments
        BY <1>2, <1>t DEF ClaimFirst, ClaimRead, ClaimAgain, RowsMakeSense
  <2>1. \A k \in Legs : claim'[k].at # "none" => claim'[k].p \in Payments
        BY <1>2, <1>t, <2>0 DEF ClaimFirst, ClaimRead, ClaimAgain, RowsMakeSense, Claim
  <2>2. payment' = payment \/ payment' = [payment EXCEPT ![claim[l].p] = Held(l)]
        BY <1>2 DEF ClaimFirst, ClaimRead, ClaimAgain, Set
  <2> QED BY <2>0, <2>1, <2>2, <1>t, <1>h DEF RowsMakeSense
<1>3. ASSUME NEW l \in Legs, OrderArrives(l) PROVE RowsMakeSense'
  <2>1. panel[l].code \in Payments \cup {None}
        BY DEF LedgerInv, TypeOK, Panel
  <2>2. \/ payment' = payment
        \/ /\ panel[l].code \in Payments
           /\ payment' = [payment EXCEPT ![panel[l].code] =
                 [payment[panel[l].code] EXCEPT !.st = "used", !.order = l]]
        BY <1>3, <2>1 DEF OrderArrives, Set
  <2>3. claim' = claim BY <1>3 DEF OrderArrives
  <2>4. CASE payment' = payment BY <2>3, <2>4, <1>t DEF RowsMakeSense
  <2>5. ASSUME NEW q \in Payments,
               payment' = [payment EXCEPT ![q] =
                             [payment[q] EXCEPT !.st = "used", !.order = l]]
        PROVE RowsMakeSense'
    <3>1. payment'[q].st = "used" /\ payment'[q].order = l BY <2>5, <1>t DEF Row
    <3>2. \A p \in Payments : p # q => payment'[p] = payment[p] BY <2>5, <1>t
    <3> QED BY <3>1, <3>2, <2>3, <1>t, LegsAssumption DEF RowsMakeSense
  <2> QED BY <2>2, <2>4, <2>5
<1>4. ASSUME NEW l \in Legs, NEW p \in Payments, Release(l, p) PROVE RowsMakeSense'
      BY <1>4, <1>t, <1>f DEF Release, Set, RowsMakeSense, Row
<1>5. ASSUME NEW l \in Legs, OpenPanel(l) \/ Ask(l) \/ AskFails(l) \/ Sell(l) \/ TakeOff(l)
                            \/ CloseUnsold(l) \/ \E p \in Payments : TypeCode(l, p)
      PROVE RowsMakeSense'
  <2>1. claim' = claim /\ payment' = payment
        BY <1>5 DEF OpenPanel, Ask, AskFails, Sell, TakeOff, CloseUnsold, TypeCode, Screen
  <2> QED BY <2>1, <1>t, <1>s DEF RowsMakeSense
<1>6. ASSUME NEW l \in Legs, Answer(l) \/ AnswerLost(l) \/ \E p \in Payments : Tap(l, p)
      PROVE RowsMakeSense'
  <2>1. \A k \in Legs : claim'[k].at # "none" => claim'[k].p \in Payments
    <3>1. CASE Answer(l) BY <3>1, <1>t DEF Answer, NoClaim, RowsMakeSense
    <3>2. CASE AnswerLost(l)
      <4>1. claim'[l].p = claim[l].p /\ claim'[l].at = claim[l].at
            BY <3>2, <1>t DEF AnswerLost, Claim
      <4>2. \A k \in Legs : k # l => claim'[k] = claim[k] BY <3>2, <1>t DEF AnswerLost
      <4> QED BY <4>1, <4>2, <1>t DEF RowsMakeSense
    <3>3. ASSUME NEW p \in Payments, Tap(l, p)
          PROVE \A k \in Legs : claim'[k].at # "none" => claim'[k].p \in Payments
      <4>1. claim'[l].p = p BY <3>3, <1>t DEF Tap, NoClaim, Claim
      <4>2. \A k \in Legs : k # l => claim'[k] = claim[k] BY <3>3, <1>t DEF Tap
      <4> QED BY <4>1, <4>2, <1>t DEF RowsMakeSense
    <3> QED BY <1>6, <3>1, <3>2, <3>3
  <2>2. payment' = payment BY <1>6 DEF Answer, AnswerLost, Tap, Screen
  <2> QED BY <2>1, <2>2, <1>s
<1>7. ASSUME NEW t \in Tills, Restart(t) PROVE RowsMakeSense'
      BY <1>7, <1>t, <1>s DEF Restart, Screen, RowsMakeSense
<1>8. CASE UNCHANGED vars
      BY <1>8, <1>t, <1>s DEF vars, RowsMakeSense
<1> QED BY <1>1, <1>2, <1>3, <1>4, <1>5, <1>6, <1>7, <1>8 DEF Next

(* Every variable has its type in every behaviour, whatever the numbers of   *)
(* payments, legs and tills.                                                 *)
THEOREM ClaimsInv == Spec => []LedgerInv
<1>1. LedgerInv /\ [Next]_vars => LedgerInv'
      BY StepTypeOK, StepRowsMakeSense DEF LedgerInv
<1> QED BY <1>1, InitLedgerInv, PTL DEF Spec

THEOREM ClaimsTypeCorrect == Spec => []TypeOK
<1>1. LedgerInv => TypeOK BY DEF LedgerInv
<1> QED BY <1>1, ClaimsInv, PTL

(* One payment's row changes or none: what that is to the ledger.            *)
LEMMA StepIsLedgerStep == LedgerInv /\ [Next]_vars => [Ledger!Next]_(Ledger!vars)
<1> SUFFICES ASSUME LedgerInv, [Next]_vars PROVE [Ledger!Next]_(Ledger!vars)
    OBVIOUS
<1>t. /\ payment \in [Payments -> Row] /\ claim \in [Legs -> Claim] /\ RowsMakeSense
      BY DEF LedgerInv, TypeOK
<1>0. ASSUME payment' = payment PROVE UNCHANGED Ledger!vars
      BY <1>0 DEF Ledger!vars
<1>r. ASSUME NEW p \in Payments, payment[p].st = "none", payment' = [payment EXCEPT ![p] = Free]
      PROVE Ledger!Next
  <2>1. Ledger!Receive(p)
        BY <1>r, <1>t DEF Ledger!Receive, RowsMakeSense, Free, Row
  <2> QED BY <2>1 DEF Ledger!Next
<1>g. ASSUME NEW p \in Payments, payment[p].st = "held", payment' = [payment EXCEPT ![p] = Free]
      PROVE Ledger!Next
  <2>1. payment[p].by # None /\ payment[p].order = None
        BY <1>g, <1>t, LegsAssumption DEF RowsMakeSense
  <2>2. Ledger!GiveBack(p)
        BY <1>g, <1>t, <2>1 DEF Ledger!GiveBack, Free, Row
  <2> QED BY <2>2 DEF Ledger!Next
<1>h. ASSUME NEW p \in Payments, NEW l \in Legs, payment' = [payment EXCEPT ![p] = Held(l)],
             Waiting(p) \/ StillMine(l, p)
      PROVE [Ledger!Next]_(Ledger!vars)
  <2>1. TillOf[l] \in Tills BY LegsAssumption
  <2>2. CASE Waiting(p)
    <3>1. Ledger!Hold(p, TillOf[l])
          BY <1>h, <1>t, <2>1, <2>2 DEF Waiting, Ledger!Hold, Held, Row, RowsMakeSense
    <3> QED BY <3>1, <2>1 DEF Ledger!Next
  <2>3. CASE StillMine(l, p)
    <3>1. UNCHANGED Ledger!vars
          BY <1>h, <1>t, <2>3 DEF StillMine, Ledger!vars, Held, Row, RowsMakeSense
    <3> QED BY <3>1
  <2> QED BY <1>h, <2>2, <2>3
<1>u. ASSUME NEW p \in Payments, NEW l \in Legs,
             payment[p].st \notin {"none", "used"},
             payment' = [payment EXCEPT ![p] = [payment[p] EXCEPT !.st = "used", !.order = l]]
      PROVE Ledger!Next
  <2>1. payment[p].order = None BY <1>u, <1>t DEF RowsMakeSense
  <2>2. Ledger!Use(p, l)
        BY <1>u, <1>t, <2>1 DEF Ledger!Use, Row
  <2> QED BY <2>2 DEF Ledger!Next
<1>1. ASSUME NEW p \in Payments, Confirm(p) PROVE Ledger!Next
      BY <1>1, <1>r DEF Confirm, Keeps, Set
<1>2. ASSUME NEW p \in Payments, OwnerRelease(p) PROVE Ledger!Next
      BY <1>2, <1>g DEF OwnerRelease, Set
<1>3. ASSUME NEW l \in Legs, ClaimFirst(l) \/ ClaimRead(l) \/ ClaimAgain(l)
      PROVE [Ledger!Next]_(Ledger!vars)
  <2>1. claim[l].p \in Payments
        BY <1>3, <1>t DEF ClaimFirst, ClaimRead, ClaimAgain, RowsMakeSense
  <2>2. \/ payment' = payment
        \/ /\ payment' = [payment EXCEPT ![claim[l].p] = Held(l)]
           /\ Waiting(claim[l].p) \/ StillMine(l, claim[l].p)
        BY <1>3 DEF ClaimFirst, ClaimRead, ClaimAgain, Set
  <2> QED BY <2>1, <2>2, <1>0, <1>h
<1>4. ASSUME NEW l \in Legs, NEW p \in Payments, Release(l, p)
      PROVE [Ledger!Next]_(Ledger!vars)
      BY <1>4, <1>0, <1>g DEF Release, Own, Set
<1>5. ASSUME NEW l \in Legs, OrderArrives(l) PROVE [Ledger!Next]_(Ledger!vars)
  <2>1. panel[l].code \in Payments \cup {None}
        BY DEF LedgerInv, TypeOK, Panel
  <2>2. \/ payment' = payment
        \/ /\ panel[l].code \in Payments
           /\ payment[panel[l].code].st \notin {"none", "used"}
           /\ payment' = [payment EXCEPT ![panel[l].code] =
                 [payment[panel[l].code] EXCEPT !.st = "used", !.order = l]]
        BY <1>5, <2>1 DEF OrderArrives, Set, NotUsedYet
  <2> QED BY <2>2, <1>0, <1>u
<1>6. ASSUME \/ \E l \in Legs : \/ OpenPanel(l) \/ Ask(l) \/ AskFails(l) \/ Sell(l)
                              \/ TakeOff(l) \/ CloseUnsold(l) \/ Answer(l) \/ AnswerLost(l)
                              \/ \E p \in Payments : Tap(l, p) \/ TypeCode(l, p)
             \/ \E t \in Tills : Restart(t)
             \/ UNCHANGED vars
      PROVE UNCHANGED Ledger!vars
  <2>1. payment' = payment
        BY <1>6 DEF OpenPanel, Ask, AskFails, Sell, TakeOff, CloseUnsold, TypeCode, Answer,
                    AnswerLost, Tap, Restart, Screen, vars
  <2> QED BY <2>1, <1>0
<1> QED BY <1>1, <1>2, <1>3, <1>4, <1>5, <1>6 DEF Next

(* The claims implement the ledger: for any payments, legs and tills, in     *)
(* every behaviour a payment passes from till to till only by being given    *)
(* back, and an order that used it has it for good.                          *)
THEOREM ClaimsKeepLedger == Spec => KeepsLedger
<1>1. Init => Ledger!Init
      BY DEF Init, Ledger!Init, Free
<1> QED BY <1>1, StepIsLedgerStep, ClaimsInv, PTL DEF Spec, KeepsLedger, Ledger!Spec

-----------------------------------------------------------------------------
(* WHO HAS A PAYMENT                                                         *)
(* A leg touches a payment it has, asks for or gives back; once the cloud    *)
(* gave it to the leg the leg is sure of it.  A payment that is not loose is *)
(* touched by one leg of a till at most, so that the release of one leg      *)
(* never frees what another leg has: a leg that is sure of a payment owns    *)
(* its row until an order uses it.                                           *)

Touches(l, p) == panel[l].taken = p \/ claim[l].p = p \/ <<l, p>> \in releases
Sure(l, p) ==
    \/ panel[l].taken = p
    \/ claim[l].p = p /\ claim[l].at = "ok"
    \/ <<l, p>> \in releases

OneTap == \A l \in Legs : claim[l].p # None => panel[l].taken = None
HeldByItsLeg == \A p \in Payments : payment[p].st = "held" =>
    payment[p].ref \in Legs /\ payment[p].by = TillOf[payment[p].ref]
GivenBackIsOff ==
    \A p \in Payments \ loose : \A l \in Legs :
        <<l, p>> \in releases => panel[l].taken # p /\ claim[l].p # p
OneLegAtATill ==
    \A p \in Payments \ loose : \A k, l \in Legs :
        TillOf[k] = TillOf[l] /\ Touches(k, p) /\ Touches(l, p) => k = l
SureOwns ==
    \A p \in Payments \ loose : \A l \in Legs :
        Sure(l, p) => payment[p].st = "used" \/ Own(l, p)
OneIsSure ==
    \A p \in Payments \ loose : \A k, l \in Legs : Sure(k, p) /\ Sure(l, p) => k = l

HoldersInv ==
    LedgerInv /\ OneTap /\ HeldByItsLeg /\ GivenBackIsOff /\ OneLegAtATill /\ SureOwns /\ OneIsSure

LEMMA InitHoldersInv == Init => HoldersInv
<1> SUFFICES ASSUME Init PROVE HoldersInv
    OBVIOUS
<1>1. \A p \in Payments : \A l \in Legs : ~Touches(l, p) /\ ~Sure(l, p)
      BY LegsAssumption DEF Init, Touches, Sure, NoClaim
<1>2. LedgerInv BY InitLedgerInv
<1>3. \A p \in Payments : payment[p].st = "none" BY DEF Init, Free
<1>4. \A l \in Legs : panel[l].taken = None BY DEF Init
<1> QED BY <1>1, <1>2, <1>3, <1>4
        DEF HoldersInv, OneTap, HeldByItsLeg, GivenBackIsOff, OneLegAtATill, SureOwns,
            OneIsSure, Touches

(* What a leg has, and the claim it waits for.                               *)
SameLeg(l) == panel'[l].taken = panel[l].taken /\ claim'[l] = claim[l]

(* No row changes and nobody touches, or grows sure of, what it did not.     *)
Settles ==
    /\ payment' = payment /\ loose \subseteq loose'
    /\ \A l \in Legs : \A p \in Payments :
          (Touches(l, p)' => Touches(l, p)) /\ (Sure(l, p)' => Sure(l, p))

LEMMA SettlingKeepsHolders ==
    ASSUME HoldersInv, Settles, LedgerInv', OneTap', GivenBackIsOff'
    PROVE  HoldersInv'
<1>1. HeldByItsLeg' BY DEF HoldersInv, HeldByItsLeg, Settles
<1>2. OneLegAtATill' BY DEF HoldersInv, OneLegAtATill, Settles
<1>3. SureOwns' BY DEF HoldersInv, SureOwns, Settles, Own
<1>4. OneIsSure' BY DEF HoldersInv, OneIsSure, Settles
<1> QED BY <1>1, <1>2, <1>3, <1>4 DEF HoldersInv

(* The steps of a screen that leave its leg, its claims and its releases as  *)
(* they are.                                                                 *)
LEMMA QuietLegs ==
    ASSUME HoldersInv, LedgerInv',
           \/ \E l \in Legs : OpenPanel(l) \/ Ask(l) \/ AskFails(l) \/ Sell(l)
           \/ UNCHANGED vars
    PROVE  /\ \A l \in Legs : SameLeg(l)
           /\ payment' = payment /\ releases' = releases
           /\ loose' = loose /\ orphans' = orphans
<1>t. panel \in [Legs -> Panel] BY DEF HoldersInv, LedgerInv, TypeOK
<1>1. ASSUME NEW l \in Legs, OpenPanel(l) PROVE \A k \in Legs : SameLeg(k)
  <2>1. panel'[l].taken = panel[l].taken BY <1>1, <1>t DEF OpenPanel, Panel
  <2>2. \A k \in Legs : k # l => panel'[k] = panel[k] BY <1>1, <1>t DEF OpenPanel
  <2> QED BY <1>1, <2>1, <2>2 DEF OpenPanel, SameLeg
<1>2. ASSUME NEW l \in Legs, Ask(l) PROVE \A k \in Legs : SameLeg(k)
  <2>1. panel'[l].taken = panel[l].taken BY <1>2, <1>t DEF Ask, Panel
  <2>2. \A k \in Legs : k # l => panel'[k] = panel[k] BY <1>2, <1>t DEF Ask
  <2> QED BY <1>2, <2>1, <2>2 DEF Ask, SameLeg
<1>3. ASSUME NEW l \in Legs, AskFails(l) PROVE \A k \in Legs : SameLeg(k)
  <2>1. panel'[l].taken = panel[l].taken BY <1>3, <1>t DEF AskFails, Panel
  <2>2. \A k \in Legs : k # l => panel'[k] = panel[k] BY <1>3, <1>t DEF AskFails
  <2> QED BY <1>3, <2>1, <2>2 DEF AskFails, SameLeg
<1>4. ASSUME NEW l \in Legs, Sell(l) PROVE \A k \in Legs : SameLeg(k)
  <2>1. panel'[l].taken = panel[l].taken BY <1>4, <1>t DEF Sell, Panel
  <2>2. \A k \in Legs : k # l => panel'[k] = panel[k] BY <1>4, <1>t DEF Sell
  <2> QED BY <1>4, <2>1, <2>2 DEF Sell, SameLeg
<1>5. CASE UNCHANGED vars BY <1>5 DEF vars, history, SameLeg
<1> QED BY <1>1, <1>2, <1>3, <1>4, <1>5
        DEF OpenPanel, Ask, AskFails, Sell, Screen, history, vars

(* A payment goes off a leg: what it had is on its way back, or lost.        *)
LEMMA OffTheLeg ==
    ASSUME HoldersInv, NEW l \in Legs,
           TakeOff(l) \/ CloseUnsold(l) \/ \E p \in Payments : TypeCode(l, p)
    PROVE  /\ panel'[l].taken = None /\ \A k \in Legs : k # l => SameLeg(k)
           /\ claim' = claim /\ payment' = payment /\ loose' = loose /\ orphans' = orphans
           /\ Open(l)
           /\ \/ releases' = releases \cup GivenBack(l) /\ faults' = faults
              \/ releases' = releases /\ Fault("release")
<1>t. panel \in [Legs -> Panel] BY DEF HoldersInv, LedgerInv, TypeOK
<1>1. panel'[l].taken = None /\ \A k \in Legs : k # l => panel'[k] = panel[k]
  <2>1. CASE TakeOff(l) BY <2>1, <1>t DEF TakeOff, Panel
  <2>2. CASE CloseUnsold(l) BY <2>2, <1>t DEF CloseUnsold, Panel
  <2>3. CASE \E p \in Payments : TypeCode(l, p) BY <2>3, <1>t DEF TypeCode, Panel
  <2> QED BY <2>1, <2>2, <2>3
<1> QED BY <1>1 DEF TakeOff, CloseUnsold, TypeCode, Screen, history, SendRelease, SameLeg

LEMMA OffKeepsHolders ==
    ASSUME HoldersInv, LedgerInv', NEW l \in Legs,
           TakeOff(l) \/ CloseUnsold(l) \/ \E p \in Payments : TypeCode(l, p)
    PROVE  HoldersInv'
<1>1. /\ panel'[l].taken = None /\ \A k \in Legs : k # l => SameLeg(k)
      /\ claim' = claim /\ payment' = payment /\ loose' = loose
      /\ releases' = releases \cup GivenBack(l) \/ releases' = releases
      BY OffTheLeg
<1>2. \A k \in Legs : \A p \in Payments :
          <<k, p>> \in releases' => <<k, p>> \in releases \/ (k = l /\ p = panel[l].taken)
      BY <1>1 DEF GivenBack
<1>3. Settles
      BY <1>1, <1>2, LegsAssumption DEF Settles, Touches, Sure, SameLeg
<1>4. OneTap' BY <1>1 DEF HoldersInv, OneTap, SameLeg
<1>5. GivenBackIsOff'
  <2> SUFFICES ASSUME NEW p \in Payments \ loose', NEW k \in Legs, <<k, p>> \in releases'
               PROVE panel'[k].taken # p /\ claim'[k].p # p
      BY DEF GivenBackIsOff
  <2>1. p # None BY LegsAssumption
  <2>2. CASE <<k, p>> \in releases
        BY <1>1, <2>1, <2>2 DEF HoldersInv, GivenBackIsOff, SameLeg
  <2>3. CASE k = l /\ p = panel[l].taken
        BY <1>1, <2>1, <2>3 DEF HoldersInv, OneTap
  <2> QED BY <1>2, <2>2, <2>3
<1> QED BY <1>3, <1>4, <1>5, SettlingKeepsHolders

(* An answer comes, or none.                                                 *)
LEMMA AnsweredLeg ==
    ASSUME HoldersInv, NEW l \in Legs, Answer(l)
    PROVE  /\ claim'[l] = NoClaim /\ \A k \in Legs : k # l => SameLeg(k)
           /\ payment' = payment /\ releases' = releases /\ loose' = loose /\ faults' = faults
           /\ \/ panel'[l].taken = panel[l].taken
              \/ claim[l].at = "ok" /\ panel'[l].taken = claim[l].p
           /\ claim[l].at = "ok" /\ Open(l) /\ ~claim[l].lost => panel'[l].taken = claim[l].p
           /\ claim[l].at = "ok" /\ ~Open(l) => orphans' = orphans \cup {claim[l].p}
           /\ orphans \subseteq orphans'
<1>t. panel \in [Legs -> Panel] /\ claim \in [Legs -> Claim]
      BY DEF HoldersInv, LedgerInv, TypeOK
<1>1. \A k \in Legs : k # l => panel'[k] = panel[k] /\ claim'[k] = claim[k]
      BY <1>t DEF Answer
<1>2. claim'[l] = NoClaim BY <1>t DEF Answer
<1>3. panel'[l] = IF ~Open(l) \/ claim[l].lost THEN panel[l] ELSE Answered(l)
      BY <1>t DEF Answer
<1>4. Answered(l).taken = IF claim[l].at = "ok" THEN claim[l].p ELSE panel[l].taken
      BY <1>t DEF Answered, Panel
<1> QED BY <1>1, <1>2, <1>3, <1>4 DEF Answer, Screen, SameLeg

LEMMA AnswerKeepsHolders ==
    ASSUME HoldersInv, LedgerInv', NEW l \in Legs, Answer(l)
    PROVE  HoldersInv'
<1>0. NoClaim.p = None /\ NoClaim.at = "none" BY DEF NoClaim
<1>1. Settles
      BY AnsweredLeg, <1>0, LegsAssumption DEF Settles, Touches, Sure, SameLeg
<1>2. OneTap' BY AnsweredLeg, <1>0 DEF HoldersInv, OneTap, SameLeg
<1>3. GivenBackIsOff'
      BY AnsweredLeg, <1>0, LegsAssumption DEF HoldersInv, GivenBackIsOff, SameLeg
<1> QED BY <1>1, <1>2, <1>3, SettlingKeepsHolders

LEMMA LostKeepsHolders ==
    ASSUME HoldersInv, LedgerInv',
           (\E l \in Legs : AnswerLost(l)) \/ (\E t \in Tills : Restart(t))
    PROVE  HoldersInv'
<1>t. panel \in [Legs -> Panel] /\ claim \in [Legs -> Claim]
      BY DEF HoldersInv, LedgerInv, TypeOK
<1>1. \A l \in Legs : /\ panel'[l].taken \in {panel[l].taken, None}
                      /\ claim'[l].p = claim[l].p /\ claim'[l].at = claim[l].at
  <2>1. ASSUME NEW l \in Legs, AnswerLost(l)
        PROVE \A k \in Legs : /\ panel'[k].taken = panel[k].taken
                              /\ claim'[k].p = claim[k].p /\ claim'[k].at = claim[k].at
    <3>1. panel'[l].taken = panel[l].taken BY <2>1, <1>t DEF AnswerLost, Panel
    <3>2. claim'[l].p = claim[l].p /\ claim'[l].at = claim[l].at
          BY <2>1, <1>t DEF AnswerLost, Claim
    <3>3. \A k \in Legs : k # l => panel'[k] = panel[k] /\ claim'[k] = claim[k]
          BY <2>1, <1>t DEF AnswerLost
    <3> QED BY <3>1, <3>2, <3>3
  <2>2. ASSUME NEW t \in Tills, Restart(t)
        PROVE \A k \in Legs : panel'[k].taken \in {panel[k].taken, None} /\ claim'[k] = claim[k]
        BY <2>2 DEF Restart
  <2> QED BY <2>1, <2>2
<1>2. payment' = payment /\ releases' = releases /\ loose' = loose
      BY DEF AnswerLost, Restart, Screen, history
<1>3. Settles BY <1>1, <1>2, LegsAssumption DEF Settles, Touches, Sure
<1>4. OneTap' BY <1>1 DEF HoldersInv, OneTap
<1>5. GivenBackIsOff' BY <1>1, <1>2, LegsAssumption DEF HoldersInv, GivenBackIsOff
<1> QED BY <1>3, <1>4, <1>5, SettlingKeepsHolders

LEMMA QuietKeepsHolders ==
    ASSUME HoldersInv, LedgerInv',
           \/ \E l \in Legs : OpenPanel(l) \/ Ask(l) \/ AskFails(l) \/ Sell(l)
           \/ UNCHANGED vars
    PROVE  HoldersInv'
<1>1. Settles BY QuietLegs DEF Settles, Touches, Sure, SameLeg
<1>2. OneTap' BY QuietLegs DEF HoldersInv, OneTap, SameLeg
<1>3. GivenBackIsOff' BY QuietLegs DEF HoldersInv, GivenBackIsOff, SameLeg
<1> QED BY <1>1, <1>2, <1>3, SettlingKeepsHolders

(* A tap is a new touch: where the till touches the payment already, it is   *)
(* loose from then on.                                                       *)
LEMMA TapKeepsHolders ==
    ASSUME HoldersInv, LedgerInv', NEW l \in Legs, NEW q \in Payments, Tap(l, q)
    PROVE  HoldersInv'
<1>t. claim \in [Legs -> Claim] BY DEF HoldersInv, LedgerInv, TypeOK
<1>1. claim'[l].p = q /\ claim'[l].at = "first" BY <1>t DEF Tap, NoClaim
<1>2. \A k \in Legs : k # l => claim'[k] = claim[k] BY <1>t DEF Tap
<1>3. /\ panel' = panel /\ payment' = payment /\ releases' = releases /\ loose \subseteq loose'
      /\ panel[l].taken = None /\ claim[l] = NoClaim
      BY DEF Tap, Screen
<1>4. ASSUME q \notin loose', NEW k \in Legs, TillOf[k] = TillOf[l] PROVE ~Touches(k, q)
      BY <1>4 DEF Tap, Touches
<1>n. NoClaim.p = None /\ NoClaim.at = "none" BY DEF NoClaim
<1>5. ASSUME NEW k \in Legs, NEW p \in Payments
      PROVE (Touches(k, p)' => Touches(k, p) \/ (k = l /\ p = q)) /\ (Sure(k, p)' => Sure(k, p))
      BY <1>1, <1>2, <1>3 DEF Touches, Sure
<1>6. OneTap' BY <1>1, <1>2, <1>3 DEF HoldersInv, OneTap
<1>7. HeldByItsLeg' BY <1>3 DEF HoldersInv, HeldByItsLeg
<1>8. GivenBackIsOff'
  <2> SUFFICES ASSUME NEW p \in Payments \ loose', NEW k \in Legs, <<k, p>> \in releases'
               PROVE panel'[k].taken # p /\ claim'[k].p # p
      BY DEF GivenBackIsOff
  <2>1. panel[k].taken # p /\ claim[k].p # p
        BY <1>3 DEF HoldersInv, GivenBackIsOff
  <2>2. CASE k = l /\ p = q
        BY <1>3, <1>4, <2>2 DEF Touches
  <2>3. CASE ~(k = l /\ p = q)
        BY <1>1, <1>2, <1>3, <2>1, <2>3
  <2> QED BY <2>2, <2>3
<1>9. OneLegAtATill'
  <2> SUFFICES ASSUME NEW p \in Payments \ loose', NEW j \in Legs, NEW k \in Legs,
                      TillOf[j] = TillOf[k], Touches(j, p)', Touches(k, p)'
               PROVE j = k
      BY DEF OneLegAtATill
  <2>1. CASE p # q BY <1>3, <1>5, <2>1 DEF HoldersInv, OneLegAtATill
  <2>2. CASE p = q
    <3>1. \A m \in Legs : TillOf[m] = TillOf[l] => ~Touches(m, p) BY <1>4, <2>2
    <3>2. CASE TillOf[j] = TillOf[l] BY <1>5, <3>1, <3>2
    <3>3. CASE TillOf[j] # TillOf[l]
          BY <1>3, <1>5, <3>3 DEF HoldersInv, OneLegAtATill
    <3> QED BY <3>2, <3>3
  <2> QED BY <2>1, <2>2
<1>10. SureOwns' BY <1>3, <1>5 DEF HoldersInv, SureOwns, Own
<1>11. OneIsSure' BY <1>3, <1>5 DEF HoldersInv, OneIsSure
<1> QED BY <1>6, <1>7, <1>8, <1>9, <1>10, <1>11 DEF HoldersInv

(* What the cloud does to a row.                                             *)
LEMMA ConfirmKeepsHolders ==
    ASSUME HoldersInv, LedgerInv', NEW q \in Payments, Confirm(q)
    PROVE  HoldersInv'
<1>t. payment \in [Payments -> Row] BY DEF HoldersInv, LedgerInv, TypeOK
<1>1. /\ payment[q].st = "none" /\ payment'[q] = Free
      /\ \A p \in Payments : p # q => payment'[p] = payment[p]
      BY <1>t DEF Confirm, Keeps, Set
<1>2. panel' = panel /\ claim' = claim /\ releases' = releases /\ loose' = loose
      BY DEF Confirm, CloudOnly, history
<1>3. Free.st = "received" BY DEF Free
<1>4. \A l \in Legs, p \in Payments : Sure(l, p)' = Sure(l, p) /\ Touches(l, p)' = Touches(l, p)
      BY <1>2 DEF Sure, Touches
<1>5. q \notin loose => \A l \in Legs : ~Sure(l, q)
      BY <1>1 DEF HoldersInv, SureOwns, Own
<1>6. HeldByItsLeg' BY <1>1, <1>3 DEF HoldersInv, HeldByItsLeg
<1>7. SureOwns' BY <1>1, <1>2, <1>4, <1>5 DEF HoldersInv, SureOwns, Own
<1>8. OneTap' /\ GivenBackIsOff' BY <1>2 DEF HoldersInv, OneTap, GivenBackIsOff
<1>9. OneLegAtATill' /\ OneIsSure' BY <1>2, <1>4 DEF HoldersInv, OneLegAtATill, OneIsSure
<1> QED BY <1>6, <1>7, <1>8, <1>9 DEF HoldersInv

LEMMA OwnerKeepsHolders ==
    ASSUME HoldersInv, LedgerInv', NEW q \in Payments, OwnerRelease(q)
    PROVE  HoldersInv'
<1>t. payment \in [Payments -> Row] BY DEF HoldersInv, LedgerInv, TypeOK
<1>1. /\ payment'[q] = Free /\ q \in loose' /\ loose \subseteq loose'
      /\ \A p \in Payments : p # q => payment'[p] = payment[p]
      BY <1>t DEF OwnerRelease, Set
<1>2. panel' = panel /\ claim' = claim /\ releases' = releases
      BY DEF OwnerRelease
<1>3. Free.st = "received" BY DEF Free
<1>4. \A l \in Legs, p \in Payments : Sure(l, p)' = Sure(l, p) /\ Touches(l, p)' = Touches(l, p)
      BY <1>2 DEF Sure, Touches
<1>6. HeldByItsLeg' BY <1>1, <1>3 DEF HoldersInv, HeldByItsLeg
<1>7. SureOwns' BY <1>1, <1>2, <1>4 DEF HoldersInv, SureOwns, Own
<1>8. OneTap' /\ GivenBackIsOff' BY <1>1, <1>2 DEF HoldersInv, OneTap, GivenBackIsOff
<1>9. OneLegAtATill' /\ OneIsSure' BY <1>1, <1>2, <1>4 DEF HoldersInv, OneLegAtATill, OneIsSure
<1> QED BY <1>6, <1>7, <1>8, <1>9 DEF HoldersInv

(* A claim that is granted: nobody was sure of the payment, or a leg of the  *)
(* till that asks, which is this leg then.                                   *)
LEMMA GrantKeepsHolders ==
    ASSUME HoldersInv, LedgerInv', NEW l \in Legs,
           claim[l].at # "none", claim[l].at # "ok",
           Waiting(claim[l].p) \/ StillMine(l, claim[l].p),
           Set(claim[l].p, Held(l)), claim' = [claim EXCEPT ![l].at = "ok"],
           CloudOnly, UNCHANGED history
    PROVE  HoldersInv'
<1> DEFINE q == claim[l].p
<1>q. q \in Payments BY DEF HoldersInv, LedgerInv, RowsMakeSense
<1>n. q # None BY <1>q, LegsAssumption
<1>t. payment \in [Payments -> Row] /\ claim \in [Legs -> Claim]
      BY DEF HoldersInv, LedgerInv, TypeOK
<1>1. payment'[q] = Held(l) /\ \A p \in Payments : p # q => payment'[p] = payment[p]
      BY <1>t, <1>q DEF Set
<1>2. panel' = panel /\ releases' = releases /\ loose' = loose
      BY DEF CloudOnly, history
<1>3. claim'[l].p = q /\ claim'[l].at = "ok" BY <1>t DEF Claim
<1>4. \A k \in Legs : k # l => claim'[k] = claim[k] BY <1>t
<1>5. \A k \in Legs, p \in Payments : Touches(k, p)' = Touches(k, p)
      BY <1>2, <1>3, <1>4 DEF Touches
<1>6. \A k \in Legs, p \in Payments : Sure(k, p)' => Sure(k, p) \/ (k = l /\ p = q)
      BY <1>2, <1>3, <1>4, LegsAssumption DEF Sure
<1>h. Held(l).st = "held" /\ Held(l).by = TillOf[l] /\ Held(l).ref = l BY DEF Held
<1>7. q \notin loose => \A k \in Legs : ~Sure(k, q) \/ k = l
  <2> SUFFICES ASSUME q \notin loose, NEW k \in Legs, Sure(k, q) PROVE k = l
      OBVIOUS
  <2>1. payment[q].st = "used" \/ Own(k, q) BY <1>q DEF HoldersInv, SureOwns
  <2>2. StillMine(l, q) /\ TillOf[k] = TillOf[l] BY <2>1 DEF Own, Waiting, StillMine
  <2>3. Touches(k, q) BY DEF Sure, Touches
  <2>4. Touches(l, q) BY DEF Touches
  <2> QED BY <1>q, <2>2, <2>3, <2>4 DEF HoldersInv, OneLegAtATill
<1> HIDE DEF q
<1>8. OneTap' BY <1>2, <1>3, <1>4 DEF HoldersInv, OneTap, q
<1>9. HeldByItsLeg' BY <1>1, <1>h DEF HoldersInv, HeldByItsLeg
<1>10. GivenBackIsOff' BY <1>2, <1>3, <1>4 DEF HoldersInv, GivenBackIsOff, q
<1>11. OneLegAtATill' BY <1>2, <1>5 DEF HoldersInv, OneLegAtATill
<1>12. SureOwns'
  <2> SUFFICES ASSUME NEW p \in Payments \ loose, NEW k \in Legs, Sure(k, p)'
               PROVE payment'[p].st = "used" \/ Own(k, p)'
      BY <1>2 DEF SureOwns
  <2>1. CASE p # q BY <1>1, <1>6, <2>1 DEF HoldersInv, SureOwns, Own
  <2>2. CASE p = q
    <3>1. k = l BY <1>6, <1>7, <2>2
    <3> QED BY <3>1, <2>2, <1>1, <1>h DEF Own
  <2> QED BY <2>1, <2>2
<1>13. OneIsSure'
  <2> SUFFICES ASSUME NEW p \in Payments \ loose, NEW j \in Legs, NEW k \in Legs,
                      Sure(j, p)', Sure(k, p)'
               PROVE j = k
      BY <1>2 DEF OneIsSure
  <2>1. CASE p # q BY <1>6, <2>1 DEF HoldersInv, OneIsSure
  <2>2. CASE p = q BY <1>6, <1>7, <2>2
  <2> QED BY <2>1, <2>2
<1> QED BY <1>8, <1>9, <1>10, <1>11, <1>12, <1>13 DEF HoldersInv

(* A claim that is not, or not yet.                                          *)
LEMMA UngrantedKeepsHolders ==
    ASSUME HoldersInv, LedgerInv', NEW l \in Legs, NEW v \in {"read", "again", "refused"},
           payment' = payment, claim' = [claim EXCEPT ![l].at = v], CloudOnly, UNCHANGED history
    PROVE  HoldersInv'
<1>t. claim \in [Legs -> Claim] BY DEF HoldersInv, LedgerInv, TypeOK
<1>1. claim'[l].p = claim[l].p /\ claim'[l].at = v BY <1>t DEF Claim
<1>2. \A k \in Legs : k # l => claim'[k] = claim[k] BY <1>t
<1>3. panel' = panel /\ releases' = releases /\ loose' = loose BY DEF CloudOnly, history
<1>4. Settles BY <1>1, <1>2, <1>3 DEF Settles, Touches, Sure
<1>5. OneTap' /\ GivenBackIsOff'
      BY <1>1, <1>2, <1>3 DEF HoldersInv, OneTap, GivenBackIsOff
<1> QED BY <1>4, <1>5, SettlingKeepsHolders

LEMMA ClaimKeepsHolders ==
    ASSUME HoldersInv, LedgerInv', NEW l \in Legs, ClaimFirst(l) \/ ClaimRead(l) \/ ClaimAgain(l)
    PROVE  HoldersInv'
<1>1. CASE ClaimFirst(l)
  <2>1. CASE Waiting(claim[l].p)
        BY <1>1, <2>1, GrantKeepsHolders DEF ClaimFirst
  <2>2. CASE ~Waiting(claim[l].p)
        BY <1>1, <2>2, UngrantedKeepsHolders DEF ClaimFirst
  <2> QED BY <2>1, <2>2
<1>2. CASE ClaimRead(l)
  <2>1. CASE Refused(l, claim[l].p)
        BY <1>2, <2>1, UngrantedKeepsHolders DEF ClaimRead
  <2>2. CASE ~Refused(l, claim[l].p)
        BY <1>2, <2>2, UngrantedKeepsHolders DEF ClaimRead
  <2> QED BY <2>1, <2>2
<1>3. CASE ClaimAgain(l)
  <2>1. CASE StillMine(l, claim[l].p)
        BY <1>3, <2>1, GrantKeepsHolders DEF ClaimAgain
  <2>2. CASE ~StillMine(l, claim[l].p)
        BY <1>3, <2>2, UngrantedKeepsHolders DEF ClaimAgain
  <2> QED BY <2>1, <2>2
<1> QED BY <1>1, <1>2, <1>3

(* A release frees what its leg owns: no other leg was sure of it.           *)
LEMMA ReleaseKeepsHolders ==
    ASSUME HoldersInv, LedgerInv', NEW l \in Legs, NEW q \in Payments, Release(l, q)
    PROVE  HoldersInv'
<1>t. payment \in [Payments -> Row] BY DEF HoldersInv, LedgerInv, TypeOK
<1>1. /\ <<l, q>> \in releases /\ releases' = releases \ {<<l, q>>}
      /\ panel' = panel /\ claim' = claim /\ loose' = loose
      BY DEF Release, history
<1>2. /\ \A p \in Payments : p # q => payment'[p] = payment[p]
      /\ payment'[q] = IF Own(l, q) THEN Free ELSE payment[q]
      BY <1>t DEF Release, Set
<1>3. Free.st = "received" BY DEF Free
<1>4. \A k \in Legs, p \in Payments :
          (Touches(k, p)' => Touches(k, p)) /\ (Sure(k, p)' => Sure(k, p))
      BY <1>1 DEF Touches, Sure
<1>5. OneTap' /\ GivenBackIsOff' BY <1>1 DEF HoldersInv, OneTap, GivenBackIsOff
<1>6. HeldByItsLeg' BY <1>2, <1>3 DEF HoldersInv, HeldByItsLeg
<1>7. OneLegAtATill' /\ OneIsSure' BY <1>1, <1>4 DEF HoldersInv, OneLegAtATill, OneIsSure
<1>8. SureOwns'
  <2> SUFFICES ASSUME NEW p \in Payments \ loose, NEW k \in Legs, Sure(k, p)'
               PROVE payment'[p].st = "used" \/ Own(k, p)'
      BY <1>1 DEF SureOwns
  <2>0. payment[p].st = "used" \/ Own(k, p) BY <1>4 DEF HoldersInv, SureOwns
  <2>1. CASE p # q \/ ~Own(l, q) BY <1>2, <2>0, <2>1 DEF Own
  <2>2. CASE p = q /\ Own(l, q)
    <3>1. k = l BY <2>0, <2>2 DEF Own
    <3>2. ~Sure(l, q)' BY <1>1, <2>2 DEF Sure, HoldersInv, GivenBackIsOff
    <3> QED BY <3>1, <3>2, <2>2
  <2> QED BY <2>1, <2>2
<1> QED BY <1>5, <1>6, <1>7, <1>8 DEF HoldersInv

LEMMA OrderKeepsHolders ==
    ASSUME HoldersInv, LedgerInv', NEW l \in Legs, OrderArrives(l)
    PROVE  HoldersInv'
<1>t. payment \in [Payments -> Row] BY DEF HoldersInv, LedgerInv, TypeOK
<1>1. panel' = panel /\ claim' = claim /\ releases' = releases /\ loose' = loose
      BY DEF OrderArrives, history
<1>2. panel[l].code \in Payments \cup {None} BY DEF HoldersInv, LedgerInv, TypeOK, Panel
<1>3. \A p \in Payments : payment'[p] = payment[p] \/ payment'[p].st = "used"
      BY <1>t, <1>2 DEF OrderArrives, Set, Row
<1>4. \A k \in Legs, p \in Payments : Touches(k, p)' = Touches(k, p) /\ Sure(k, p)' = Sure(k, p)
      BY <1>1 DEF Touches, Sure
<1>5. OneTap' /\ GivenBackIsOff' BY <1>1 DEF HoldersInv, OneTap, GivenBackIsOff
<1>6. HeldByItsLeg' BY <1>3 DEF HoldersInv, HeldByItsLeg
<1>7. OneLegAtATill' /\ OneIsSure' BY <1>1, <1>4 DEF HoldersInv, OneLegAtATill, OneIsSure
<1>8. SureOwns' BY <1>1, <1>3, <1>4 DEF HoldersInv, SureOwns, Own
<1> QED BY <1>5, <1>6, <1>7, <1>8 DEF HoldersInv

(* Every step keeps it.                                                      *)
LEMMA StepHoldersInv == HoldersInv /\ [Next]_vars => HoldersInv'
<1> SUFFICES ASSUME HoldersInv, [Next]_vars PROVE HoldersInv'
    OBVIOUS
<1>l. LedgerInv' BY StepTypeOK, StepRowsMakeSense DEF HoldersInv, LedgerInv
<1>1. ASSUME NEW p \in Payments, Confirm(p) \/ OwnerRelease(p) PROVE HoldersInv'
      BY <1>1, <1>l, ConfirmKeepsHolders, OwnerKeepsHolders
<1>2. ASSUME NEW l \in Legs, ClaimFirst(l) \/ ClaimRead(l) \/ ClaimAgain(l) PROVE HoldersInv'
      BY <1>2, <1>l, ClaimKeepsHolders
<1>3. ASSUME NEW l \in Legs, OrderArrives(l) PROVE HoldersInv'
      BY <1>3, <1>l, OrderKeepsHolders
<1>4. ASSUME NEW l \in Legs, NEW p \in Payments, Release(l, p) PROVE HoldersInv'
      BY <1>4, <1>l, ReleaseKeepsHolders
<1>5. CASE (\E l \in Legs : OpenPanel(l) \/ Ask(l) \/ AskFails(l) \/ Sell(l)) \/ UNCHANGED vars
      BY <1>5, <1>l, QuietKeepsHolders
<1>6. ASSUME NEW l \in Legs, TakeOff(l) \/ CloseUnsold(l) \/ \E p \in Payments : TypeCode(l, p)
      PROVE HoldersInv'
      BY <1>6, <1>l, OffKeepsHolders
<1>7. ASSUME NEW l \in Legs, Answer(l) PROVE HoldersInv'
      BY <1>7, <1>l, AnswerKeepsHolders
<1>8. CASE (\E l \in Legs : AnswerLost(l)) \/ (\E t \in Tills : Restart(t))
      BY <1>8, <1>l, LostKeepsHolders
<1>9. ASSUME NEW l \in Legs, NEW p \in Payments, Tap(l, p) PROVE HoldersInv'
      BY <1>9, <1>l, TapKeepsHolders
<1> QED BY <1>1, <1>2, <1>3, <1>4, <1>5, <1>6, <1>7, <1>8, <1>9 DEF Next

LEMMA HoldersAlways == Spec => []HoldersInv
BY InitHoldersInv, StepHoldersInv, PTL DEF Spec

(* For any payments, legs and tills, split bills or not, and any number of   *)
(* lost answers, failed releases, restarts and failed marks: what was tapped *)
(* onto a sale is its till's until an order uses it.                         *)
THEOREM SoldPaymentsStayHeld == Spec => []SoldStaysHeld
<1>1. HoldersInv => SoldStaysHeld
  <2> SUFFICES ASSUME HoldersInv, NEW l \in Legs, panel[l].taken # None,
                      panel[l].taken \notin loose
               PROVE \/ payment[panel[l].taken].st = "used"
                     \/ /\ payment[panel[l].taken].st = "held"
                        /\ payment[panel[l].taken].by = TillOf[l]
      BY DEF SoldStaysHeld
  <2>1. panel[l].taken \in Payments BY DEF HoldersInv, LedgerInv, TypeOK, Panel
  <2>2. Sure(l, panel[l].taken) BY DEF Sure
  <2> QED BY <2>1, <2>2 DEF HoldersInv, SureOwns, Own
<1> QED BY <1>1, HoldersAlways, PTL

(* Of any number of tills that tap one payment one has it.                   *)
THEOREM OneTillHasAPayment == Spec => []OneTillPerPayment
<1>1. HoldersInv => OneTillPerPayment
  <2> SUFFICES ASSUME HoldersInv, NEW k \in Legs, NEW l \in Legs, panel[k].taken # None,
                      panel[k].taken = panel[l].taken, panel[k].taken \notin loose
               PROVE TillOf[k] = TillOf[l]
      BY DEF OneTillPerPayment
  <2>1. panel[k].taken \in Payments BY DEF HoldersInv, LedgerInv, TypeOK, Panel
  <2>2. Sure(k, panel[k].taken) /\ Sure(l, panel[k].taken) BY DEF Sure
  <2> QED BY <2>1, <2>2 DEF HoldersInv, OneIsSure
<1> QED BY <1>1, HoldersAlways, PTL

-----------------------------------------------------------------------------
(* WHAT A PAYMENT IS HELD FOR                                                *)
(* While nothing failed no answer is lost, and the leg a row names is sure   *)
(* of the payment, unless its panel was closed before the answer came.       *)

NothingLostYet == faults = 0 => \A l \in Legs : ~claim[l].lost
Backed(p) == \E l \in Legs : payment[p].ref = l /\ Sure(l, p)
OwnerIsSure ==
    faults = 0 => \A p \in Payments \ orphans : payment[p].st = "held" => Backed(p)
HeldInv == HoldersInv /\ NothingLostYet /\ OwnerIsSure

LEMMA InitHeldInv == Init => HeldInv
BY InitHoldersInv DEF Init, HeldInv, NothingLostYet, OwnerIsSure, NoClaim, Free

LEMMA FaultsStay == LedgerInv /\ [Next]_vars /\ faults' = 0 => faults = 0
<1> SUFFICES ASSUME LedgerInv, [Next]_vars PROVE faults' = faults \/ faults' = faults + 1
    BY FaultsAssumption DEF LedgerInv, TypeOK
<1>1. \A l \in Legs : SendRelease(l) => faults' = faults \/ faults' = faults + 1
      BY DEF SendRelease, Fault
<1> QED BY <1>1 DEF Next, vars, Confirm, OwnerRelease, ClaimFirst, ClaimRead, ClaimAgain,
        OrderArrives, OpenPanel, Ask, AskFails, Answer, AnswerLost, TakeOff, CloseUnsold, Sell,
        Release, Tap, TypeCode, Restart, CloudOnly, Fault

LEMMA StepHeldInv == HeldInv /\ [Next]_vars => HeldInv'
<1> SUFFICES ASSUME HeldInv, [Next]_vars, faults' = 0 PROVE
                    /\ \A l \in Legs : ~claim'[l].lost
                    /\ \A p \in Payments \ orphans' :
                          payment'[p].st = "held" => Backed(p)'
    BY StepHoldersInv DEF HeldInv, NothingLostYet, OwnerIsSure
<1>0. faults = 0 BY FaultsStay DEF HeldInv, HoldersInv
<1>h. /\ HoldersInv /\ \A l \in Legs : ~claim[l].lost
      /\ \A p \in Payments \ orphans : payment[p].st = "held" => Backed(p)
      BY <1>0 DEF HeldInv, NothingLostYet, OwnerIsSure
<1>t. /\ payment \in [Payments -> Row] /\ claim \in [Legs -> Claim] /\ releases \subseteq Legs \X Payments
      BY <1>h DEF HoldersInv, LedgerInv, TypeOK
<1>f. \A kind : ~Fault(kind) BY <1>0 DEF Fault
<1>r. \A p \in Payments : payment[p].st = "held" =>
          payment[p].ref \in Legs /\ payment[p].by = TillOf[payment[p].ref]
      BY <1>h DEF HoldersInv, HeldByItsLeg
<1> DEFINE Goal == /\ \A l \in Legs : ~claim'[l].lost
                   /\ \A p \in Payments \ orphans' :
                         payment'[p].st = "held" => Backed(p)'
<1>1. ASSUME NEW q \in Payments, Confirm(q) PROVE Goal
  <2>1. /\ payment'[q] = Free /\ \A p \in Payments : p # q => payment'[p] = payment[p]
        /\ claim' = claim /\ panel' = panel /\ releases' = releases /\ orphans' = orphans
        BY <1>1, <1>t DEF Confirm, Set, CloudOnly, history
  <2>2. Free.st = "received" BY DEF Free
  <2> QED BY <1>h, <2>1, <2>2 DEF Sure, Backed
<1>2. ASSUME NEW q \in Payments, OwnerRelease(q) PROVE FALSE
      BY <1>2, <1>f DEF OwnerRelease
<1>3. ASSUME NEW l \in Legs, ClaimFirst(l) \/ ClaimRead(l) \/ ClaimAgain(l) PROVE Goal
  <2>1. /\ panel' = panel /\ releases' = releases /\ orphans' = orphans
        /\ claim[l].at # "none" /\ claim[l].at # "ok"
        BY <1>3 DEF ClaimFirst, ClaimRead, ClaimAgain, CloudOnly, history
  <2>q. claim[l].p \in Payments BY <1>h, <2>1 DEF HoldersInv, LedgerInv, RowsMakeSense
  <2>2. PICK v \in {"ok", "read", "again", "refused"} :
           /\ claim' = [claim EXCEPT ![l].at = v]
           /\ \/ payment' = payment
              \/ v = "ok" /\ payment' = [payment EXCEPT ![claim[l].p] = Held(l)]
        BY <1>3 DEF ClaimFirst, ClaimRead, ClaimAgain, Set
  <2>3. /\ claim'[l].p = claim[l].p /\ claim'[l].at = v /\ claim'[l].lost = claim[l].lost
        /\ \A k \in Legs : k # l => claim'[k] = claim[k]
        BY <1>t, <2>2 DEF Claim
  <2>4. \A k \in Legs, p \in Payments : Sure(k, p) => Sure(k, p)'
        BY <2>1, <2>3 DEF Sure
  <2>5. \A k \in Legs : ~claim'[k].lost BY <1>h, <2>3
  <2>6. CASE payment' = payment BY <1>h, <1>r, <2>1, <2>4, <2>5, <2>6 DEF Backed
  <2>7. CASE v = "ok" /\ payment' = [payment EXCEPT ![claim[l].p] = Held(l)]
    <3> PICK q \in Payments : q = claim[l].p BY <2>q
    <3>1. /\ payment'[q] = Held(l)
          /\ \A p \in Payments : p # q => payment'[p] = payment[p]
          BY <1>t, <2>7
    <3>2. Held(l).ref = l BY DEF Held
    <3>3. Sure(l, q)' BY <2>3, <2>7 DEF Sure
    <3>4. Backed(q)' BY <3>1, <3>2, <3>3 DEF Backed
    <3>5. \A p \in Payments : p # q /\ Backed(p) => Backed(p)'
          BY <2>4, <3>1 DEF Backed
    <3>6. \A p \in Payments \ orphans : payment'[p].st = "held" => Backed(p)'
          BY <1>h, <3>1, <3>4, <3>5
    <3> QED BY <2>1, <2>5, <3>6
  <2> QED BY <2>2, <2>6, <2>7
<1>4. ASSUME NEW l \in Legs, OrderArrives(l) PROVE Goal
  <2>1. panel[l].code \in Payments \cup {None} BY <1>h DEF HoldersInv, LedgerInv, TypeOK, Panel
  <2>2. \A p \in Payments : payment'[p] = payment[p] \/ payment'[p].st = "used"
        BY <1>4, <1>t, <2>1 DEF OrderArrives, Set, Row
  <2>3. claim' = claim /\ panel' = panel /\ releases' = releases /\ orphans' = orphans
        BY <1>4 DEF OrderArrives, history
  <2> QED BY <1>h, <2>2, <2>3 DEF Sure, Backed
<1>5. ASSUME NEW l \in Legs, NEW q \in Payments, Release(l, q) PROVE Goal
  <2>1. /\ releases' = releases \ {<<l, q>>} /\ claim' = claim /\ panel' = panel
        /\ orphans' = orphans
        BY <1>5 DEF Release, history
  <2>2. /\ \A p \in Payments : p # q => payment'[p] = payment[p]
        /\ payment'[q] = IF Own(l, q) THEN Free ELSE payment[q]
        BY <1>5, <1>t DEF Release, Set
  <2>3. Free.st = "received" BY DEF Free
  <2>4. ASSUME NEW p \in Payments \ orphans, payment'[p].st = "held"
        PROVE Backed(p)'
    <3>1. payment'[p] = payment[p] BY <2>2, <2>3, <2>4
    <3>2. ~(payment[p].ref = l /\ p = q) BY <1>r, <2>2, <2>3, <2>4, <3>1 DEF Own
    <3> QED BY <1>h, <2>1, <2>4, <3>1, <3>2 DEF Sure, Backed
  <2> QED BY <1>h, <2>1, <2>4
<1>6. CASE (\E l \in Legs : OpenPanel(l) \/ Ask(l) \/ AskFails(l) \/ Sell(l)) \/ UNCHANGED vars
  <2>1. LedgerInv' BY StepTypeOK, StepRowsMakeSense, <1>h DEF HoldersInv, LedgerInv
  <2>2. /\ \A l \in Legs : SameLeg(l)
        /\ payment' = payment /\ releases' = releases /\ orphans' = orphans
        BY <1>6, <1>h, <2>1, QuietLegs
  <2> QED BY <1>h, <1>r, <2>2, ZenonT(60) DEF SameLeg, Sure, Backed
<1>7. ASSUME NEW l \in Legs, TakeOff(l) \/ CloseUnsold(l) \/ \E p \in Payments : TypeCode(l, p)
      PROVE Goal
  <2>1. /\ panel'[l].taken = None /\ \A k \in Legs : k # l => SameLeg(k)
        /\ claim' = claim /\ payment' = payment /\ orphans' = orphans
        /\ releases' = releases \cup GivenBack(l)
        BY <1>7, <1>h, <1>f, OffTheLeg
  <2>2. \A k \in Legs, p \in Payments : Sure(k, p) => Sure(k, p)'
        BY <2>1, LegsAssumption DEF Sure, SameLeg, GivenBack
  <2> QED BY <1>h, <1>r, <2>1, <2>2 DEF Backed
<1>8. ASSUME NEW l \in Legs, Answer(l) PROVE Goal
  <2>1. /\ claim'[l] = NoClaim /\ \A k \in Legs : k # l => SameLeg(k)
        /\ payment' = payment /\ releases' = releases
        /\ \/ panel'[l].taken = panel[l].taken
           \/ claim[l].at = "ok" /\ panel'[l].taken = claim[l].p
        /\ claim[l].at = "ok" /\ Open(l) /\ ~claim[l].lost => panel'[l].taken = claim[l].p
        /\ claim[l].at = "ok" /\ ~Open(l) => orphans' = orphans \cup {claim[l].p}
        /\ orphans \subseteq orphans'
        BY <1>8, <1>h, AnsweredLeg
  <2>2. \A k \in Legs, p \in Payments \ orphans' : Sure(k, p) => Sure(k, p)'
    <3> SUFFICES ASSUME NEW k \in Legs, NEW p \in Payments \ orphans', Sure(k, p)
                 PROVE Sure(k, p)'
        OBVIOUS
    <3>1. CASE k # l BY <2>1, <3>1 DEF Sure, SameLeg
    <3>2. CASE k = l /\ <<l, p>> \in releases BY <2>1, <3>2 DEF Sure
    <3>3. CASE k = l /\ panel[l].taken = p
      <4>1. claim[l].p = None BY <1>h, <3>3, LegsAssumption DEF HoldersInv, OneTap
      <4>2. claim[l].at # "ok"
            BY <1>h, <4>1, LegsAssumption DEF HoldersInv, LedgerInv, RowsMakeSense
      <4> QED BY <2>1, <3>3, <4>2 DEF Sure
    <3>4. CASE k = l /\ claim[l].p = p /\ claim[l].at = "ok"
      <4>1. Open(l) BY <2>1, <3>4
      <4>2. panel'[l].taken = p BY <1>h, <2>1, <3>4, <4>1
      <4> QED BY <3>4, <4>2 DEF Sure
    <3> QED BY <3>1, <3>2, <3>3, <3>4 DEF Sure
  <2>3. ~NoClaim.lost BY DEF NoClaim
  <2> QED BY <1>h, <1>r, <2>1, <2>2, <2>3 DEF SameLeg, Backed
<1>9. CASE (\E l \in Legs : AnswerLost(l)) \/ (\E t \in Tills : Restart(t))
      BY <1>9, <1>f DEF AnswerLost, Restart
<1>10. ASSUME NEW l \in Legs, NEW q \in Payments, Tap(l, q) PROVE Goal
  <2>1. /\ claim[l] = NoClaim /\ claim'[l] = [NoClaim EXCEPT !.p = q, !.at = "first"]
        /\ \A k \in Legs : k # l => claim'[k] = claim[k]
        /\ panel' = panel /\ payment' = payment /\ releases' = releases /\ orphans' = orphans
        BY <1>10, <1>t DEF Tap, Screen
  <2>2. NoClaim.at = "none" /\ ~claim'[l].lost BY <2>1 DEF NoClaim
  <2>3. \A k \in Legs, p \in Payments : Sure(k, p) => Sure(k, p)'
        BY <2>1, <2>2 DEF Sure
  <2> QED BY <1>h, <1>r, <2>1, <2>2, <2>3 DEF Backed
<1> QED BY <1>1, <1>2, <1>3, <1>4, <1>5, <1>6, <1>7, <1>8, <1>9, <1>10 DEF Next

(* For any payments, legs and tills: while nothing failed, what a till holds *)
(* is on a leg of its, or a claim or release of it is on its way, unless its *)
(* panel was closed before the claim was answered.                           *)
THEOREM HeldPaymentsHaveALeg == Spec => []HeldForALeg
<1>1. HeldInv => HeldForALeg
  <2> SUFFICES ASSUME HeldInv, faults = 0, NEW p \in Payments \ orphans, payment[p].st = "held"
               PROVE \E l \in Legs : \/ panel[l].taken = p \/ claim[l].p = p
                                     \/ <<l, p>> \in releases
      BY DEF HeldForALeg
  <2>1. Backed(p) BY DEF HeldInv, OwnerIsSure
  <2> QED BY <2>1 DEF Backed, Sure
<1> QED BY <1>1, InitHeldInv, StepHeldInv, PTL DEF Spec
=============================================================================
