------------------------ MODULE SessionRenewalProofs ------------------------
(***************************************************************************)
(* Proofs about SessionRenewal, for any number of tokens and faults.       *)
(***************************************************************************)
EXTENDS SessionRenewal, TLAPS

USE DEF Token, NoToken, NoSecret, Busy, AtWork, HasSuccessor

\* The types of all but the history of turns.
PartsOK == RowsOK /\ RequestsOK /\ TillOK /\ BudgetOK

----------------------------------------------------------------------------
(* Types.                                                                  *)

LEMMA TypeInit == Init => TypeOK
<1> SUFFICES ASSUME Init PROVE TypeOK
  OBVIOUS
<1>1. NewRow(1) \in Row /\ NoRow \in Row
  BY DEF Row, NoRow, NewRow
<1>2. RowsOK
  BY <1>1, RenewalAssumption DEF Init, RowsOK, NewRow, NoRow
<1>3. RequestsOK
  BY DEF Init, RequestsOK, Renewal, Free
<1>4. TillOK
  BY RenewalAssumption DEF Init, TillOK, Nothing
<1>5. BudgetOK
  BY RenewalAssumption DEF Init, BudgetOK
<1>6. TurnsOK
  BY DEF Init, TurnsOK
<1> QED BY <1>2, <1>3, <1>4, <1>5, <1>6 DEF TypeOK

LEMMA TypeSame == TypeOK /\ UNCHANGED vars => PartsOK'
  BY DEF PartsOK, TypeOK, RowsOK, RequestsOK, TillOK, BudgetOK, vars, cloudVars,
         ackVars, tillVars

\* Marking a row leaves the chains as they are.
LEMMA MarkType ==
  ASSUME RowsOK, rows' \in [Token -> Row],
         \A t \in Token : /\ rows'[t].next = rows[t].next
                          /\ rows'[t].stored = rows[t].stored,
         UNCHANGED <<minted, hash, issued>>
  PROVE  RowsOK'
  BY DEF RowsOK

LEMMA RetiredType ==
  ASSUME NEW r \in [Token -> Row], NEW p \in Token
  PROVE  /\ RetiredBy(r, p) \in [Token -> Row]
         /\ \A t \in Token : /\ RetiredBy(r, p)[t].next = r[t].next
                             /\ RetiredBy(r, p)[t].stored = r[t].stored
                             /\ RetiredBy(r, p)[t].acked = r[t].acked
                             /\ RetiredBy(r, p)[t].session = r[t].session
  BY DEF RetiredBy, Row

LEMMA ConfirmType ==
  ASSUME RowsOK, NEW p \in Token, Confirm(p)
  PROVE  /\ rows' \in [Token -> Row]
         /\ \A t \in Token : /\ rows'[t].next = rows[t].next
                             /\ rows'[t].stored = rows[t].stored
                             /\ rows'[t].revoked = rows[t].revoked
                             /\ t # p => rows'[t] = rows[t]
  BY DEF RowsOK, Confirm, Row

LEMMA RevokeType ==
  ASSUME RowsOK, NEW p, rows' = [rows EXCEPT ![p].revoked = TRUE]
  PROVE  /\ rows' \in [Token -> Row]
         /\ \A t \in Token : /\ rows'[t].next = rows[t].next
                             /\ rows'[t].stored = rows[t].stored
                             /\ rows'[t].acked = rows[t].acked
                             /\ t # p => rows'[t] = rows[t]
  BY DEF RowsOK, Row

LEMMA RetireKeepsRows ==
  ASSUME RowsOK, NEW p \in Token, rows' = RetiredBy(rows, p),
         UNCHANGED <<minted, hash, issued>>
  PROVE  RowsOK'
<1>1. rows \in [Token -> Row]
  BY DEF RowsOK
<1>2. /\ rows' \in [Token -> Row]
      /\ \A t \in Token : /\ rows'[t].next = rows[t].next
                          /\ rows'[t].stored = rows[t].stored
  BY <1>1, RetiredType
<1> QED BY <1>2, MarkType

LEMMA NewRowType ==
  ASSUME RowsOK, NEW n \in Token, NEW x \in Nat, n = minted + 1,
         rows' = [rows EXCEPT ![n] = NewRow(x)] \/ rows' = rows,
         minted' = n, UNCHANGED <<hash, issued>>
  PROVE  RowsOK'
<1>1. NewRow(x) \in Row /\ NewRow(x).next = NoToken
  BY DEF Row, NoRow, NewRow
<1>2. rows' \in [Token -> Row]
  BY <1>1 DEF RowsOK
<1>3. minted' \in Token /\ issued' \in Nat /\ hash' \in 0 .. issued'
  BY DEF RowsOK
<1>4. ASSUME NEW t \in Token
      PROVE  /\ rows'[t].stored => t <= minted'
             /\ rows'[t].next # 0 => rows'[t].next \in t + 1 .. minted'
  <2>1. CASE t = n /\ rows' = [rows EXCEPT ![n] = NewRow(x)]
    BY <1>1, <2>1 DEF RowsOK
  <2>2. CASE rows'[t] = rows[t]
    BY <2>2 DEF RowsOK
  <2> QED BY <2>1, <2>2 DEF RowsOK
<1> QED BY <1>2, <1>3, <1>4 DEF RowsOK

LEMMA LinkType ==
  ASSUME RowsOK, NEW p \in Token, NEW n \in p + 1 .. minted,
         rows' = [rows EXCEPT ![p].next = n],
         UNCHANGED <<minted, hash, issued>>
  PROVE  /\ RowsOK'
         /\ \A t \in Token : /\ rows'[t].revoked = rows[t].revoked
                             /\ rows'[t].acked = rows[t].acked
                             /\ t # p => rows'[t] = rows[t]
<1>1. rows' \in [Token -> Row]
  BY DEF RowsOK, Row
<1>2. ASSUME NEW t \in Token
      PROVE  /\ rows'[t].revoked = rows[t].revoked
             /\ rows'[t].acked = rows[t].acked
             /\ rows'[t].stored = rows[t].stored
             /\ t # p => rows'[t] = rows[t]
             /\ t = p => rows'[t].next = n
  BY DEF RowsOK, Row
<1> QED BY <1>1, <1>2 DEF RowsOK

LEMMA BudgetType ==
  ASSUME BudgetOK, Works \/ Fails
  PROVE  BudgetOK'
<1>1. faults' \in Nat
  BY DEF BudgetOK, Works, Fails
<1>2. spoilt' \in BOOLEAN
  BY Zenon DEF BudgetOK, Works, Fails
<1> QED BY <1>1, <1>2 DEF BudgetOK

LEMMA TokenInHand ==
  ASSUME RowsOK, RequestsOK, NEW i \in Request, req[i].pc # "free"
  PROVE  /\ req[i].tok \in Token /\ req[i].tok \in 1 .. minted
         /\ rows[req[i].tok] \in Row
<1>1. i \in Busy
  OBVIOUS
<1>2. req[i].tok \in 1 .. minted
  BY <1>1 DEF RequestsOK
<1> QED BY <1>2, RenewalAssumption DEF RowsOK

LEMMA FreeType ==
  ASSUME RequestsOK, NEW i \in Request, req' = [req EXCEPT ![i] = Free],
         UNCHANGED <<minted, acks, acking, retiring>>
  PROVE  RequestsOK'
  BY DEF RequestsOK, Renewal, Free

LEMMA TypeCloud ==
  ASSUME TypeOK, NEW i \in Request, CloudStep(i)
  PROVE  PartsOK'
<1>1. CASE ReadRefused(i)
  <2> USE <1>1 DEF ReadRefused, Refuse, TypeOK, PartsOK
  <2>1. RowsOK'
    BY DEF RowsOK, cloudVars
  <2>2. RequestsOK'
    BY FreeType DEF cloudVars, ackVars
  <2>3. TillOK'
    BY DEF TillOK, cloudVars
  <2>4. BudgetOK'
    BY BudgetType DEF BudgetOK
  <2> QED BY <2>1, <2>2, <2>3, <2>4
<1>2. CASE ReadToken(i)
  <2> USE <1>2 DEF ReadToken, TypeOK, PartsOK
  <2>1. RowsOK'
    BY SMTT(30) DEF RowsOK, cloudVars
  <2>2. RequestsOK'
    <3>1. PICK m \in BOOLEAN : ReadToken(i)!(m)
      BY Zenon
    <3>2. req[i].tok \in 1 .. minted /\ rows[req[i].tok].next \in Nat
      BY TokenInHand DEF Row
    <3>3. Reasked(req[i].tok) \in BOOLEAN /\ (req[i].lost /\ m) \in BOOLEAN
      BY Zenon DEF Reasked
    <3>4. hash \in Nat
      BY DEF RowsOK
    <3>5. req' \in [Request -> Renewal]
      BY <3>1, <3>2, <3>3, <3>4 DEF RequestsOK, Renewal
    <3>6. /\ req'[i].tok = req[i].tok
          /\ req'[i].pc \in {"confirm", "orphan", "store"}
          /\ \A j \in Request : j # i => req'[j] = req[j]
      BY <3>1 DEF RequestsOK, Renewal
    <3> HIDE DEF ReadToken
    <3> QED BY <3>1, <3>2, <3>5, <3>6
            DEF RequestsOK, cloudVars, ackVars
  <2>3. TillOK'
    BY DEF TillOK, cloudVars, tillVars
  <2>4. BudgetOK'
    BY BudgetType DEF BudgetOK
  <2> QED BY <2>1, <2>2, <2>3, <2>4
<1>3. CASE ConfirmOnUse(i)
  <2> USE <1>3 DEF ConfirmOnUse, Step, TypeOK, PartsOK
  <2>1. RowsOK'
    <3>1. req[i].tok \in Token
      BY TokenInHand
    <3>2. CASE Confirm(req[i].tok)
      BY <3>1, <3>2, ConfirmType, MarkType
    <3>3. CASE UNCHANGED rows
      BY <3>3 DEF RowsOK
    <3> QED BY <3>2, <3>3
  <2>2. RequestsOK'
    BY DEF RequestsOK, Renewal, ackVars
  <2>3. TillOK'
    BY DEF RowsOK, TillOK, tillVars
  <2>4. BudgetOK'
    BY BudgetType DEF BudgetOK
  <2> QED BY <2>1, <2>2, <2>3, <2>4
<1>4. CASE RetireParent(i)
  <2> USE <1>4 DEF RetireParent, Step, TypeOK, PartsOK
  <2>1. RowsOK'
    <3>1. req[i].tok \in Token
      BY TokenInHand
    <3>2. CASE rows' = RetiredBy(rows, req[i].tok)
      BY <3>1, <3>2, RetireKeepsRows
    <3>3. CASE UNCHANGED rows
      BY <3>3 DEF RowsOK
    <3> QED BY <3>2, <3>3
  <2>2. RequestsOK'
    BY DEF RequestsOK, Renewal, ackVars, AfterConfirm
  <2>3. TillOK'
    BY DEF RowsOK, TillOK, tillVars
  <2>4. BudgetOK'
    BY BudgetType DEF BudgetOK
  <2> QED BY <2>1, <2>2, <2>3, <2>4
<1>5. CASE RevokeOrphan(i)
  <2> USE <1>5 DEF RevokeOrphan, Step, TypeOK, PartsOK
  <2>1. RowsOK'
    <3>1. CASE rows' = [rows EXCEPT ![req[i].orphan].revoked = TRUE]
      BY <3>1, RevokeType, MarkType
    <3>2. CASE UNCHANGED rows
      BY <3>2 DEF RowsOK
    <3> QED BY <3>1, <3>2
  <2>2. RequestsOK'
    BY DEF RequestsOK, Renewal, ackVars
  <2>3. TillOK'
    BY DEF RowsOK, TillOK, tillVars
  <2>4. BudgetOK'
    BY BudgetType DEF BudgetOK
  <2> QED BY <2>1, <2>2, <2>3, <2>4
<1>6. CASE StoreToken(i)
  <2> USE <1>6 DEF StoreToken, TypeOK, PartsOK
  <2>1. RowsOK'
    <3>1. minted + 1 \in Token /\ rows[req[i].tok].session \in Nat
      BY RenewalAssumption DEF RowsOK, RequestsOK, Row
    <3> QED BY <3>1, NewRowType
  <2>2. RequestsOK'
    <3>1. minted' = minted + 1 /\ minted \in Nat
      BY DEF RowsOK
    <3>2. req[i].tok \in 1 .. minted
      BY DEF RequestsOK
    <3> QED BY <3>1, <3>2 DEF RequestsOK, Renewal, AfterStore, ackVars
  <2>3. TillOK'
    BY DEF RowsOK, TillOK, tillVars
  <2>4. BudgetOK'
    BY BudgetType DEF BudgetOK
  <2> QED BY <2>1, <2>2, <2>3, <2>4
<1>7. CASE LinkToken(i)
  <2> USE <1>7 DEF LinkToken, Step, TypeOK, PartsOK
  <2>1. RowsOK'
    <3>1. req[i].tok \in Token /\ req[i].new \in req[i].tok + 1 .. minted
      BY TokenInHand DEF RequestsOK
    <3>2. CASE rows' = [rows EXCEPT ![req[i].tok].next = req[i].new]
      BY <3>1, <3>2, LinkType
    <3>3. CASE UNCHANGED rows
      BY <3>3 DEF RowsOK
    <3> QED BY <3>2, <3>3
  <2>2. RequestsOK'
    BY DEF RequestsOK, Renewal, ackVars, AfterStore
  <2>3. TillOK'
    BY DEF RowsOK, TillOK, tillVars
  <2>4. BudgetOK'
    BY BudgetType DEF BudgetOK
  <2> QED BY <2>1, <2>2, <2>3, <2>4
<1>8. CASE IssueSecret(i)
  <2> USE <1>8 DEF IssueSecret, Step, TypeOK, PartsOK
  <2>1. RowsOK'
    BY DEF RowsOK
  <2>2. RequestsOK'
    <3>1. issued' \in Nat
      BY DEF RowsOK
    <3> QED BY <3>1 DEF RequestsOK, Renewal, ackVars
  <2>3. TillOK'
    BY DEF RowsOK, TillOK, tillVars
  <2>4. BudgetOK'
    BY BudgetType DEF BudgetOK
  <2> QED BY <2>1, <2>2, <2>3, <2>4
<1>9. CASE Answer(i)
  <2> USE <1>9 DEF Answer, TypeOK, PartsOK
  <2>1. RowsOK'
    BY DEF RowsOK, cloudVars
  <2>2. RequestsOK'
    BY FreeType DEF cloudVars, ackVars
  <2>3. TillOK'
    BY SMTT(30) DEF RowsOK, RequestsOK, TillOK, cloudVars, Renewal
  <2>4. BudgetOK'
    BY BudgetType DEF BudgetOK
  <2> QED BY <2>1, <2>2, <2>3, <2>4
<1> QED BY <1>1, <1>2, <1>3, <1>4, <1>5, <1>6, <1>7, <1>8, <1>9 DEF CloudStep

LEMMA TypeLose ==
  ASSUME TypeOK, NEW i \in Request, Lose(i)
  PROVE  PartsOK'
<1> USE DEF Lose, TypeOK, PartsOK
<1>1. RowsOK'
  BY DEF RowsOK, cloudVars
<1>2. RequestsOK'
  BY FreeType DEF cloudVars, ackVars
<1>3. TillOK'
  BY DEF TillOK, cloudVars
<1>4. faults' \in Nat
  BY DEF BudgetOK
<1>5. spoilt' \in BOOLEAN
  BY Zenon
<1> QED BY <1>1, <1>2, <1>3, <1>4, <1>5 DEF BudgetOK

LEMMA TypeAck ==
  ASSUME TypeOK, NEW t \in Token,
         AckRead(t) \/ AckConfirm(t) \/ AckRetire(t) \/ LoseAck(t)
  PROVE  PartsOK'
<1> USE DEF TypeOK, PartsOK
<1>1. CASE AckRead(t)
  <2> USE <1>1 DEF AckRead
  <2>1. RowsOK' /\ TillOK' /\ BudgetOK'
    BY DEF RowsOK, TillOK, BudgetOK, cloudVars, tillVars
  <2>2. RequestsOK'
    BY DEF RequestsOK, cloudVars
  <2> QED BY <2>1, <2>2
<1>2. CASE AckConfirm(t)
  <2> USE <1>2 DEF AckConfirm
  <2>1. RowsOK'
    <3>1. CASE Confirm(t)
      BY <3>1, ConfirmType, MarkType
    <3>2. CASE UNCHANGED rows
      BY <3>2 DEF RowsOK
    <3> QED BY <3>1, <3>2
  <2>2. RequestsOK'
    BY DEF RequestsOK
  <2>3. TillOK'
    BY DEF TillOK, tillVars
  <2>4. BudgetOK'
    BY BudgetType
  <2> QED BY <2>1, <2>2, <2>3, <2>4
<1>3. CASE AckRetire(t)
  <2> USE <1>3 DEF AckRetire
  <2>1. RowsOK'
    <3>1. CASE rows' = RetiredBy(rows, t)
      BY <3>1, RetireKeepsRows
    <3>2. CASE UNCHANGED rows
      BY <3>2 DEF RowsOK
    <3> QED BY <3>1, <3>2
  <2>2. RequestsOK'
    BY DEF RequestsOK
  <2>3. TillOK'
    BY DEF TillOK, tillVars
  <2>4. BudgetOK'
    BY BudgetType
  <2> QED BY <2>1, <2>2, <2>3, <2>4
<1>4. CASE LoseAck(t)
  <2> USE <1>4 DEF LoseAck
  <2>1. RowsOK' /\ TillOK'
    BY DEF RowsOK, TillOK, cloudVars, tillVars
  <2>2. RequestsOK'
    BY DEF RequestsOK, cloudVars
  <2>3. BudgetOK'
    BY DEF BudgetOK
  <2> QED BY <2>1, <2>2, <2>3
<1> QED BY <1>1, <1>2, <1>3, <1>4

LEMMA TypeTill ==
  ASSUME TypeOK, TillStep \/ GiveUp \/ Restart
  PROVE  PartsOK'
<1> USE DEF TypeOK, PartsOK
<1>1. ASSUME NEW i \in Request, SendRenewal(i)
      PROVE  PartsOK'
  <2> USE <1>1 DEF SendRenewal
  <2>1. RowsOK' /\ BudgetOK'
    BY DEF RowsOK, BudgetOK, cloudVars
  <2>2. TillOK'
    BY DEF TillOK, cloudVars
  <2>3. RequestsOK'
    <3>1. disk \in 1 .. minted /\ (secret = NoSecret) \in BOOLEAN
      BY DEF TillOK
    <3> DEFINE Sent(l) == [Free EXCEPT !.pc = "sent", !.tok = disk, !.lost = l]
    <3>2. Sent(TRUE) \in Renewal /\ Sent(FALSE) \in Renewal
      <4>1. disk \in Nat
        BY <3>1 DEF RowsOK
      <4> HIDE DEF SendRenewal
      <4> QED BY <4>1 DEF Renewal, Free
    <3>3. req' = [req EXCEPT ![i] = Sent(TRUE)] \/ req' = [req EXCEPT ![i] = Sent(FALSE)]
      <4>1. (secret = NoSecret) = TRUE \/ (secret = NoSecret) = FALSE
        BY Zenon
      <4>2. req' = [req EXCEPT ![i] = Sent(secret = NoSecret)]
        OBVIOUS
      <4> HIDE DEF SendRenewal
      <4> QED BY <4>1, <4>2, Zenon
    <3>4. req' \in [Request -> Renewal]
      BY <3>2, <3>3 DEF RequestsOK
    <3>5. /\ req'[i].tok = disk /\ req'[i].pc = "sent"
          /\ \A j \in Request : j # i => req'[j] = req[j]
      BY DEF RequestsOK, Free
    <3> HIDE DEF SendRenewal
    <3>6. UNCHANGED <<minted, acks, acking, retiring>>
      BY DEF SendRenewal, cloudVars, ackVars
    <3> QED BY <3>1, <3>4, <3>5, <3>6 DEF RequestsOK
  <2> QED BY <2>1, <2>2, <2>3
<1>2. CASE KeepRenewedPair
  <2> USE <1>2 DEF KeepRenewedPair
  <2>1. RowsOK' /\ BudgetOK'
    BY DEF RowsOK, BudgetOK, cloudVars
  <2>2. got.new \in Token /\ got.new \in 1 .. minted
    BY RenewalAssumption DEF RowsOK, TillOK
  <2>3. TillOK'
    BY <2>2 DEF TillOK, cloudVars
  <2>4. RequestsOK'
    BY <2>2 DEF RequestsOK, cloudVars
  <2> QED BY <2>1, <2>3, <2>4
<1>3. CASE WriteDeviceSecret
  BY <1>3 DEF WriteDeviceSecret, RowsOK, RequestsOK, TillOK, BudgetOK,
              cloudVars, ackVars
<1>4. CASE DeviceGrant
  <2> USE <1>4 DEF DeviceGrant
  <2>1. /\ rows' = [rows EXCEPT ![minted'] = NewRow(minted')] \/ rows' = rows
        /\ \/ disk' = minted' /\ kept' = kept \cup {minted'}
           \/ UNCHANGED <<disk, kept>>
        /\ faults' = faults \/ (faults > 0 /\ faults' = faults - 1)
        /\ UNCHANGED <<hash, issued>>
    OBVIOUS
  <2>2. minted + 1 \in Token /\ minted' = minted + 1 /\ minted \in Nat
    BY RenewalAssumption DEF RowsOK
  <2>3. RowsOK'
    <3> HIDE DEF DeviceGrant
    <3> QED BY <2>1, <2>2, NewRowType
  <2>4. RequestsOK'
    BY <2>2 DEF RequestsOK, ackVars
  <2>5. TillOK'
    BY <2>1, <2>2 DEF TillOK
  <2>6. BudgetOK'
    BY <2>1 DEF BudgetOK
  <2> QED BY <2>3, <2>4, <2>5, <2>6
<1>5. CASE HoldBack
  BY <1>5 DEF HoldBack, RowsOK, RequestsOK, TillOK, BudgetOK, cloudVars, ackVars
<1>6. CASE GiveUp
  <2> USE <1>6 DEF GiveUp, cloudVars, ackVars
  <2>1. RowsOK'
    BY DEF RowsOK
  <2>2. RequestsOK'
    BY DEF RequestsOK
  <2>3. TillOK'
    BY DEF TillOK
  <2>4. BudgetOK'
    BY DEF BudgetOK
  <2> QED BY <2>1, <2>2, <2>3, <2>4
<1>7. CASE Restart
  <2> USE <1>7 DEF Restart, cloudVars, ackVars
  <2>1. RowsOK'
    BY DEF RowsOK
  <2>2. RequestsOK'
    BY DEF RequestsOK
  <2>3. TillOK'
    BY DEF RowsOK, TillOK, Nothing
  <2>4. BudgetOK'
    BY DEF BudgetOK
  <2> QED BY <2>1, <2>2, <2>3, <2>4
<1> QED BY <1>1, <1>2, <1>3, <1>4, <1>5, <1>6, <1>7 DEF TillStep

LEMMA TurnsStep ==
  ASSUME TypeOK, [Next]_vars
  PROVE  TurnsOK' /\ (crossed => crossed')
<1>1. /\ late \subseteq Request /\ crossed \in BOOLEAN
      /\ Busy \subseteq Request
  BY DEF TypeOK, TurnsOK
<1> HIDE DEF Busy, AtWork
<1>2. late' \subseteq Request
  <2>1. late' \subseteq late \cup Busy
    BY DEF Next, CloudStep, ReadRefused, Refuse, ReadToken, ConfirmOnUse,
           RetireParent, RevokeOrphan, StoreToken, LinkToken, IssueSecret,
           Answer, Lose, AckRead, AckConfirm, AckRetire, LoseAck, TillStep,
           SendRenewal, KeepRenewedPair, WriteDeviceSecret, DeviceGrant,
           HoldBack, GiveUp, Restart, turnVars, vars
  <2> QED BY <1>1, <2>1
<1>3. crossed' \in BOOLEAN /\ (crossed => crossed')
  <2>1. \/ crossed' = crossed
        \/ \E i \in Request : crossed' = (crossed \/ Crosses(i))
        \/ crossed' = (crossed \/ AtWork # {})
    BY Zenon DEF Next, CloudStep, ReadRefused, Refuse, ReadToken, ConfirmOnUse,
           RetireParent, RevokeOrphan, StoreToken, LinkToken, IssueSecret,
           Answer, Lose, AckRead, AckConfirm, AckRetire, LoseAck, TillStep,
           SendRenewal, KeepRenewedPair, WriteDeviceSecret, DeviceGrant,
           HoldBack, GiveUp, Restart, turnVars, vars
  <2> QED BY <1>1, <2>1, Zenon
<1> QED BY <1>2, <1>3 DEF TurnsOK

LEMMA TypeStep == TypeOK /\ [Next]_vars => TypeOK'
  BY TypeSame, TypeCloud, TypeLose, TypeAck, TypeTill, TurnsStep
     DEF Next, TypeOK, PartsOK

\* Types hold, and chains of replaced tokens only go forward, whatever fails
\* and however renewals overlap (routes/auth.ts, syncEngine.ts).
THEOREM RenewalTypes == Spec => []TypeOK
  BY TypeInit, TypeStep, PTL DEF Spec

----------------------------------------------------------------------------
(* One renewal at work, in its turn.                                       *)

LEMMA TurnInit == Init => InTurn
  BY DEF Init, InTurn, Free

\* How a step of a renewal that goes on changes it: one already at work, or one
\* read while no other is and that is not late.
GoesOn(i) ==
    /\ \/ i \in AtWork
       \/ req[i].pc = "sent" /\ AtWork = {} /\ i \notin late
    /\ req'[i].pc \notin {"free", "sent"}
    /\ req'[i].tok = req[i].tok
    /\ \A j \in Request : j # i => req'[j] = req[j]
    /\ UNCHANGED <<disk, secret, pc, slot, got, code, kept>>
    /\ UNCHANGED <<acks, acking, retiring, late>>

LEMMA TurnGoesOn ==
  ASSUME InTurn, NEW i \in Request, GoesOn(i)
  PROVE  /\ InTurn' /\ AtWork \subseteq {i} /\ AtWork' = {i} /\ Busy' = Busy
         /\ i \in Busy \ late /\ req[i].tok = disk /\ req'[i].tok = disk
         /\ pc \notin {"received", "renewed"}
<1>1. /\ i \in Busy \ late /\ AtWork \subseteq {i} /\ AtWork' = {i} /\ Busy' = Busy
  BY DEF GoesOn, InTurn
<1>2. UNCHANGED <<disk, pc, slot, late>>
  BY DEF GoesOn
<1>3. \A j \in Busy : req'[j].tok = req[j].tok
  BY DEF GoesOn
<1> HIDE DEF Busy, AtWork
<1> QED BY <1>1, <1>2, <1>3 DEF InTurn

LEMMA TurnEnds ==
  ASSUME InTurn, RequestsOK, TillOK, NEW i \in Request, i \in Busy,
         req' = [req EXCEPT ![i] = Free], UNCHANGED disk,
         IF slot = i
         THEN /\ slot' = NoRequest /\ pc' \in {"refused", "received", "idle"}
              /\ IF pc' = "received" THEN i \in AtWork /\ late' = Busy \ {i}
                                     ELSE late' = late
         ELSE UNCHANGED <<pc, slot, late>>
  PROVE  /\ InTurn' /\ AtWork' = AtWork \ {i} /\ Busy' = Busy \ {i}
         /\ \A j \in Busy' : req'[j] = req[j]
         /\ Busy' \ late' \subseteq Busy \ late
<1>1. AtWork' = AtWork \ {i} /\ Busy' = Busy \ {i}
  BY DEF RequestsOK, Free
<1>2. \A j \in Busy' : req'[j] = req[j]
  BY DEF RequestsOK, Free
<1>3. AtWork \subseteq Busy
  OBVIOUS
<1> HIDE DEF Busy, AtWork
<1>4. CASE slot = i /\ pc' = "received"
  <2>1. AtWork' = {} /\ Busy' \ late' = {}
    BY <1>1, <1>4 DEF InTurn
  <2> QED BY <1>1, <1>2, <1>3, <1>4, <2>1 DEF InTurn
<1>5. CASE slot = i /\ pc' # "received"
  BY <1>1, <1>2, <1>3, <1>5 DEF InTurn
<1>6. CASE slot # i
  BY <1>1, <1>2, <1>3, <1>6 DEF InTurn
<1> QED BY <1>4, <1>5, <1>6

LEMMA ReadGoesOn ==
  ASSUME RequestsOK, NEW i \in Request, ReadToken(i), ~crossed'
  PROVE  /\ GoesOn(i) /\ req'[i].pc \in {"confirm", "orphan", "store"}
         /\ req'[i].reask = Reasked(req[i].tok)
         /\ req'[i].orphan = rows[req[i].tok].next
         /\ req'[i].seen = hash /\ req'[i].raw = req[i].raw
         /\ req'[i].lost => req[i].lost
         /\ req'[i].pc = "orphan" => Reasked(req[i].tok)
  BY DEF ReadToken, Crosses, RequestsOK, Renewal, GoesOn, tillVars, ackVars, turnVars

LEMMA ConfirmGoesOn ==
  ASSUME RequestsOK, NEW i \in Request, ConfirmOnUse(i)
  PROVE  GoesOn(i) /\ req' = [req EXCEPT ![i].pc = "retire"]
  BY DEF ConfirmOnUse, Step, RequestsOK, Renewal, GoesOn, tillVars, ackVars, turnVars

LEMMA RetireGoesOn ==
  ASSUME RequestsOK, NEW i \in Request, RetireParent(i)
  PROVE  GoesOn(i) /\ req' = [req EXCEPT ![i].pc = AfterConfirm(i)]
  BY DEF RetireParent, Step, AfterConfirm, RequestsOK, Renewal, GoesOn,
         tillVars, ackVars, turnVars

LEMMA RevokeGoesOn ==
  ASSUME RequestsOK, NEW i \in Request, RevokeOrphan(i)
  PROVE  GoesOn(i) /\ req' = [req EXCEPT ![i].pc = "store"]
  BY DEF RevokeOrphan, Step, RequestsOK, Renewal, GoesOn, tillVars, ackVars, turnVars

LEMMA StoreGoesOn ==
  ASSUME RequestsOK, NEW i \in Request, StoreToken(i)
  PROVE  /\ GoesOn(i) /\ req'[i].pc \in {"link", "secret", "answer"}
         /\ req'[i].new = minted'
         /\ req'[i].seen = req[i].seen /\ req'[i].lost = req[i].lost
         /\ req'[i].raw = req[i].raw
         /\ req'[i].pc = "secret" => NeedsSecret(i)
  BY DEF StoreToken, AfterStore, RequestsOK, Renewal, GoesOn, tillVars, ackVars, turnVars

LEMMA LinkGoesOn ==
  ASSUME RequestsOK, NEW i \in Request, LinkToken(i)
  PROVE  GoesOn(i) /\ req' = [req EXCEPT ![i].pc = AfterStore(i)]
  BY DEF LinkToken, Step, AfterStore, RequestsOK, Renewal, GoesOn, tillVars,
         ackVars, turnVars

LEMMA IssueGoesOn ==
  ASSUME RequestsOK, NEW i \in Request, IssueSecret(i)
  PROVE  /\ GoesOn(i) /\ req'[i].pc = "answer" /\ req'[i].new = req[i].new
         /\ req'[i].lost = req[i].lost
         /\ \/ req'[i].raw = issued' /\ issued' = issued + 1
               /\ hash' = IF hash = req[i].seen THEN issued' ELSE hash
            \/ req'[i].raw = req[i].raw /\ hash' = hash
  BY DEF IssueSecret, Step, RequestsOK, Renewal, GoesOn, tillVars, ackVars, turnVars

LEMMA TurnCloud ==
  ASSUME TypeOK, InTurn, NEW i \in Request, CloudStep(i), ~crossed'
  PROVE  InTurn'
<1>1. GoesOn(i) => InTurn'
  BY TurnGoesOn
<1>2. CASE ReadRefused(i)
  BY <1>2, TurnEnds DEF TypeOK, ReadRefused, Refuse, turnVars
<1>3. CASE Answer(i)
  BY <1>3, TurnEnds DEF TypeOK, Answer
<1> QED BY <1>1, <1>2, <1>3, ReadGoesOn, ConfirmGoesOn, RetireGoesOn,
           RevokeGoesOn, StoreGoesOn, LinkGoesOn, IssueGoesOn
        DEF TypeOK, CloudStep

\* A renewal that is sent is nobody's business yet.
LEMMA SendAdds ==
  ASSUME TypeOK, InTurn, NEW i \in Request, SendRenewal(i)
  PROVE  /\ AtWork' = AtWork /\ Busy' = Busy \cup {i} /\ i \notin Busy
         /\ \A j \in Busy : req'[j] = req[j]
         /\ late' = late \ {i} /\ disk' = disk /\ pc' = "asking" /\ slot' = i
         /\ req'[i].pc = "sent" /\ req'[i].tok = disk /\ req'[i].raw = NoSecret
         /\ req'[i].lost => secret = NoSecret
<1>1. /\ req[i] = Free /\ late' = late \ {i} /\ disk' = disk /\ pc' = "asking"
      /\ slot' = i
      /\ req' = [req EXCEPT ![i] = [Free EXCEPT !.pc = "sent", !.tok = disk,
                                                !.lost = (secret = NoSecret)]]
  BY DEF SendRenewal
<1>2. DOMAIN req = Request
  BY DEF TypeOK, RequestsOK
<1>3. /\ req'[i].pc = "sent" /\ req'[i].tok = disk /\ req'[i].raw = NoSecret
      /\ req'[i].lost = (secret = NoSecret)
      /\ \A j \in Request : j # i => req'[j] = req[j]
  BY <1>1, <1>2 DEF Free
<1>4. req[i].pc = "free"
  BY <1>1 DEF Free
<1>5. AtWork' = AtWork /\ Busy' = Busy \cup {i} /\ i \notin Busy
  BY <1>3, <1>4
<1> QED BY <1>1, <1>3, <1>5

LEMMA TurnOther ==
  ASSUME TypeOK, InTurn, ~crossed',
         \/ \E i \in Request : Lose(i)
         \/ \E t \in Token : \/ AckRead(t) \/ AckConfirm(t)
                             \/ AckRetire(t) \/ LoseAck(t)
         \/ TillStep \/ GiveUp \/ Restart \/ UNCHANGED vars
  PROVE  InTurn'
<1>1. ASSUME NEW i \in Request, Lose(i)
      PROVE  InTurn'
  BY <1>1, TurnEnds DEF TypeOK, Lose, turnVars
<1>2. ASSUME UNCHANGED <<req, disk, pc, slot, late>>
      PROVE  InTurn'
  BY <1>2 DEF InTurn
<1>3. ASSUME NEW t \in Token,
             AckRead(t) \/ AckConfirm(t) \/ AckRetire(t) \/ LoseAck(t)
      PROVE  InTurn'
  BY <1>2, <1>3 DEF AckRead, AckConfirm, AckRetire, LoseAck, tillVars, turnVars
<1>4. ASSUME NEW i \in Request, SendRenewal(i)
      PROVE  InTurn'
  <2>1. pc = "idle" /\ slot = NoRequest
    BY <1>4 DEF SendRenewal, InTurn
  <2> HIDE DEF Busy
  <2> QED BY <1>4, <2>1, SendAdds DEF InTurn
<1>5. CASE KeepRenewedPair \/ WriteDeviceSecret
  <2>1. Busy \subseteq late /\ AtWork = {} /\ slot = NoRequest
    BY <1>5 DEF KeepRenewedPair, WriteDeviceSecret, InTurn
  <2>2. Busy' = Busy /\ AtWork' = AtWork /\ late' = late /\ slot' = slot /\ pc' # "asking"
    BY <1>5 DEF KeepRenewedPair, WriteDeviceSecret, turnVars
  <2> HIDE DEF Busy, AtWork
  <2> QED BY <2>1, <2>2 DEF InTurn
<1>6. CASE DeviceGrant
  <2>1. AtWork = {} /\ late' = Busy /\ UNCHANGED <<req, slot>> /\ pc' = "idle" /\ pc = "refused"
    BY <1>6 DEF DeviceGrant
  <2>2. Busy' = Busy /\ AtWork' = AtWork
    BY <2>1
  <2> HIDE DEF Busy, AtWork
  <2> QED BY <2>1, <2>2 DEF InTurn
<1>7. CASE GiveUp \/ Restart \/ HoldBack
  <2>1. UNCHANGED <<req, disk, late>> /\ pc' = "idle" /\ slot' = NoRequest
    BY <1>7 DEF GiveUp, Restart, HoldBack, turnVars, InTurn
  <2> QED BY <2>1 DEF InTurn
<1> QED BY <1>1, <1>2, <1>3, <1>4, <1>5, <1>6, <1>7
        DEF TillStep, vars, tillVars, turnVars

----------------------------------------------------------------------------
(* The token on disk.                                                      *)

RowsInv == TypeOK /\ InTurn /\ RowsInOrder /\ KeysInOrder

LEMMA KeysInit == Init => RowsInOrder /\ KeysInOrder
  BY RenewalAssumption DEF Init, RowsInOrder, KeysInOrder, Free, NewRow, NoRow

\* The cloud takes the token on disk: it is the last one, or its successor was
\* never confirmed, since only tokens that were once on disk are.
LEMMA DiskIsAccepted ==
  ASSUME TypeOK, RowsInOrder, rows[disk].stored
  PROVE  Accepted(disk)
<1>1. disk \in Token /\ ~rows[disk].revoked
  BY RenewalAssumption DEF TypeOK, RowsOK, TillOK, RowsInOrder
<1>2. CASE rows[disk].next = NoToken
  BY <1>1, <1>2 DEF Accepted, Rotated
<1>3. CASE rows[disk].next # NoToken
  <2>1. rows[disk].next \in disk + 1 .. minted
    BY <1>1, <1>3 DEF TypeOK, RowsOK
  <2>2. rows[disk].next \in Token /\ rows[disk].next > disk
    BY <1>1, <2>1, RenewalAssumption DEF TypeOK, RowsOK
  <2>3. ~rows[rows[disk].next].acked
    BY <1>1, <2>2 DEF TypeOK, RowsInOrder, TillOK
  <2> QED BY <1>1, <1>3, <2>3 DEF Accepted, Reasked
<1> QED BY <1>2, <1>3

\* Retiring what t replaced, for a t that was once on disk.
LEMMA RetireOld ==
  ASSUME TypeOK, RowsInOrder, NEW t \in Token, t \in kept,
         rows' = RetiredBy(rows, t), UNCHANGED <<minted, disk, kept>>
  PROVE  /\ ~rows'[disk].revoked
         /\ \A p \in Token : p > minted => rows'[p] = NoRow
         /\ \A p \in Token : rows'[p].acked => p \in kept
         /\ \A p \in Token : Fresh(p) => Fresh(p)'
<1>1. \A p \in Token : /\ rows[p].next # t => rows'[p] = rows[p]
                       /\ rows'[p].acked = rows[p].acked
  BY DEF RetiredBy, TypeOK, RowsOK, Row
<1>2. disk \in Token /\ t <= disk
  BY RenewalAssumption DEF TypeOK, TillOK, RowsOK, RowsInOrder
<1>3. rows[disk].next # t
  BY <1>2 DEF TypeOK, RowsOK
<1>4. NoRow.next # t
  BY DEF NoRow
<1>5. \A p \in Token : rows[p].next = NoToken => rows'[p] = rows[p]
  BY <1>1
<1> QED BY <1>1, <1>2, <1>3, <1>4, <1>5 DEF RowsInOrder, Fresh

\* A step that touches neither a row nor a renewal at work.
LEMMA KeysFrame ==
  ASSUME KeysInOrder, UNCHANGED <<rows, minted, disk>>, AtWork' \subseteq AtWork,
         \A j \in AtWork' : req'[j] = req[j],
         pc' = "received" => Fresh(got.new)', code' # "stale"
  PROVE  KeysInOrder'
<1>1. \A n : Fresh(n) => Fresh(n)'
  BY DEF Fresh
<1> HIDE DEF AtWork
<1> QED BY <1>1, Zenon DEF KeysInOrder

LEMMA KeysCloud ==
  ASSUME RowsInv, NEW i \in Request, CloudStep(i), ~crossed'
  PROVE  RowsInOrder' /\ KeysInOrder'
<1> USE DEF RowsInv, TypeOK
<1>a. disk \in Token /\ disk <= minted /\ minted \in Nat /\ disk \in kept
  BY RenewalAssumption DEF TillOK, RowsOK, RowsInOrder
<1>b. GoesOn(i) => /\ req[i].tok = disk /\ AtWork \subseteq {i} /\ AtWork' = {i}
                   /\ pc' # "received" /\ code' # "stale"
  BY TurnGoesOn DEF GoesOn, KeysInOrder
<1>c. ASSUME UNCHANGED <<rows, minted>>, GoesOn(i)
      PROVE  RowsInOrder'
  BY <1>c DEF RowsInOrder, GoesOn
<1>1. CASE ReadRefused(i)
  <2>1. /\ InTurn' /\ AtWork' \subseteq AtWork /\ Busy' = Busy \ {i}
        /\ \A j \in Busy' : req'[j] = req[j]
    BY <1>1, TurnEnds DEF ReadRefused, Refuse, turnVars
  <2>2. RowsInOrder'
    BY <1>1 DEF ReadRefused, Refuse, RowsInOrder, cloudVars, ackVars
  <2>3. code' # "stale"
    <3>1. CASE slot = i
      <4>1. req[i].tok = disk
        BY <3>1, <1>1, RenewalAssumption DEF ReadRefused, InTurn
      <4> QED BY <1>1, <3>1, <4>1, DiskIsAccepted
              DEF ReadRefused, Refuse
    <3>2. CASE slot # i
      BY <1>1, <3>2 DEF ReadRefused, Refuse, KeysInOrder
    <3> QED BY <3>1, <3>2
  <2>4. UNCHANGED <<rows, minted, disk, got>> /\ (pc' = "received" => pc = "received")
    BY <1>1 DEF ReadRefused, Refuse, cloudVars
  <2>5. pc' = "received" => Fresh(got.new)'
    BY <2>4 DEF KeysInOrder, Fresh
  <2>6. \A j \in AtWork' : req'[j] = req[j]
    BY <2>1
  <2> HIDE DEF AtWork
  <2> QED BY <2>1, <2>2, <2>3, <2>4, <2>5, <2>6, KeysFrame
<1>2. CASE ReadToken(i)
  <2>1. GoesOn(i) /\ UNCHANGED <<rows, minted>>
    BY <1>2, ReadGoesOn DEF ReadToken, cloudVars
  <2>2. Reasked(disk) => rows[disk].next \in disk + 1 .. minted
    BY <1>a DEF Reasked, RowsOK
  <2>3. /\ req'[i].reask = Reasked(disk)
        /\ req'[i].orphan = rows[disk].next
        /\ req'[i].pc \in {"confirm", "orphan", "store"}
        /\ req'[i].pc = "orphan" => Reasked(disk)
    BY <1>2, <1>b, <2>1, ReadGoesOn
  <2> QED BY <1>b, <1>c, <2>1, <2>2, <2>3, SMTT(30) DEF KeysInOrder, GoesOn
<1>3. CASE ConfirmOnUse(i)
  <2>1. GoesOn(i) /\ req' = [req EXCEPT ![i].pc = "retire"] /\ minted' = minted
    BY <1>3, ConfirmGoesOn DEF ConfirmOnUse
  <2>2. RowsInOrder'
    <3>1. CASE Confirm(disk)
      <4>1. \A t \in Token : /\ rows'[t].revoked = rows[t].revoked
                             /\ t # disk => rows'[t] = rows[t]
        BY <1>a, <3>1, ConfirmType
      <4> QED BY <1>a, <2>1, <4>1 DEF RowsInOrder, GoesOn
    <3>2. CASE UNCHANGED rows
      BY <1>c, <2>1, <3>2
    <3> QED BY <1>3, <1>b, <2>1, <3>1, <3>2 DEF ConfirmOnUse
  <2>3. req[i].pc = "confirm"
    BY <1>3 DEF ConfirmOnUse
  <2>4. KeysInOrder'
    BY <1>b, <2>1, <2>3 DEF KeysInOrder, GoesOn, RequestsOK, Renewal
  <2> QED BY <2>2, <2>4
<1>4. CASE RetireParent(i)
  <2>1. /\ GoesOn(i) /\ req' = [req EXCEPT ![i].pc = AfterConfirm(i)]
        /\ minted' = minted
    BY <1>4, RetireGoesOn DEF RetireParent
  <2>2. RowsInOrder'
    <3>1. CASE rows' = RetiredBy(rows, disk)
      BY <1>a, <2>1, <3>1, RetireOld DEF RowsInOrder, GoesOn
    <3>2. CASE UNCHANGED rows
      BY <1>c, <2>1, <3>2
    <3> QED BY <1>4, <1>b, <2>1, <3>1, <3>2 DEF RetireParent
  <2>3. req[i].pc = "retire"
    BY <1>4 DEF RetireParent
  <2>4. KeysInOrder'
    BY <1>b, <2>1, <2>3 DEF KeysInOrder, GoesOn, RequestsOK, Renewal, AfterConfirm
  <2> QED BY <2>2, <2>4
<1>5. CASE RevokeOrphan(i)
  <2>1. GoesOn(i) /\ req' = [req EXCEPT ![i].pc = "store"] /\ minted' = minted
    BY <1>5, RevokeGoesOn DEF RevokeOrphan
  <2>2. req[i].orphan \in disk + 1 .. minted
    BY <1>5, <1>b, <2>1 DEF RevokeOrphan, KeysInOrder
  <2>3. RowsInOrder'
    <3>1. CASE rows' = [rows EXCEPT ![req[i].orphan].revoked = TRUE]
      BY <1>a, <2>1, <2>2, <3>1, RevokeType DEF RowsInOrder, GoesOn
    <3>2. CASE UNCHANGED rows
      BY <1>c, <2>1, <3>2
    <3> QED BY <1>5, <3>1, <3>2 DEF RevokeOrphan
  <2>4. KeysInOrder'
    BY <1>b, <2>1 DEF KeysInOrder, GoesOn, RequestsOK, Renewal
  <2> QED BY <2>3, <2>4
<1>6. CASE StoreToken(i)
  <2>1. /\ GoesOn(i) /\ req'[i].pc \in {"link", "secret", "answer"}
        /\ req'[i].new = minted'
    BY <1>6, StoreGoesOn
  <2>2. /\ minted' = minted + 1 /\ minted' \in Token
        /\ \/ rows' = [rows EXCEPT ![minted'] = NewRow(rows[req[i].tok].session)]
           \/ rows' = rows
    BY <1>6, <1>a, RenewalAssumption DEF StoreToken, RowsOK
  <2>3. /\ ~rows'[minted'].revoked /\ ~rows'[minted'].acked
        /\ rows'[minted'].next = NoToken
        /\ \A t \in Token : t # minted' => rows'[t] = rows[t]
    <3>1. rows[minted'] = NoRow
      BY <1>a, <2>2 DEF RowsInOrder
    <3>2. ASSUME NEW x
          PROVE  /\ ~NoRow.revoked /\ ~NoRow.acked /\ NoRow.next = NoToken
                 /\ ~NewRow(x).revoked /\ ~NewRow(x).acked
                 /\ NewRow(x).next = NoToken
      BY DEF NewRow, NoRow
    <3>3. CASE rows' = rows
      BY <3>1, <3>2, <3>3
    <3>4. CASE rows' = [rows EXCEPT ![minted'] = NewRow(rows[req[i].tok].session)]
      BY <2>2, <3>2, <3>4 DEF RowsOK
    <3> QED BY <2>2, <3>3, <3>4
  <2>4. RowsInOrder'
    BY <1>a, <2>1, <2>2, <2>3 DEF RowsInOrder, GoesOn
  <2>5. Fresh(minted)'
    BY <1>a, <2>1, <2>2, <2>3 DEF Fresh, GoesOn
  <2> QED BY <1>b, <2>1, <2>4, <2>5 DEF KeysInOrder
<1>7. CASE LinkToken(i)
  <2>1. /\ GoesOn(i) /\ req' = [req EXCEPT ![i].pc = AfterStore(i)]
        /\ minted' = minted
    BY <1>7, LinkGoesOn DEF LinkToken
  <2>2. Fresh(req[i].new) /\ disk < req[i].new
    BY <1>7, <1>a, <1>b, <2>1 DEF LinkToken, KeysInOrder, Fresh
  <2>3. CASE rows' = [rows EXCEPT ![disk].next = req[i].new]
    <3>1. req[i].new \in disk + 1 .. minted
      BY <2>2 DEF Fresh
    <3>2. \A t \in Token : /\ rows'[t].revoked = rows[t].revoked
                           /\ rows'[t].acked = rows[t].acked
                           /\ t # disk => rows'[t] = rows[t]
      BY <1>7, <1>a, <2>3, <3>1, LinkType DEF LinkToken
    <3>3. RowsInOrder'
      BY <1>a, <2>1, <3>2 DEF RowsInOrder, GoesOn
    <3>4. Fresh(req[i].new)'
      <4>1. req'[i].new = req[i].new
        BY <2>1 DEF RequestsOK, Renewal
      <4>2. req[i].new \in Token /\ req[i].new # disk
        BY <1>a, <3>1, RenewalAssumption DEF RowsOK
      <4>3. rows'[req[i].new] = rows[req[i].new]
        BY <3>2, <4>2
      <4> QED BY <2>1, <2>2, <4>1, <4>3 DEF Fresh, GoesOn
    <3> QED BY <1>b, <2>1, <3>3, <3>4
            DEF KeysInOrder, RequestsOK, Renewal, AfterStore
  <2>4. CASE UNCHANGED rows
    <3>1. Fresh(req[i].new)'
      BY <2>1, <2>2, <2>4 DEF Fresh, GoesOn, RequestsOK, Renewal
    <3> QED BY <1>b, <1>c, <2>1, <2>4, <3>1
            DEF KeysInOrder, RequestsOK, Renewal, AfterStore
  <2> QED BY <1>7, <1>b, <2>1, <2>3, <2>4 DEF LinkToken
<1>8. CASE IssueSecret(i)
  <2>1. /\ GoesOn(i) /\ UNCHANGED <<rows, minted>>
        /\ req'[i].pc = "answer" /\ req'[i].new = req[i].new
    BY <1>8, IssueGoesOn DEF IssueSecret
  <2>2. Fresh(req[i].new)
    BY <1>8, <1>b, <2>1 DEF IssueSecret, KeysInOrder
  <2>3. Fresh(req[i].new)'
    BY <2>1, <2>2 DEF Fresh, GoesOn
  <2> QED BY <1>b, <1>c, <2>1, <2>3 DEF KeysInOrder
<1>9. CASE Answer(i)
  <2>1. /\ InTurn' /\ AtWork' \subseteq AtWork /\ Busy' = Busy \ {i}
        /\ \A j \in Busy' : req'[j] = req[j]
    BY <1>9, TurnEnds DEF Answer
  <2>2. Fresh(req[i].new)
    BY <1>9 DEF Answer, KeysInOrder
  <2>3. RowsInOrder'
    BY <1>9 DEF Answer, RowsInOrder, cloudVars, ackVars
  <2>4. UNCHANGED <<rows, minted, disk, code>>
    BY <1>9 DEF Answer, cloudVars
  <2>5. pc' = "received" => Fresh(got.new)'
    BY <1>9, <2>2, <2>4 DEF Answer, Fresh, KeysInOrder
  <2>6. code' # "stale" /\ \A j \in AtWork' : req'[j] = req[j]
    BY <2>1, <2>4 DEF KeysInOrder
  <2> HIDE DEF AtWork
  <2> QED BY <2>1, <2>3, <2>4, <2>5, <2>6, KeysFrame
<1> QED BY <1>1, <1>2, <1>3, <1>4, <1>5, <1>6, <1>7, <1>8, <1>9 DEF CloudStep

LEMMA KeysLose ==
  ASSUME RowsInv, NEW i \in Request, Lose(i)
  PROVE  RowsInOrder' /\ KeysInOrder'
<1> USE DEF RowsInv, TypeOK
<1>1. /\ AtWork' \subseteq AtWork /\ Busy' = Busy \ {i}
      /\ \A j \in Busy' : req'[j] = req[j]
  BY TurnEnds DEF Lose, turnVars
<1>2. RowsInOrder'
  BY DEF Lose, RowsInOrder, cloudVars, ackVars
<1>3. /\ UNCHANGED <<rows, minted, disk, got, code>>
      /\ pc' = "received" => pc = "received"
  BY DEF Lose, cloudVars
<1>4. (pc' = "received" => Fresh(got.new)') /\ code' # "stale"
  BY <1>3 DEF KeysInOrder, Fresh
<1>5. \A j \in AtWork' : req'[j] = req[j]
  BY <1>1
<1> HIDE DEF AtWork
<1> QED BY <1>1, <1>2, <1>3, <1>4, <1>5, KeysFrame

LEMMA KeysAck ==
  ASSUME RowsInv, NEW t \in Token,
         AckRead(t) \/ AckConfirm(t) \/ AckRetire(t) \/ LoseAck(t)
  PROVE  RowsInOrder' /\ KeysInOrder'
<1> USE DEF RowsInv, TypeOK
<1>a. /\ UNCHANGED <<minted, disk, kept, req, pc, got, code>>
      /\ (acks \cup acking \cup retiring)' \subseteq acks \cup acking \cup retiring
      /\ t \in kept
  BY DEF AckRead, AckConfirm, AckRetire, LoseAck, cloudVars, tillVars, RowsInOrder
<1>b. disk \in Token /\ disk <= minted /\ minted \in Nat /\ t <= disk
  BY <1>a, RenewalAssumption DEF TillOK, RowsOK, RowsInOrder
<1>1. /\ ~rows'[disk].revoked
      /\ \A p \in Token : p > minted => rows'[p] = NoRow
      /\ \A p \in Token : rows'[p].acked => p \in kept
      /\ \A p \in Token : Fresh(p) => Fresh(p)'
  <2>1. CASE UNCHANGED rows
    BY <1>a, <2>1 DEF RowsInOrder, Fresh
  <2>2. CASE Confirm(t)
    <3>1. \A p \in Token : /\ rows'[p].revoked = rows[p].revoked
                           /\ rows'[p].next = rows[p].next
                           /\ p # t => rows'[p] = rows[p]
      BY <2>2, ConfirmType
    <3> QED BY <1>a, <1>b, <3>1 DEF RowsInOrder, Fresh
  <2>3. CASE rows' = RetiredBy(rows, t)
    BY <1>a, <2>3, RetireOld
  <2> QED BY <2>1, <2>2, <2>3
          DEF AckRead, AckConfirm, AckRetire, LoseAck, cloudVars
<1>2. RowsInOrder'
  BY <1>a, <1>1 DEF RowsInOrder
<1>3. \A p : Fresh(p) => p \in Token
  BY <1>b, RenewalAssumption DEF Fresh, RowsOK
<1>4. KeysInOrder'
  BY <1>a, <1>1, <1>3 DEF KeysInOrder
<1> QED BY <1>2, <1>4

LEMMA KeysTill ==
  ASSUME RowsInv, ~crossed', TillStep \/ GiveUp \/ Restart
  PROVE  RowsInOrder' /\ KeysInOrder'
<1> USE DEF RowsInv, TypeOK
<1>a. disk \in Token /\ disk <= minted /\ minted \in Nat /\ disk \in kept
  BY RenewalAssumption DEF TillOK, RowsOK, RowsInOrder
<1>1. ASSUME NEW i \in Request, SendRenewal(i)
      PROVE  RowsInOrder' /\ KeysInOrder'
  <2>1. RowsInOrder'
    BY <1>1 DEF SendRenewal, RowsInOrder, cloudVars, ackVars
  <2>2. AtWork' = AtWork /\ (\A j \in AtWork : req'[j] = req[j]) /\ pc' = "asking"
    BY <1>1, SendAdds
  <2>3. UNCHANGED <<rows, minted, disk>> /\ code' # "stale"
    BY <1>1 DEF SendRenewal, cloudVars, KeysInOrder
  <2> HIDE DEF AtWork
  <2> QED BY <2>1, <2>2, <2>3, KeysFrame
<1>2. CASE KeepRenewedPair
  <2>1. AtWork' = {} /\ pc' # "received" /\ code' = code
    BY <1>2 DEF KeepRenewedPair, InTurn
  <2>2. got.new \in disk + 1 .. minted /\ ~rows[got.new].revoked
    BY <1>2 DEF KeepRenewedPair, KeysInOrder, Fresh
  <2>3. /\ UNCHANGED <<rows, minted, acking, retiring>>
        /\ \/ /\ disk' = got.new /\ kept' = kept \cup {got.new}
              /\ acks' = acks \cup {got.new}
           \/ UNCHANGED <<disk, kept, acks>>
    BY <1>2 DEF KeepRenewedPair, cloudVars
  <2>4. /\ disk' \in kept' /\ \A t \in kept' : t <= disk'
        /\ kept \subseteq kept'
        /\ ~rows'[disk'].revoked
    <3>1. \A t \in kept : t \in Nat /\ t <= disk
      BY DEF RowsInOrder, TillOK
    <3>2. disk \in kept /\ ~rows[disk].revoked
      BY DEF RowsInOrder
    <3>3. disk \in Nat /\ got.new \in Nat /\ got.new > disk
      BY <1>a, <2>2
    <3> HIDE DEF RowsInv, TypeOK
    <3>4. CASE disk' = got.new /\ kept' = kept \cup {got.new}
      BY <2>2, <2>3, <3>1, <3>3, <3>4
    <3>5. CASE UNCHANGED <<disk, kept>>
      BY <2>3, <3>1, <3>2, <3>5
    <3> QED BY <2>3, <3>4, <3>5
  <2>5. (acks \cup acking \cup retiring)' \subseteq kept'
    BY <2>3 DEF RowsInOrder
  <2>6. RowsInOrder'
    BY <2>3, <2>4, <2>5 DEF RowsInOrder
  <2> QED BY <2>1, <2>6 DEF KeysInOrder
<1>3. CASE WriteDeviceSecret
  <2>1. RowsInOrder'
    BY <1>3 DEF WriteDeviceSecret, RowsInOrder, cloudVars, ackVars
  <2>2. /\ UNCHANGED <<rows, minted, disk, req>> /\ pc' # "received" /\ code' # "stale"
    BY <1>3 DEF WriteDeviceSecret, cloudVars, KeysInOrder
  <2> QED BY <2>1, <2>2, KeysFrame
<1>4. CASE DeviceGrant
  <2>1. AtWork' = {} /\ pc' # "received" /\ code' # "stale"
    BY <1>4 DEF DeviceGrant
  <2>2. /\ minted' = minted + 1 /\ minted' \in Token
        /\ rows' = [rows EXCEPT ![minted'] = NewRow(minted')] \/ rows' = rows
        /\ \/ disk' = minted' /\ kept' = kept \cup {minted'}
           \/ UNCHANGED <<disk, kept>>
        /\ UNCHANGED <<acks, acking, retiring>>
    BY <1>4, <1>a, RenewalAssumption DEF DeviceGrant, RowsOK, ackVars
  <2>3. /\ ~rows'[minted'].revoked /\ ~rows'[minted'].acked
        /\ \A t \in Token : t # minted' => rows'[t] = rows[t]
    <3>1. rows[minted'] = NoRow
      BY <1>a, <2>2 DEF RowsInOrder
    <3>2. /\ ~NoRow.revoked /\ ~NoRow.acked
          /\ ~NewRow(minted').revoked /\ ~NewRow(minted').acked
      BY DEF NewRow, NoRow
    <3>3. CASE rows' = rows
      BY <3>1, <3>2, <3>3
    <3>4. CASE rows' = [rows EXCEPT ![minted'] = NewRow(minted')]
      BY <2>2, <3>2, <3>4 DEF RowsOK
    <3> QED BY <2>2, <3>3, <3>4
  <2>4. /\ disk' \in kept' /\ \A t \in kept' : t <= disk'
        /\ kept \subseteq kept'
    <3>1. \A t \in kept : t \in Nat /\ t <= disk
      BY DEF RowsInOrder, TillOK
    <3>2. disk \in kept /\ disk \in Nat /\ minted' > disk /\ minted' \in Nat
      BY <1>a, <2>2
    <3> HIDE DEF RowsInv, TypeOK
    <3>3. CASE disk' = minted' /\ kept' = kept \cup {minted'}
      BY <3>1, <3>2, <3>3
    <3>4. CASE UNCHANGED <<disk, kept>>
      BY <3>1, <3>2, <3>4
    <3> QED BY <2>2, <3>3, <3>4
  <2>5. ~rows'[disk'].revoked
    BY <1>a, <2>2, <2>3 DEF RowsInOrder
  <2>6. \A t \in Token : /\ rows'[t].acked => t \in kept'
                         /\ t > minted' => rows'[t] = NoRow
    BY <1>a, <2>2, <2>3, <2>4 DEF RowsInOrder
  <2>7. RowsInOrder'
    BY <2>2, <2>4, <2>5, <2>6 DEF RowsInOrder
  <2> QED BY <2>1, <2>7 DEF KeysInOrder
<1>5. CASE HoldBack
  <2>1. RowsInOrder'
    BY <1>5 DEF HoldBack, RowsInOrder, cloudVars, ackVars
  <2>2. UNCHANGED <<rows, minted, disk, req>> /\ pc' # "received" /\ code' # "stale"
    BY <1>5 DEF HoldBack, cloudVars
  <2> QED BY <2>1, <2>2, KeysFrame
<1>6. CASE GiveUp \/ Restart
  <2>1. RowsInOrder'
    BY <1>6 DEF GiveUp, Restart, RowsInOrder, cloudVars, ackVars
  <2>2. /\ UNCHANGED <<rows, minted, disk, req>>
        /\ pc' # "received" /\ code' # "stale"
    BY <1>6 DEF GiveUp, Restart, cloudVars, KeysInOrder
  <2> QED BY <2>1, <2>2 DEF KeysInOrder, Fresh
<1> QED BY <1>1, <1>2, <1>3, <1>4, <1>5, <1>6 DEF TillStep

LEMMA KeysSame == RowsInv /\ UNCHANGED vars => RowsInOrder' /\ KeysInOrder'
  BY DEF RowsInv, RowsInOrder, KeysInOrder, Fresh, vars, cloudVars, ackVars,
         tillVars

LEMMA RowsStep ==
  ASSUME RowsInv, ~crossed', [Next]_vars
  PROVE  RowsInv'
<1>1. TypeOK'
  BY TypeStep DEF RowsInv
<1>2. InTurn'
  BY TurnCloud, TurnOther DEF RowsInv, Next
<1>3. RowsInOrder' /\ KeysInOrder'
  BY KeysCloud, KeysLose, KeysAck, KeysTill, KeysSame DEF Next
<1> QED BY <1>1, <1>2, <1>3 DEF RowsInv

\* The invariant stands until two renewals cross.
UntilCrossed(inv) == TypeOK /\ (~crossed => inv)

\* Whatever is lost, restarted, timed out, asked again or not written, the cloud
\* takes the token on the till's disk, unless it worked on two renewals at once
\* or let a late one through (routes/auth.ts, refreshHandshake.ts,
\* keepRenewedPair).
THEOREM KeyStaysGood == Spec => []KeptKeyIsAccepted
<1>1. Init => UntilCrossed(RowsInv)
  BY TypeInit, TurnInit, KeysInit DEF UntilCrossed, RowsInv
<1>2. UntilCrossed(RowsInv) /\ [Next]_vars => UntilCrossed(RowsInv)'
  BY RowsStep, TypeStep, TurnsStep DEF UntilCrossed
<1>3. UntilCrossed(RowsInv) => KeptKeyIsAccepted
  BY DiskIsAccepted DEF UntilCrossed, RowsInv, KeptKeyIsAccepted
<1> QED BY <1>1, <1>2, <1>3, PTL DEF Spec

\* ... and never answers the till that its token is an outdated copy.
THEOREM HonestTill == Spec => []NeverStale
<1>1. Init => UntilCrossed(RowsInv)
  BY TypeInit, TurnInit, KeysInit DEF UntilCrossed, RowsInv
<1>2. UntilCrossed(RowsInv) /\ [Next]_vars => UntilCrossed(RowsInv)'
  BY RowsStep, TypeStep, TurnsStep DEF UntilCrossed
<1>3. UntilCrossed(RowsInv) => NeverStale
  BY DEF UntilCrossed, RowsInv, KeysInOrder, NeverStale
<1> QED BY <1>1, <1>2, <1>3, PTL DEF Spec

----------------------------------------------------------------------------
(* The device secret.                                                      *)

SecretInv == TypeOK /\ InTurn /\ SecretsInOrder

LEMMA SecretsInit == Init => SecretsInOrder
  BY DEF Init, SecretsInOrder, Free

\* A step that touches neither a secret nor a renewal in hand, but ends some.
LEMMA SecretsFrame ==
  ASSUME SecretsInOrder, UNCHANGED <<hash, secret>>, AtWork' \subseteq AtWork,
         Busy' \subseteq Busy, Busy' \ late' \subseteq Busy \ late,
         \A j \in Busy' : req'[j] = req[j],
         pc' \in {"received", "renewed"} /\ got'.raw # NoSecret => got'.raw = hash
  PROVE  SecretsInOrder'
<1>1. \A j \in Busy' : NeedsSecret(j)' <=> NeedsSecret(j)
  BY DEF NeedsSecret
<1>2. AtWork' \subseteq Busy'
  OBVIOUS
<1> HIDE DEF Busy, AtWork
<1> QED BY <1>1, <1>2 DEF SecretsInOrder

LEMMA SecretsCloud ==
  ASSUME SecretInv, NEW i \in Request, CloudStep(i), ~crossed'
  PROVE  SecretsInOrder'
<1> USE DEF SecretInv, TypeOK
<1>a. GoesOn(i) => /\ AtWork \subseteq {i} /\ AtWork' = {i} /\ Busy' = Busy
                   /\ i \in Busy \ late /\ late' = late
                   /\ \A j \in Busy : j # i => req'[j] = req[j]
                   /\ secret' = secret /\ pc' \notin {"received", "renewed"}
  BY TurnGoesOn DEF GoesOn
<1>1. CASE ReadRefused(i)
  <2>1. /\ AtWork' \subseteq AtWork /\ Busy' = Busy \ {i}
        /\ Busy' \ late' \subseteq Busy \ late
        /\ \A j \in Busy' : req'[j] = req[j]
    BY <1>1, TurnEnds DEF ReadRefused, Refuse, turnVars
  <2>2. /\ UNCHANGED <<hash, secret, got>>
        /\ pc' \in {"received", "renewed"} => pc' = pc
    BY <1>1 DEF ReadRefused, Refuse, cloudVars
  <2>3. pc' \in {"received", "renewed"} /\ got'.raw # NoSecret => got'.raw = hash
    BY <2>2 DEF SecretsInOrder
  <2> HIDE DEF Busy, AtWork
  <2> QED BY <2>1, <2>2, <2>3, SecretsFrame
<1>2. CASE ReadToken(i)
  <2>1. /\ GoesOn(i) /\ req'[i].pc \in {"confirm", "orphan", "store"}
        /\ req'[i].seen = hash /\ req'[i].raw = req[i].raw
        /\ req'[i].lost => req[i].lost
    BY <1>2, ReadGoesOn
  <2>2. hash' = hash /\ req[i].pc = "sent"
    BY <1>2 DEF ReadToken, cloudVars
  <2> QED BY <1>a, <2>1, <2>2 DEF SecretsInOrder
<1>3. ASSUME GoesOn(i), hash' = hash,
             req[i].pc \notin {"sent", "answer", "secret"},
             req'[i].seen = req[i].seen, req'[i].lost = req[i].lost,
             req'[i].raw = req[i].raw,
             req'[i].pc = "secret" => NeedsSecret(i)
      PROVE  SecretsInOrder'
  <2>1. req'[i].pc = "secret" => NeedsSecret(i)'
    BY <1>3 DEF NeedsSecret
  <2> QED BY <1>a, <1>3, <2>1 DEF SecretsInOrder
<1>4. CASE \/ ConfirmOnUse(i) \/ RetireParent(i) \/ RevokeOrphan(i) \/ LinkToken(i)
  <2>1. /\ GoesOn(i)
        /\ \E p \in {"retire", AfterConfirm(i), "store", AfterStore(i)} :
              req' = [req EXCEPT ![i].pc = p]
    BY <1>4, ConfirmGoesOn, RetireGoesOn, RevokeGoesOn, LinkGoesOn
  <2>2. req[i].pc \in {"confirm", "retire", "orphan", "link"} /\ hash' = hash
    BY <1>4 DEF ConfirmOnUse, RetireParent, RevokeOrphan, LinkToken
  <2>3. /\ req'[i].seen = req[i].seen /\ req'[i].lost = req[i].lost
        /\ req'[i].raw = req[i].raw
        /\ req'[i].pc = "secret" => NeedsSecret(i)
    BY <2>1 DEF RequestsOK, Renewal, AfterConfirm, AfterStore
  <2> QED BY <1>3, <2>1, <2>2, <2>3
<1>5. CASE StoreToken(i)
  <2>1. req[i].pc = "store" /\ hash' = hash
    BY <1>5 DEF StoreToken
  <2> QED BY <1>3, <1>5, <2>1, StoreGoesOn
<1>6. CASE IssueSecret(i)
  <2>1. /\ GoesOn(i) /\ req'[i].pc = "answer" /\ req'[i].lost = req[i].lost
        /\ \/ req'[i].raw = issued' /\ issued' = issued + 1
              /\ hash' = IF hash = req[i].seen THEN issued' ELSE hash
           \/ req'[i].raw = req[i].raw /\ hash' = hash
    BY <1>6, IssueGoesOn
  <2>2. i \in AtWork /\ i \in Busy \ late /\ req[i].pc = "secret"
    BY <1>6, <1>a, <2>1 DEF IssueSecret
  <2>3. hash = req[i].seen /\ secret = NoSecret
    BY <2>2 DEF SecretsInOrder, NeedsSecret
  <2> QED BY <1>a, <2>1, <2>2, <2>3 DEF SecretsInOrder
<1>7. CASE Answer(i)
  <2>1. /\ AtWork' \subseteq AtWork /\ Busy' = Busy \ {i}
        /\ Busy' \ late' \subseteq Busy \ late
        /\ \A j \in Busy' : req'[j] = req[j]
    BY <1>7, TurnEnds DEF Answer
  <2>2. UNCHANGED <<hash, secret>> /\ i \in AtWork
    BY <1>7 DEF Answer, cloudVars
  <2>3. \/ UNCHANGED <<pc, got>>
        \/ got'.raw = req[i].raw
    BY <1>7 DEF Answer
  <2>4. pc' \in {"received", "renewed"} /\ got'.raw # NoSecret => got'.raw = hash
    BY <2>2, <2>3 DEF SecretsInOrder
  <2> HIDE DEF Busy, AtWork
  <2> QED BY <2>1, <2>2, <2>4, SecretsFrame
<1> QED BY <1>1, <1>2, <1>4, <1>5, <1>6, <1>7 DEF CloudStep

LEMMA SecretsTill ==
  ASSUME SecretInv, ~crossed', TillStep \/ GiveUp \/ Restart
  PROVE  SecretsInOrder'
<1> USE DEF SecretInv, TypeOK
<1>1. ASSUME NEW i \in Request, SendRenewal(i)
      PROVE  SecretsInOrder'
  <2>1. UNCHANGED <<hash, secret>>
    BY <1>1 DEF SendRenewal, cloudVars
  <2>2. \A j \in Busy : NeedsSecret(j)' <=> NeedsSecret(j)
    BY <1>1, SendAdds DEF NeedsSecret
  <2>3. AtWork \subseteq Busy
    OBVIOUS
  <2> HIDE DEF Busy, AtWork
  <2> QED BY <1>1, <2>1, <2>2, <2>3, SendAdds DEF SecretsInOrder
<1>2. CASE KeepRenewedPair \/ HoldBack \/ GiveUp \/ Restart
  <2>1. /\ UNCHANGED <<hash, secret, req, late>>
        /\ pc' \in {"received", "renewed"} => pc = "received" /\ got' = got
    BY <1>2 DEF KeepRenewedPair, HoldBack, GiveUp, Restart, cloudVars, turnVars
  <2> QED BY <2>1, SecretsFrame DEF SecretsInOrder
<1>3. CASE DeviceGrant
  <2>1. UNCHANGED <<hash, secret, req>> /\ pc' = "idle" /\ late' = Busy
    BY <1>3 DEF DeviceGrant
  <2> QED BY <2>1, SecretsFrame
<1>4. CASE WriteDeviceSecret
  <2>1. /\ Busy \subseteq late /\ Busy' \subseteq late' /\ AtWork' = {}
        /\ UNCHANGED <<hash, req>> /\ pc = "renewed" /\ pc' = "idle"
        /\ secret' = got.raw
    BY <1>4 DEF WriteDeviceSecret, InTurn, cloudVars, turnVars
  <2>2. Busy' = Busy
    BY <2>1
  <2> HIDE DEF Busy, AtWork
  <2> QED BY <2>1, <2>2 DEF SecretsInOrder
<1> QED BY <1>1, <1>2, <1>3, <1>4 DEF TillStep

LEMMA SecretsOther ==
  ASSUME SecretInv,
         \/ \E i \in Request : Lose(i)
         \/ \E t \in Token : \/ AckRead(t) \/ AckConfirm(t)
                             \/ AckRetire(t) \/ LoseAck(t)
         \/ UNCHANGED vars
  PROVE  SecretsInOrder'
<1> USE DEF SecretInv, TypeOK
<1>1. ASSUME UNCHANGED <<hash, req, pc, got, secret, late>>
      PROVE  SecretsInOrder'
  BY <1>1, SecretsFrame DEF SecretsInOrder
<1>2. ASSUME NEW i \in Request, Lose(i)
      PROVE  SecretsInOrder'
  <2>1. /\ AtWork' \subseteq AtWork /\ Busy' = Busy \ {i}
        /\ Busy' \ late' \subseteq Busy \ late
        /\ \A j \in Busy' : req'[j] = req[j]
    BY <1>2, TurnEnds DEF Lose, turnVars
  <2>2. /\ UNCHANGED <<hash, secret, got>>
        /\ pc' \in {"received", "renewed"} => pc' = pc
    BY <1>2 DEF Lose, cloudVars
  <2>3. pc' \in {"received", "renewed"} /\ got'.raw # NoSecret => got'.raw = hash
    BY <2>2 DEF SecretsInOrder
  <2> HIDE DEF Busy, AtWork
  <2> QED BY <2>1, <2>2, <2>3, SecretsFrame
<1>3. ASSUME NEW t \in Token,
             AckRead(t) \/ AckConfirm(t) \/ AckRetire(t) \/ LoseAck(t)
      PROVE  SecretsInOrder'
  BY <1>1, <1>3 DEF AckRead, AckConfirm, AckRetire, LoseAck, tillVars, cloudVars,
                 turnVars
<1> QED BY <1>1, <1>2, <1>3 DEF vars, tillVars, cloudVars, turnVars

LEMMA SecretsStep ==
  ASSUME SecretInv, ~crossed', [Next]_vars
  PROVE  SecretInv'
<1>1. TypeOK'
  BY TypeStep DEF SecretInv
<1>2. InTurn'
  BY TurnCloud, TurnOther DEF SecretInv, Next
<1>3. SecretsInOrder'
  BY SecretsCloud, SecretsTill, SecretsOther DEF Next
<1> QED BY <1>1, <1>2, <1>3 DEF SecretInv

\* The device secret a till holds is the one the cloud has on record, however
\* many answers that carried one were lost, until two renewals cross
\* (issueSecret, writeDeviceSecret).
THEOREM SecretGood == Spec => []SecretStandsGood
<1>1. Init => UntilCrossed(SecretInv)
  BY TypeInit, TurnInit, SecretsInit DEF UntilCrossed, SecretInv
<1>2. UntilCrossed(SecretInv) /\ [Next]_vars => UntilCrossed(SecretInv)'
  BY SecretsStep, TypeStep, TurnsStep DEF UntilCrossed
<1>3. UntilCrossed(SecretInv) => SecretStandsGood
  BY DEF UntilCrossed, SecretInv, SecretsInOrder, SecretStandsGood
<1> QED BY <1>1, <1>2, <1>3, PTL DEF Spec

----------------------------------------------------------------------------
(* Tokens the till has replaced.                                           *)

OldInv == RowsInv /\ OldInOrder

LEMMA OldInit == Init => OldInOrder
<1> SUFFICES ASSUME Init PROVE OldInOrder
  OBVIOUS
<1>1. /\ AtWork = {} /\ pc # "received" /\ kept \ {disk} = {}
      /\ \A t \in Token : rows[t].next = NoToken /\ ~rows[t].acked
  BY DEF Init, Free, NewRow, NoRow
<1>2. RowsChained
  BY <1>1, RenewalAssumption DEF Init, RowsChained, NewRow, NoRow
<1> HIDE DEF AtWork
<1>3. SessionsInOrder /\ RetiresInOrder
  BY <1>1, <1>2, RenewalAssumption
     DEF SessionsInOrder, RetiresInOrder, ConfirmedRetires, ReplacedConfirmed
<1> QED BY <1>3 DEF OldInOrder

\* What every token on disk, in hand or replaced is.
LEMMA OldTypes ==
  ASSUME RowsInv
  PROVE  /\ disk \in Token /\ disk <= minted /\ minted \in Nat /\ disk \in kept
         /\ kept \subseteq Token /\ \A t \in kept : t <= disk
         /\ rows \in [Token -> Row] /\ \A t \in Token : t \in Nat
         /\ \A t \in Token : rows[t].next # 0 => rows[t].next \in Token /\ rows[t].next > t
                                                 /\ rows[t].next <= minted
         /\ \A n : Fresh(n) => n \in Token /\ n # disk /\ ~rows[n].acked
  BY RenewalAssumption DEF RowsInv, TypeOK, RowsOK, TillOK, RowsInOrder, Fresh

LEMMA ConfirmRows ==
  ASSUME RowsInv, NEW p \in Token, Confirm(p)
  PROVE  /\ rows'[p].acked
         /\ \A t \in Token : /\ rows'[t].next = rows[t].next
                             /\ rows'[t].stored = rows[t].stored
                             /\ rows'[t].session = rows[t].session
                             /\ rows'[t].revoked = rows[t].revoked
                             /\ t # p => rows'[t] = rows[t]
<1>1. rows \in [Token -> Row]
  BY OldTypes
<1> QED BY <1>1 DEF Confirm, Row

LEMMA RevokeRows ==
  ASSUME RowsInv, NEW p, rows' = [rows EXCEPT ![p].revoked = TRUE]
  PROVE  \A t \in Token : /\ rows'[t].next = rows[t].next
                          /\ rows'[t].stored = rows[t].stored
                          /\ rows'[t].session = rows[t].session
                          /\ rows'[t].acked = rows[t].acked
                          /\ rows[t].revoked => rows'[t].revoked
<1>1. rows \in [Token -> Row]
  BY OldTypes
<1> QED BY <1>1 DEF Row

LEMMA RetireRows ==
  ASSUME RowsInv, NEW p \in Token, rows' = RetiredBy(rows, p)
  PROVE  \A t \in Token : /\ rows'[t].next = rows[t].next
                          /\ rows'[t].stored = rows[t].stored
                          /\ rows'[t].session = rows[t].session
                          /\ rows'[t].acked = rows[t].acked
                          /\ rows[t].revoked => rows'[t].revoked
                          /\ rows[t].next = p => rows'[t].revoked
<1>1. rows \in [Token -> Row]
  BY OldTypes
<1> QED BY <1>1 DEF RetiredBy, Row

\* Confirming and revoking leave the sessions and their chains as they are.
LEMMA MarkKeeps ==
  ASSUME RowsInv, SessionsInOrder, UNCHANGED disk,
         \A t \in Token : /\ rows'[t].next = rows[t].next
                          /\ rows'[t].stored = rows[t].stored
                          /\ rows'[t].session = rows[t].session
  PROVE  /\ RowsChained'
         /\ \A n \in Token : /\ Inherits(n) => Inherits(n)'
                             /\ Chained(n) => Chained(n)'
<1>1. RowsChained'
  BY OldTypes DEF RowsChained, SessionsInOrder
<1>2. \A n \in Token : /\ Inherits(n) => Inherits(n)'
                       /\ Chained(n) => Chained(n)'
  BY OldTypes DEF Inherits, Chained
<1> QED BY <1>1, <1>2

\* A step that touches neither a row nor a renewal at work, and ends none that
\* is retiring.
LEMMA OldFrame ==
  ASSUME OldInOrder, UNCHANGED <<rows, disk, kept, retiring>>,
         AtWork' \subseteq AtWork, \A j \in AtWork' : req'[j] = req[j],
         ~spoilt' => ~spoilt /\ \A j \in AtWork \ AtWork' : req[j].pc # "retire",
         pc' = "received" => Inherits(got'.new),
         pc' = "received" /\ ~spoilt' => rows[disk].acked /\ Chained(got'.new)
  PROVE  OldInOrder'
<1>1. RowsChained' /\ \A n : (Inherits(n)' <=> Inherits(n)) /\ (Chained(n)' <=> Chained(n))
  BY DEF OldInOrder, SessionsInOrder, RowsChained, Inherits, Chained
<1> HIDE DEF AtWork
<1>2. SessionsInOrder'
  BY <1>1 DEF OldInOrder, SessionsInOrder, Inherits
<1>3. ASSUME ~spoilt'
      PROVE  RetiresInOrder'
  <2>1. ConfirmedRetires'
    BY <1>3 DEF OldInOrder, RetiresInOrder, ConfirmedRetires
  <2>2. ReplacedConfirmed'
    BY <1>3 DEF OldInOrder, RetiresInOrder, ReplacedConfirmed
  <2> QED BY <1>1, <1>3, <2>1, <2>2 DEF OldInOrder, RetiresInOrder, Chained
<1> QED BY <1>2, <1>3 DEF OldInOrder

LEMMA OldCloud ==
  ASSUME OldInv, NEW i \in Request, CloudStep(i), ~crossed'
  PROVE  OldInOrder'
<1> USE DEF OldInv
<1>a. /\ TypeOK /\ RowsOK /\ RequestsOK /\ TillOK /\ InTurn /\ RowsInOrder /\ KeysInOrder
      /\ SessionsInOrder /\ RowsChained
  BY DEF RowsInv, TypeOK, OldInOrder, SessionsInOrder
<1>b. GoesOn(i) => /\ req[i].tok = disk /\ req'[i].tok = disk /\ disk' = disk
                   /\ AtWork \subseteq {i} /\ AtWork' = {i}
                   /\ pc' # "received" /\ kept' = kept /\ retiring' = retiring
  BY <1>a, TurnGoesOn DEF GoesOn
<1>1. CASE ReadRefused(i)
  <2>1. /\ AtWork' = AtWork \ {i} /\ Busy' = Busy \ {i} /\ i \notin AtWork
        /\ \A j \in Busy' : req'[j] = req[j]
    BY <1>1, <1>a, TurnEnds DEF ReadRefused, Refuse, turnVars
  <2>2. /\ UNCHANGED <<rows, disk, kept, retiring, spoilt, got>>
        /\ pc' = "received" => pc = "received"
    BY <1>1 DEF ReadRefused, Refuse, cloudVars, ackVars
  <2>3. AtWork' = AtWork /\ \A j \in AtWork' : req'[j] = req[j]
    BY <2>1
  <2>4. /\ pc' = "received" => Inherits(got'.new)
        /\ pc' = "received" /\ ~spoilt' => rows[disk].acked /\ Chained(got'.new)
    BY <1>a, <2>2 DEF OldInOrder, SessionsInOrder, RetiresInOrder
  <2> HIDE DEF Busy, AtWork
  <2> QED BY <2>2, <2>3, <2>4, OldFrame DEF OldInOrder
<1>2. CASE ReadToken(i)
  <2>1. /\ GoesOn(i) /\ UNCHANGED <<rows, spoilt>> /\ req[i].pc = "sent" /\ Accepted(req[i].tok)
        /\ req'[i].pc \in {"confirm", "orphan", "store"}
        /\ req'[i].pc # "confirm" => ~ConfirmsByUse(req[i].tok)
    <3>1. GoesOn(i) /\ req'[i].pc \in {"confirm", "orphan", "store"}
      BY <1>2, <1>a, ReadGoesOn
    <3>2. UNCHANGED <<rows, spoilt>> /\ req[i].pc = "sent" /\ Accepted(req[i].tok)
      BY <1>2 DEF ReadToken, cloudVars
    <3>3. req'[i].pc # "confirm" => ~ConfirmsByUse(req[i].tok)
      BY <1>2, <1>a DEF ReadToken, RequestsOK, Renewal
    <3> QED BY <3>1, <3>2, <3>3
  <2>2. rows[disk].stored /\ (req'[i].pc # "confirm" => rows[disk].acked)
    BY <1>a, <1>b, <2>1 DEF Accepted, ConfirmsByUse, RowsInOrder
  <2>3. RowsChained'
    BY <1>a, <1>b, <2>1 DEF RowsChained
  <2>4. SessionsInOrder'
    BY <1>b, <2>1, <2>2, <2>3 DEF SessionsInOrder
  <2>5. ~spoilt => RetiresInOrder'
    BY <1>b, <2>1, <2>2
       DEF OldInOrder, RetiresInOrder, ConfirmedRetires, ReplacedConfirmed
  <2> QED BY <2>1, <2>4, <2>5 DEF OldInOrder
<1>3. CASE ConfirmOnUse(i)
  <2>1. /\ GoesOn(i) /\ req' = [req EXCEPT ![i].pc = "retire"] /\ req'[i].pc = "retire"
        /\ req[i].pc = "confirm"
    BY <1>3, <1>a, ConfirmGoesOn DEF ConfirmOnUse, RequestsOK, Renewal
  <2>2. (Confirm(disk) /\ Works) \/ (UNCHANGED rows /\ Fails)
    BY <1>3, <1>b, <2>1 DEF ConfirmOnUse
  <2>3. \A t \in Token : /\ rows'[t].next = rows[t].next
                         /\ rows'[t].stored = rows[t].stored
                         /\ rows'[t].session = rows[t].session
                         /\ rows'[t].revoked = rows[t].revoked
    <3>1. CASE Confirm(disk)
      BY <3>1, OldTypes, ConfirmRows
    <3>2. CASE UNCHANGED rows
      BY <3>2
    <3> QED BY <2>2, <3>1, <3>2
  <2>4. Confirm(disk) => /\ rows'[disk].acked
                         /\ \A t \in Token : t # disk => rows'[t] = rows[t]
    BY OldTypes, ConfirmRows
  <2>5. SessionsInOrder'
    BY <1>a, <1>b, <2>1, <2>3, MarkKeeps, OldTypes DEF SessionsInOrder
  <2>6. ASSUME Confirm(disk), ~spoilt
        PROVE  RetiresInOrder'
    <3>1. ConfirmedRetires'
      BY <1>b, <2>1, <2>3, <2>4, <2>6, OldTypes DEF OldInOrder, RetiresInOrder, ConfirmedRetires
    <3>2. ReplacedConfirmed'
      BY <1>b, <2>1, <2>3, <2>4, <2>6, OldTypes DEF OldInOrder, RetiresInOrder, ReplacedConfirmed
    <3> QED BY <1>b, <2>1, <2>4, <2>6, <3>1, <3>2 DEF RetiresInOrder
  <2> QED BY <2>2, <2>5, <2>6 DEF OldInOrder, Works, Fails
<1>4. CASE RetireParent(i)
  <2>1. /\ GoesOn(i) /\ req'[i].pc \in {"orphan", "store"} /\ req[i].pc = "retire"
    BY <1>4, <1>a, RetireGoesOn DEF RetireParent, RequestsOK, Renewal, AfterConfirm
  <2>2. (rows' = RetiredBy(rows, disk) /\ Works) \/ (UNCHANGED rows /\ Fails)
    BY <1>4, <1>b, <2>1 DEF RetireParent
  <2>3. \A t \in Token : /\ rows'[t].next = rows[t].next
                         /\ rows'[t].stored = rows[t].stored
                         /\ rows'[t].session = rows[t].session
                         /\ rows'[t].acked = rows[t].acked
    <3>1. CASE rows' = RetiredBy(rows, disk)
      BY <3>1, OldTypes, RetireRows
    <3>2. CASE UNCHANGED rows
      BY <3>2
    <3> QED BY <2>2, <3>1, <3>2
  <2>4. rows' = RetiredBy(rows, disk) =>
           \A p \in Token : /\ rows[p].next = disk => rows'[p].revoked
                            /\ rows[p].revoked => rows'[p].revoked
    BY OldTypes, RetireRows
  <2>5. SessionsInOrder'
    BY <1>a, <1>b, <2>1, <2>3, MarkKeeps, OldTypes DEF SessionsInOrder
  <2>6. ASSUME rows' = RetiredBy(rows, disk), ~spoilt
        PROVE  RetiresInOrder'
    <3>1. ConfirmedRetires'
      BY <1>b, <2>1, <2>3, <2>4, <2>6, OldTypes DEF OldInOrder, RetiresInOrder, ConfirmedRetires
    <3>2. ReplacedConfirmed'
      BY <1>b, <2>1, <2>3, <2>6, OldTypes DEF OldInOrder, RetiresInOrder, ReplacedConfirmed
    <3>3. rows'[disk].acked
      BY <1>b, <2>1, <2>3, <2>6, OldTypes DEF OldInOrder, RetiresInOrder
    <3> QED BY <1>b, <2>1, <3>1, <3>2, <3>3 DEF RetiresInOrder
  <2> QED BY <2>2, <2>5, <2>6 DEF OldInOrder, Works, Fails
<1>5. CASE RevokeOrphan(i)
  <2>1. /\ GoesOn(i) /\ req'[i].pc = "store" /\ req[i].pc = "orphan"
    BY <1>5, <1>a, RevokeGoesOn DEF RevokeOrphan, RequestsOK, Renewal
  <2>2. (rows' = [rows EXCEPT ![req[i].orphan].revoked = TRUE] /\ Works) \/ (UNCHANGED rows /\ Fails)
    BY <1>5 DEF RevokeOrphan
  <2>3. \A t \in Token : /\ rows'[t].next = rows[t].next
                         /\ rows'[t].stored = rows[t].stored
                         /\ rows'[t].session = rows[t].session
                         /\ rows'[t].acked = rows[t].acked
                         /\ rows[t].revoked => rows'[t].revoked
    <3>1. CASE rows' = [rows EXCEPT ![req[i].orphan].revoked = TRUE]
      BY <3>1, RevokeRows
    <3>2. CASE UNCHANGED rows
      BY <3>2
    <3> QED BY <2>2, <3>1, <3>2
  <2>4. SessionsInOrder'
    BY <1>a, <1>b, <2>1, <2>3, MarkKeeps, OldTypes DEF SessionsInOrder
  <2>5. ASSUME ~spoilt
        PROVE  RetiresInOrder'
    <3>1. ConfirmedRetires'
      BY <1>b, <2>1, <2>3, <2>5, OldTypes DEF OldInOrder, RetiresInOrder, ConfirmedRetires
    <3>2. ReplacedConfirmed'
      BY <1>b, <2>1, <2>3, <2>5, OldTypes DEF OldInOrder, RetiresInOrder, ReplacedConfirmed
    <3>3. rows'[disk].acked
      BY <1>b, <2>1, <2>3, <2>5, OldTypes DEF OldInOrder, RetiresInOrder
    <3> QED BY <1>b, <2>1, <3>1, <3>2, <3>3 DEF RetiresInOrder
  <2> QED BY <2>2, <2>4, <2>5 DEF OldInOrder, Works, Fails
<1>6. CASE StoreToken(i)
  <2> DEFINE n == minted'
  <2>1. /\ GoesOn(i) /\ req'[i].pc \in {"link", "secret", "answer"} /\ req'[i].new = n
        /\ req[i].pc = "store"
    BY <1>6, <1>a, StoreGoesOn DEF StoreToken
  <2>2. /\ n = minted + 1 /\ n \in Token /\ spoilt' = spoilt
        /\ \/ rows' = [rows EXCEPT ![n] = NewRow(rows[disk].session)] /\ req'[i].pc = "link"
           \/ rows' = rows /\ req'[i].pc # "link"
    BY <1>6, <1>a, <1>b, <2>1, RenewalAssumption
       DEF StoreToken, RowsOK, Works, AfterStore, RequestsOK, Renewal
  <2>3. /\ rows[n] = NoRow /\ n # disk /\ n \notin kept
        /\ \A t \in Token : rows[t].next # n
    BY <1>a, <2>2, OldTypes DEF RowsInOrder
  <2>4. /\ rows'[n].next = NoToken /\ ~rows'[n].acked
        /\ rows'[n].session = IF rows'[n].stored THEN rows[disk].session ELSE 0
        /\ req'[i].pc = "link" => rows'[n].stored
        /\ req'[i].pc # "link" => ~rows'[n].stored
        /\ \A t \in Token : t # n => rows'[t] = rows[t]
    <3>1. /\ ~NoRow.stored /\ NoRow.next = NoToken /\ ~NoRow.acked /\ NoRow.session = 0
          /\ NewRow(rows[disk].session).stored /\ NewRow(rows[disk].session).next = NoToken
          /\ ~NewRow(rows[disk].session).acked
          /\ NewRow(rows[disk].session).session = rows[disk].session
      BY DEF NewRow, NoRow
    <3>2. CASE rows' = rows /\ req'[i].pc # "link"
      BY <2>3, <3>1, <3>2
    <3>3. CASE rows' = [rows EXCEPT ![n] = NewRow(rows[disk].session)] /\ req'[i].pc = "link"
      <4>1. rows'[n] = NewRow(rows[disk].session) /\ \A t \in Token : t # n => rows'[t] = rows[t]
        BY <2>2, <3>3, OldTypes
      <4> QED BY <3>1, <3>3, <4>1
    <3> QED BY <2>2, <3>2, <3>3
  <2>5. /\ rows[disk].stored /\ rows'[disk] = rows[disk]
        /\ \A t \in kept : t \in Token /\ rows'[t] = rows[t]
        /\ \A t \in Token : rows[t].next # 0 => rows'[rows[t].next] = rows[rows[t].next]
    BY <1>a, <1>b, <2>1, <2>3, <2>4, OldTypes DEF SessionsInOrder
  <2>6. RowsChained'
    <3>1. ASSUME NEW t \in Token, t # n
          PROVE  /\ rows'[t].session <= t /\ (rows'[t].stored <=> rows'[t].session # 0)
                 /\ rows'[t].next # 0 => /\ rows'[rows'[t].next].stored
                                         /\ rows'[rows'[t].next].session = rows'[t].session
      BY <1>a, <2>4, <2>5, <3>1 DEF RowsChained
    <3>2. /\ rows'[n].session <= n /\ (rows'[n].stored <=> rows'[n].session # 0)
          /\ rows'[n].next = 0
      <4>1. rows[disk].session <= disk /\ rows[disk].session # 0 /\ rows[disk].session \in Nat
        BY <1>a, <2>5, OldTypes DEF RowsChained, Row
      <4>2. disk \in Nat /\ n \in Nat /\ disk <= n
        BY <2>2, OldTypes
      <4> HIDE DEF n
      <4> QED BY <2>4, <4>1, <4>2
    <3> HIDE DEF n
    <3> QED BY <3>1, <3>2 DEF RowsChained
  <2>7. SessionsInOrder'
    <3>1. Inherits(req[i].new)'
      BY <1>b, <2>1, <2>4, <2>5 DEF Inherits
    <3>2. rows'[req'[i].tok].stored /\ (req'[i].pc = "link" => rows'[req'[i].new].stored)
      BY <1>b, <2>1, <2>4, <2>5
    <3> HIDE DEF n
    <3> QED BY <1>b, <2>1, <2>6, <3>1, <3>2 DEF SessionsInOrder
  <2>8. ASSUME ~spoilt
        PROVE  RetiresInOrder'
    <3>1. ConfirmedRetires'
      <4>1. ASSUME NEW t \in Token, NEW p \in Token, rows'[t].acked, rows'[p].next = t
            PROVE  rows'[p].revoked \/ t \in retiring
        <5>1. t # n /\ rows[t].acked
          BY <2>4, <4>1
        <5>2. p # n
          BY <2>4, <4>1
        <5>3. rows'[p] = rows[p] /\ rows[p].next = t
          BY <2>4, <4>1, <5>2
        <5> QED BY <1>b, <2>1, <2>8, <5>1, <5>3 DEF OldInOrder, RetiresInOrder, ConfirmedRetires
      <4> QED BY <1>b, <2>1, <4>1 DEF ConfirmedRetires
    <3>2. ReplacedConfirmed'
      BY <1>b, <2>1, <2>5, <2>8 DEF OldInOrder, RetiresInOrder, ReplacedConfirmed
    <3>3. rows'[disk].acked
      BY <1>b, <2>1, <2>5, <2>8 DEF OldInOrder, RetiresInOrder
    <3>4. req'[i].pc # "link" => Chained(req[i].new)'
      BY <2>1, <2>4 DEF Chained
    <3> HIDE DEF n
    <3> QED BY <1>b, <2>1, <3>1, <3>2, <3>3, <3>4 DEF RetiresInOrder, Chained
  <2> QED BY <2>2, <2>7, <2>8 DEF OldInOrder
<1>7. CASE LinkToken(i)
  <2> DEFINE n == req[i].new
  <2>1. /\ GoesOn(i) /\ req'[i].pc \in {"secret", "answer"} /\ req'[i].new = n
        /\ req[i].pc = "link"
    BY <1>7, <1>a, LinkGoesOn DEF LinkToken, RequestsOK, Renewal, AfterStore
  <2>2. (rows' = [rows EXCEPT ![disk].next = n] /\ Works) \/ (UNCHANGED rows /\ Fails)
    BY <1>7, <1>b, <2>1 DEF LinkToken
  <2>3. /\ Fresh(n) /\ n \in Token /\ n # disk /\ ~rows[n].acked /\ rows[n].stored
        /\ rows[n].session = rows[disk].session /\ rows[disk].stored
    BY <1>a, <1>b, <2>1, OldTypes DEF KeysInOrder, SessionsInOrder, Inherits
  <2>4. \A t \in Token : /\ rows'[t].stored = rows[t].stored
                         /\ rows'[t].session = rows[t].session
                         /\ rows'[t].revoked = rows[t].revoked
                         /\ rows'[t].acked = rows[t].acked
                         /\ t # disk => rows'[t] = rows[t]
    <3>1. CASE rows' = [rows EXCEPT ![disk].next = n]
      BY <3>1, OldTypes DEF Row
    <3>2. CASE UNCHANGED rows
      BY <3>2
    <3> QED BY <2>2, <3>1, <3>2
  <2>5. rows'[disk].next = n \/ rows' = rows
    BY <2>2, OldTypes DEF Row
  <2>6. SessionsInOrder'
    <3>1. RowsChained'
      <4>1. ASSUME NEW t \in Token
            PROVE  /\ rows'[t].session <= t
                   /\ rows'[t].stored <=> rows'[t].session # 0
                   /\ rows'[t].next # 0 => /\ rows'[rows'[t].next].stored
                                           /\ rows'[rows'[t].next].session = rows'[t].session
        <5>1. rows[t].session <= t /\ (rows[t].stored <=> rows[t].session # 0)
          BY <1>a, <4>1 DEF RowsChained
        <5>2. CASE rows'[t] = rows[t]
          <6>1. ASSUME rows[t].next # 0
                PROVE  rows[t].next \in Token
            BY <4>1, <6>1, OldTypes
          <6>2. rows[t].next # 0 => /\ rows[rows[t].next].stored
                                    /\ rows[rows[t].next].session = rows[t].session
            BY <1>a, <4>1 DEF RowsChained
          <6> QED BY <2>4, <5>1, <5>2, <6>1, <6>2
        <5>3. CASE t = disk /\ rows'[disk].next = n
          BY <2>3, <2>4, <4>1, <5>1, <5>3
        <5> QED BY <2>4, <2>5, <4>1, <5>2, <5>3
      <4> QED BY <4>1 DEF RowsChained
    <3>2. Inherits(n)' /\ rows'[req'[i].tok].stored
      BY <1>b, <2>1, <2>3, <2>4, OldTypes DEF Inherits
    <3> QED BY <1>b, <2>1, <3>1, <3>2 DEF SessionsInOrder, Inherits
  <2>7. ASSUME ~spoilt, rows' = [rows EXCEPT ![disk].next = n]
        PROVE  RetiresInOrder'
    <3>0. rows'[disk].next = n
      BY <2>7, OldTypes DEF Row
    <3>1. ConfirmedRetires'
      <4>1. ASSUME NEW t \in Token, NEW p \in Token, rows'[t].acked, rows'[p].next = t
            PROVE  rows'[p].revoked \/ t \in retiring
        <5>1. p # disk
          BY <2>3, <2>4, <3>0, <4>1
        <5>2. rows'[p] = rows[p] /\ rows[p].next = t /\ rows[t].acked
          BY <2>4, <4>1, <5>1
        <5> QED BY <1>b, <2>1, <2>7, <5>2 DEF OldInOrder, RetiresInOrder, ConfirmedRetires
      <4> QED BY <1>b, <2>1, <4>1 DEF ConfirmedRetires
    <3>2. ReplacedConfirmed'
      BY <1>b, <2>1, <2>4, <2>7, OldTypes DEF OldInOrder, RetiresInOrder, ReplacedConfirmed
    <3>3. rows'[disk].acked
      BY <1>b, <2>1, <2>4, <2>7, OldTypes DEF OldInOrder, RetiresInOrder
    <3>4. Chained(n)'
      BY <1>b, <2>1, <3>0 DEF Chained
    <3> QED BY <1>b, <2>1, <3>1, <3>2, <3>3, <3>4 DEF RetiresInOrder, Chained
  <2> QED BY <2>2, <2>6, <2>7 DEF OldInOrder, Works, Fails
<1>8. CASE IssueSecret(i)
  <2>0. /\ req[i].pc = "secret" /\ UNCHANGED rows /\ (~spoilt' => ~spoilt)
    BY <1>8 DEF IssueSecret, Works, Fails
  <2>1. /\ GoesOn(i) /\ req'[i].pc = "answer" /\ req'[i].new = req[i].new
        /\ req[i].pc = "secret" /\ UNCHANGED rows /\ (~spoilt' => ~spoilt)
    BY <1>8, <1>a, <2>0, IssueGoesOn
  <2>2. RowsChained' /\ (Inherits(req[i].new) => Inherits(req[i].new)')
    BY <1>a, <1>b, <2>1 DEF RowsChained, Inherits, GoesOn
  <2>3. SessionsInOrder'
    BY <1>a, <1>b, <2>1, <2>2 DEF SessionsInOrder, Inherits
  <2>4. ~spoilt => RetiresInOrder'
    BY <1>b, <2>1
       DEF OldInOrder, RetiresInOrder, ConfirmedRetires, ReplacedConfirmed, Chained
  <2> QED BY <2>1, <2>3, <2>4 DEF OldInOrder
<1>9. CASE Answer(i)
  <2>1. /\ AtWork' = AtWork \ {i} /\ Busy' = Busy \ {i} /\ i \in AtWork
        /\ \A j \in Busy' : req'[j] = req[j]
    BY <1>9, <1>a, TurnEnds DEF Answer
  <2>2. /\ req[i].pc = "answer" /\ UNCHANGED <<rows, disk, kept, retiring, spoilt>>
        /\ UNCHANGED <<pc, got>> \/ got'.new = req[i].new
    BY <1>9 DEF Answer, cloudVars, ackVars
  <2>3. AtWork' \subseteq AtWork /\ \A j \in AtWork' : req'[j] = req[j]
    BY <2>1
  <2>4. /\ pc' = "received" => Inherits(got'.new)
        /\ pc' = "received" /\ ~spoilt' => rows[disk].acked /\ Chained(got'.new)
    BY <1>a, <2>1, <2>2 DEF OldInOrder, SessionsInOrder, RetiresInOrder
  <2>5. \A j \in AtWork \ AtWork' : req[j].pc # "retire"
    BY <2>1, <2>2
  <2> HIDE DEF Busy, AtWork
  <2> QED BY <2>2, <2>3, <2>4, <2>5, OldFrame DEF OldInOrder
<1> QED BY <1>1, <1>2, <1>3, <1>4, <1>5, <1>6, <1>7, <1>8, <1>9 DEF CloudStep

LEMMA OldLose ==
  ASSUME OldInv, NEW i \in Request, Lose(i)
  PROVE  OldInOrder'
<1> USE DEF OldInv
<1>1. /\ AtWork' = AtWork \ {i} /\ Busy' = Busy \ {i}
      /\ \A j \in Busy' : req'[j] = req[j]
  BY TurnEnds DEF Lose, RowsInv, TypeOK, turnVars
<1>2. /\ UNCHANGED <<rows, disk, kept, retiring, got>> /\ (pc' = "received" => pc = "received")
      /\ ~spoilt' => ~spoilt /\ req[i].pc # "retire"
  BY DEF Lose, cloudVars, ackVars
<1>3. /\ AtWork' \subseteq AtWork /\ \A j \in AtWork' : req'[j] = req[j]
      /\ \A j \in AtWork \ AtWork' : j = i
  BY <1>1
<1>4. /\ pc' = "received" => Inherits(got'.new)
      /\ pc' = "received" /\ ~spoilt' => rows[disk].acked /\ Chained(got'.new)
  BY <1>2 DEF OldInOrder, SessionsInOrder, RetiresInOrder
<1> HIDE DEF Busy, AtWork
<1> QED BY <1>2, <1>3, <1>4, OldFrame DEF OldInOrder

LEMMA OldAck ==
  ASSUME OldInv, NEW t \in Token,
         AckRead(t) \/ AckConfirm(t) \/ AckRetire(t) \/ LoseAck(t)
  PROVE  OldInOrder'
<1> USE DEF OldInv
<1>a. /\ UNCHANGED <<disk, kept, req, pc, got>> /\ AtWork' = AtWork
      /\ SessionsInOrder /\ RowsChained
  BY DEF AckRead, AckConfirm, AckRetire, LoseAck, tillVars, OldInOrder, SessionsInOrder
<1>b. \A p \in Token : /\ rows'[p].next = rows[p].next
                       /\ rows'[p].stored = rows[p].stored
                       /\ rows'[p].session = rows[p].session
                       /\ rows[p].revoked => rows'[p].revoked
                       /\ rows[p].acked => rows'[p].acked
  <2>1. CASE UNCHANGED rows
    BY <2>1
  <2>2. CASE Confirm(t)
    BY <2>2, ConfirmRows
  <2>3. CASE rows' = RetiredBy(rows, t)
    BY <2>3, RetireRows
  <2> QED BY <2>1, <2>2, <2>3 DEF AckRead, AckConfirm, AckRetire, LoseAck, cloudVars
<1>c. \A i \in AtWork : /\ req[i].tok \in Token
                        /\ req[i].pc \in {"link", "secret", "answer"} => req[i].new \in Token
  BY OldTypes DEF RowsInv, InTurn, KeysInOrder
<1>d. pc = "received" => got.new \in Token
  BY OldTypes DEF RowsInv, KeysInOrder
<1> HIDE DEF AtWork
<1>e. /\ RowsChained'
      /\ \A n \in Token : /\ Inherits(n) => Inherits(n)'
                          /\ Chained(n) => Chained(n)'
  BY <1>a, <1>b, MarkKeeps
<1>1. SessionsInOrder'
  <2>1. ASSUME NEW i \in AtWork
        PROVE  /\ rows'[req[i].tok].stored
               /\ req[i].pc \in {"link", "secret", "answer"} => Inherits(req[i].new)'
               /\ req[i].pc = "link" => rows'[req[i].new].stored
    <3>1. req'[i] = req[i]
      BY <1>a
    <3>2. /\ rows[req[i].tok].stored
          /\ req[i].pc \in {"link", "secret", "answer"} => Inherits(req[i].new)
          /\ req[i].pc = "link" => rows[req[i].new].stored
      BY <1>a, <2>1 DEF SessionsInOrder
    <3>3. ASSUME req[i].new \in Token, Inherits(req[i].new)
          PROVE  Inherits(req[i].new)'
      BY <1>a, <1>b, <1>e, <3>1, <3>3 DEF Inherits
    <3> QED BY <1>b, <1>c, <2>1, <3>2, <3>3
  <2>2. pc' = "received" => Inherits(got.new)'
    BY <1>a, <1>d, <1>e DEF SessionsInOrder, Inherits
  <2> QED BY <1>a, <1>e, <2>1, <2>2 DEF SessionsInOrder, Inherits
<1>2. ASSUME ~spoilt' PROVE RetiresInOrder'
  <2>1. ~spoilt /\ RetiresInOrder
    BY <1>2 DEF AckRead, AckConfirm, AckRetire, LoseAck, OldInOrder, Works, Fails
  <2>2. ConfirmedRetires'
    <3>1. CASE UNCHANGED <<rows, retiring>>
      BY <1>a, <2>1, <3>1 DEF RetiresInOrder, ConfirmedRetires
    <3>2. CASE Confirm(t) /\ retiring' = retiring \cup {t}
      BY <1>a, <1>b, <2>1, <3>2, ConfirmRows DEF RetiresInOrder, ConfirmedRetires
    <3>3. CASE rows' = RetiredBy(rows, t) /\ retiring' = retiring \ {t}
      BY <1>a, <1>b, <2>1, <3>3, RetireRows DEF RetiresInOrder, ConfirmedRetires
    <3> QED BY <1>2, <3>1, <3>2, <3>3
            DEF AckRead, AckConfirm, AckRetire, LoseAck, cloudVars, Works, Fails
  <2>3. ReplacedConfirmed'
    BY <1>a, <1>b, <2>1, OldTypes DEF RetiresInOrder, ReplacedConfirmed
  <2>4. ASSUME NEW i \in AtWork
        PROVE  /\ req[i].pc \in {"retire", "orphan", "store", "link", "secret", "answer"}
                      => rows'[disk].acked
               /\ req[i].pc \in {"secret", "answer"} => Chained(req[i].new)'
    <3>1. req'[i] = req[i]
      BY <1>a
    <3>2. /\ req[i].pc \in {"retire", "orphan", "store", "link", "secret", "answer"}
                => rows[disk].acked
          /\ req[i].pc \in {"secret", "answer"} => Chained(req[i].new)
      BY <2>1, <2>4 DEF RetiresInOrder
    <3>3. ASSUME req[i].new \in Token, Chained(req[i].new)
          PROVE  Chained(req[i].new)'
      BY <1>a, <1>b, <3>1, <3>3, OldTypes DEF Chained
    <3> QED BY <1>b, <1>c, <2>4, <3>2, <3>3, OldTypes
  <2>5. pc' = "received" => rows'[disk].acked /\ Chained(got.new)'
    BY <1>a, <1>b, <1>d, <1>e, <2>1, OldTypes DEF RetiresInOrder, Chained
  <2> QED BY <1>a, <2>2, <2>3, <2>4, <2>5 DEF RetiresInOrder, Chained
<1> QED BY <1>1, <1>2 DEF OldInOrder

LEMMA OldTill ==
  ASSUME OldInv, ~crossed', TillStep \/ GiveUp \/ Restart
  PROVE  OldInOrder'
<1> USE DEF OldInv
<1>a. SessionsInOrder /\ RowsChained
  BY DEF OldInOrder, SessionsInOrder
<1>1. ASSUME NEW i \in Request, SendRenewal(i)
      PROVE  OldInOrder'
  <2>1. /\ AtWork' = AtWork /\ pc' = "asking"
        /\ \A j \in AtWork : req'[j] = req[j]
    BY <1>1, SendAdds DEF RowsInv
  <2>2. UNCHANGED <<rows, disk, kept, retiring, spoilt>>
    BY <1>1 DEF SendRenewal, cloudVars, ackVars
  <2> HIDE DEF AtWork
  <2> QED BY <2>1, <2>2, OldFrame DEF OldInOrder
<1>2. CASE KeepRenewedPair
  <2>1. /\ AtWork = {} /\ AtWork' = {} /\ pc = "received" /\ pc' # "received"
        /\ UNCHANGED <<rows, retiring, spoilt>>
        /\ \/ disk' = got.new /\ kept' = kept \cup {got.new}
           \/ UNCHANGED <<disk, kept>>
    BY <1>2 DEF KeepRenewedPair, RowsInv, InTurn, cloudVars
  <2> HIDE DEF AtWork
  <2>2. SessionsInOrder'
    BY <1>a, <2>1 DEF SessionsInOrder, RowsChained
  <2>3. ASSUME ~spoilt PROVE RetiresInOrder'
    <3>0. RetiresInOrder
      BY <2>3 DEF OldInOrder
    <3>1. ConfirmedRetires'
      BY <2>1, <3>0 DEF RetiresInOrder, ConfirmedRetires
    <3>2. ReplacedConfirmed'
      <4>1. CASE UNCHANGED <<disk, kept>>
        BY <2>1, <3>0, <4>1 DEF RetiresInOrder, ReplacedConfirmed
      <4>2. CASE disk' = got.new /\ kept' = kept \cup {got.new}
        <5>1. ASSUME NEW t \in kept, rows[t].stored, rows[t].session = rows[got.new].session
              PROVE  rows[t].acked /\ rows[t].next \in kept \cup {got.new}
          <6>1. got.new \in Token /\ t \in Token
            BY <2>1, OldTypes DEF RowsInv, KeysInOrder
          <6>2. rows[got.new].stored
            BY <1>a, <5>1, <6>1 DEF RowsChained
          <6>3. rows[got.new].session = rows[disk].session /\ rows[disk].next = got.new
                /\ rows[disk].acked
            BY <1>a, <2>1, <3>0, <6>2 DEF SessionsInOrder, RetiresInOrder, Inherits, Chained
          <6>4. CASE t = disk
            BY <6>3, <6>4
          <6>5. CASE t # disk
            BY <3>0, <5>1, <6>3, <6>5 DEF RetiresInOrder, ReplacedConfirmed
          <6> QED BY <6>4, <6>5
        <5> QED BY <2>1, <4>2, <5>1 DEF ReplacedConfirmed
      <4> QED BY <2>1, <4>1, <4>2
    <3> QED BY <2>1, <3>1, <3>2 DEF RetiresInOrder
  <2> QED BY <2>1, <2>2, <2>3 DEF OldInOrder
<1>3. CASE DeviceGrant
  <2> DEFINE n == minted'
  <2>0. AtWork = {} /\ AtWork' = {}
    BY <1>3 DEF DeviceGrant
  <2> HIDE DEF AtWork, Busy
  <2>1. /\ AtWork = {} /\ AtWork' = {} /\ pc' # "received"
        /\ UNCHANGED <<retiring, spoilt>>
        /\ n = minted + 1 /\ n \in Token
        /\ rows' = [rows EXCEPT ![n] = NewRow(n)] \/ rows' = rows
        /\ \/ disk' = n /\ kept' = kept \cup {n}
           \/ UNCHANGED <<disk, kept>>
    BY <1>3, <2>0, OldTypes, RenewalAssumption DEF DeviceGrant, ackVars
  <2>2. /\ rows[n] = NoRow /\ n \notin kept /\ n # disk /\ \A t \in Token : rows[t].next # n
        /\ \A t \in kept : t < n
    BY <2>1, OldTypes DEF RowsInv, RowsInOrder
  <2>3. /\ rows'[n].next = NoToken /\ ~rows'[n].acked
        /\ rows'[n].session = IF rows'[n].stored THEN n ELSE 0
        /\ \A t \in Token : t # n => rows'[t] = rows[t]
    <3>1. /\ ~NoRow.stored /\ NoRow.next = NoToken /\ ~NoRow.acked /\ NoRow.session = 0
          /\ NewRow(n).stored /\ NewRow(n).next = NoToken /\ ~NewRow(n).acked
          /\ NewRow(n).session = n
      BY DEF NewRow, NoRow
    <3>2. CASE rows' = rows
      BY <2>2, <3>1, <3>2
    <3>3. CASE rows' = [rows EXCEPT ![n] = NewRow(n)]
      BY <2>1, <3>1, <3>3, OldTypes
    <3> QED BY <2>1, <3>2, <3>3
  <2>4. RowsChained'
    <3>1. ASSUME NEW t \in Token, t # n
          PROVE  /\ rows'[t].session <= t /\ (rows'[t].stored <=> rows'[t].session # 0)
                 /\ rows'[t].next # 0 => /\ rows'[rows'[t].next].stored
                                         /\ rows'[rows'[t].next].session = rows'[t].session
      BY <1>a, <2>2, <2>3, <3>1, OldTypes DEF RowsChained
    <3>2. /\ rows'[n].session <= n /\ (rows'[n].stored <=> rows'[n].session # 0)
          /\ rows'[n].next = 0
      <4>1. n \in Nat /\ n # 0
        BY <2>1, OldTypes
      <4> HIDE DEF n
      <4> QED BY <2>3, <4>1
    <3> HIDE DEF n
    <3> QED BY <3>1, <3>2 DEF RowsChained
  <2>5. SessionsInOrder'
    BY <2>1, <2>4 DEF SessionsInOrder
  <2>6. ASSUME ~spoilt PROVE RetiresInOrder'
    <3>0. RetiresInOrder
      BY <2>6 DEF OldInOrder
    <3>1. ConfirmedRetires'
      <4>1. ASSUME NEW t \in Token, NEW p \in Token, rows'[t].acked, rows'[p].next = t
            PROVE  rows'[p].revoked \/ t \in retiring
        <5>1. t # n /\ p # n
          BY <2>3, <4>1
        <5>2. rows'[p] = rows[p] /\ rows[p].next = t /\ rows[t].acked
          BY <2>3, <4>1, <5>1
        <5> QED BY <2>1, <3>0, <5>2 DEF RetiresInOrder, ConfirmedRetires
      <4> QED BY <2>1, <4>1 DEF ConfirmedRetires
    <3>2. ReplacedConfirmed'
      <4>1. CASE UNCHANGED <<disk, kept>>
        BY <2>1, <2>2, <2>3, <3>0, <4>1, OldTypes DEF RetiresInOrder, ReplacedConfirmed
      <4>2. CASE disk' = n /\ kept' = kept \cup {n}
        <5>1. ASSUME NEW t \in kept, rows'[t].stored, rows'[t].session = rows'[n].session
              PROVE  FALSE
          <6>1. t \in Token /\ t # n /\ rows'[t] = rows[t] /\ t < n /\ t \in Nat /\ n \in Nat
            BY <2>1, <2>2, <2>3, OldTypes
          <6>2. rows[t].session <= t /\ rows[t].session # 0 /\ rows[t].session \in Nat
            BY <1>a, <5>1, <6>1, OldTypes DEF RowsChained, Row
          <6> HIDE DEF n
          <6> QED BY <2>3, <5>1, <6>1, <6>2
        <5> QED BY <4>2, <5>1 DEF ReplacedConfirmed
      <4> QED BY <2>1, <4>1, <4>2
    <3> QED BY <2>1, <3>1, <3>2 DEF RetiresInOrder
  <2> QED BY <2>1, <2>5, <2>6 DEF OldInOrder
<1>4. CASE WriteDeviceSecret \/ HoldBack \/ GiveUp \/ Restart
  <2>1. /\ UNCHANGED <<rows, disk, kept, retiring, spoilt, req>> /\ pc' # "received"
    BY <1>4 DEF WriteDeviceSecret, HoldBack, GiveUp, Restart, cloudVars, ackVars
  <2> QED BY <2>1, OldFrame DEF OldInOrder
<1> QED BY <1>1, <1>2, <1>3, <1>4 DEF TillStep

LEMMA OldSame == OldInv /\ UNCHANGED vars => OldInOrder'
  BY DEF OldInv, OldInOrder, SessionsInOrder, RowsChained, Inherits, RetiresInOrder,
         ConfirmedRetires, ReplacedConfirmed, Chained, vars, cloudVars, ackVars, tillVars

LEMMA OldStep ==
  ASSUME OldInv, ~crossed', [Next]_vars
  PROVE  OldInv'
<1>1. RowsInv'
  BY RowsStep DEF OldInv
<1>2. OldInOrder'
  BY OldCloud, OldLose, OldAck, OldTill, OldSame DEF Next
<1> QED BY <1>1, <1>2 DEF OldInv

\* What the chain says of a token the till has replaced.
LEMMA ReplacedIsRefused == (~crossed => OldInv) => OldKeysAreRefused
<1> SUFFICES ASSUME OldInv, NEW t \in kept \ {disk},
                    rows[t].session = rows[disk].session,
                    rows[disk].acked \/ rows[t].next # disk,
                    retiring = {}, ~spoilt, Accepted(t)
             PROVE  FALSE
  BY DEF OldKeysAreRefused
<1> DEFINE n == rows[t].next
<1>0. 0 \notin Token /\ kept \subseteq Token
  BY OldTypes, RenewalAssumption DEF OldInv, RowsInv, TypeOK, Token
<1>1. /\ t \in Token /\ rows[t].stored /\ RetiresInOrder /\ RowsChained
      /\ InTurn /\ ~rows[disk].revoked
  BY OldTypes DEF OldInv, OldInOrder, SessionsInOrder, RowsInv, RowsInOrder, Accepted
<1>2. rows[t].acked /\ n \in kept
  BY <1>1 DEF RetiresInOrder, ReplacedConfirmed
<1>3. n \in Token /\ n # 0 /\ rows[n].stored /\ rows[n].session = rows[disk].session
  BY <1>0, <1>1, <1>2 DEF RowsChained, HasSuccessor, NoToken
<1>4. Reasked(t)
  BY <1>3 DEF Accepted, Rotated
<1>5. CASE n = disk
  BY <1>1, <1>4, <1>5 DEF Reasked
<1>6. CASE n # disk
  <2>1. rows[n].acked /\ rows[n].next \in kept
    BY <1>1, <1>2, <1>3, <1>6 DEF RetiresInOrder, ReplacedConfirmed
  <2>2. rows[n].next # 0
    BY <1>0, <2>1
  <2>3. rows[t].revoked
    BY <1>1, <1>3, <1>6, <2>1 DEF RetiresInOrder, ConfirmedRetires, InTurn
  <2> QED BY <1>4, <2>1, <2>2, <2>3 DEF Reasked, SuccessorIsHead
<1> QED BY <1>5, <1>6

\* A token the till has replaced is good for nothing once its successor is
\* confirmed, by an ack or by its first use, until two renewals cross
\* (refreshHandshakeDecision, revokeParentOf).
THEOREM OldKeysDie == Spec => []OldKeysAreRefused
<1>1. Init => UntilCrossed(OldInv)
  BY TypeInit, TurnInit, KeysInit, OldInit DEF UntilCrossed, OldInv, RowsInv
<1>2. UntilCrossed(OldInv) /\ [Next]_vars => UntilCrossed(OldInv)'
  BY OldStep, TypeStep, TurnsStep DEF UntilCrossed
<1>3. UntilCrossed(OldInv) => OldKeysAreRefused
  BY ReplacedIsRefused DEF UntilCrossed
<1> QED BY <1>1, <1>2, <1>3, PTL DEF Spec
=============================================================================
