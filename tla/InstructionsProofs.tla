------------------------- MODULE InstructionsProofs -------------------------
(* Proofs for Instructions: whatever is collected twice, given up, answered  *)
(* late or forgotten by a restart, and however many ticks run at once, the   *)
(* server's screen tells the truth of money and counts, nothing is recorded  *)
(* twice and no close closes a later day.                                    *)
EXTENDS Instructions, TLAPS

-----------------------------------------------------------------------------
(* THE INVARIANT                                                             *)

Over == {"awaiting", "confirmed"}
Cash == {"money", "confirm"}
(* An answer is true, and stays so: money refused is for a shift that is     *)
(* over, and no shift opens twice.                                           *)
Told(i, v) ==
    /\ ins[i].delivered
    /\ ins[i].kind = "money" => \/ v = "ok" /\ books[i] = 1
                                \/ v = "no" /\ books[i] = 0 /\ shift[ins[i].shift] \in Over
    /\ ins[i].kind = "confirm" => v = "ok" /\ shift[ins[i].shift] = "confirmed"
Truths == {a \in Ids \X Verdicts : Told(a[1], a[2])}
AnswersAreTrue ==
    /\ acks \subseteq Truths
    /\ \A i \in Ids : pend[i] # "none" => <<i, pend[i]>> \in Truths
    /\ \A k \in Ticks : tick[k].at \in {"answering", "flushing"} => tick[k].on \in Truths
(* What a tick has still to do was collected, or answered before.            *)
Collected == {i \in Ids : ins[i].delivered}
JobsAreGiven ==
    \A k \in Ticks :
        /\ tick[k].at \in {"flush", "flushing"} => tick[k].todo \subseteq Truths
        /\ tick[k].at \in {"run", "answering"} => \A job \in tick[k].todo : job[1] \in Collected
(* What is on the books for an instruction, by what became of it.            *)
BooksAreRight ==
    \A i \in Ids :
        /\ books[i] <= 1
        /\ books[i] # 0 => ins[i].delivered /\ ins[i].kind \in Cash
        /\ ins[i].kind = "confirm" /\ books[i] # 0 => shift[ins[i].shift] = "confirmed"
StatesAreRight ==
    \A i \in Ids :
        /\ ins[i].kind \in Cash => /\ ins[i].st # "expired"
                                   /\ ins[i].st = "gone" => ~ins[i].delivered
        /\ ins[i].st = "failed" => <<i, "no">> \in Truths \/ ins[i].kind \notin Cash
        /\ ins[i].st = "acked" => <<i, "ok">> \in Truths \/ ins[i].kind \notin Cash
(* Money and counts are asked for on shifts the till has reported.           *)
ShiftsAreKnown ==
    /\ \A s \in Shifts : /\ report.shifts[s] # "none" => shift[s] # "none"
                         /\ report.shifts[s] \in Over => shift[s] \in Over
    /\ \A i \in Ids :
          /\ ins[i].kind \in Cash => ins[i].shift \in Shifts /\ shift[ins[i].shift] # "none"
          /\ ins[i].kind = "confirm" => shift[ins[i].shift] \in Over
OneCountPerShift ==
    \A i, j \in Ids : i # j /\ ins[i].kind = "confirm" /\ ins[j].kind = "confirm"
        /\ ins[i].shift = ins[j].shift => books[i] = 0 \/ books[j] = 0
ClosesAreDue ==
    /\ day.open => day.date # 0
    /\ \A c \in closed : ins[c[1]].kind = "close" /\ c[2] <= ins[c[1]].date
InstrInv ==
    /\ TypeOK /\ AnswersAreTrue /\ JobsAreGiven /\ BooksAreRight /\ StatesAreRight
    /\ ShiftsAreKnown /\ OneCountPerShift /\ ClosesAreDue

-----------------------------------------------------------------------------
(* TYPES                                                                     *)

LEMMA ConstantTypes ==
    /\ MaxIns \in Nat /\ MaxShifts \in Nat /\ MaxDate \in Nat \ {0} /\ MaxFaults \in Nat
    /\ Ids \subseteq Nat /\ Shifts \subseteq 1..MaxShifts /\ 0 \notin Ids /\ 0 \notin Shifts
PROOF BY BoundsAssumption DEF Ids, Shifts

(* What the operators that change an instruction make of it.                *)
LEMMA InstructionTypes ==
    ASSUME NEW r \in Instruction
    PROVE  /\ r.kind \in {"none", "close", "confirm", "money"} /\ r.delivered \in BOOLEAN
           /\ \A st \in {"none", "pending", "acked", "failed", "expired", "gone"} :
                 [r EXCEPT !.st = st] \in Instruction
           /\ [r EXCEPT !.delivered = TRUE] \in Instruction /\ [r EXCEPT !.wait = TRUE] \in Instruction
PROOF BY DEF Instruction

LEMMA NewTypes ==
    /\ NoIns \in Instruction
    /\ \A date \in 0..MaxDate, wait \in BOOLEAN :
          [New("close") EXCEPT !.date = date, !.wait = wait] \in Instruction
    /\ \A s \in Shifts : /\ [New("confirm") EXCEPT !.shift = s] \in Instruction
                         /\ [New("money") EXCEPT !.shift = s] \in Instruction
PROOF
<1>1. 0 \in 0..MaxDate /\ 0 \in 0..MaxShifts /\ Shifts \subseteq 0..MaxShifts
    BY BoundsAssumption DEF Shifts
<1>2. NoIns \in Instruction
    BY <1>1 DEF NoIns, Instruction
<1>3. New("close") \in Instruction /\ New("confirm") \in Instruction /\ New("money") \in Instruction
    BY <1>1 DEF New, NoIns, Instruction
<1>4. ASSUME NEW date \in 0..MaxDate, NEW wait \in BOOLEAN
      PROVE  [New("close") EXCEPT !.date = date, !.wait = wait] \in Instruction
    BY <1>3 DEF Instruction
<1>5. ASSUME NEW s \in Shifts
      PROVE  /\ [New("confirm") EXCEPT !.shift = s] \in Instruction
             /\ [New("money") EXCEPT !.shift = s] \in Instruction
    BY <1>1, <1>3 DEF Instruction
<1> QED BY <1>2, <1>4, <1>5

LEMMA InitTypes == Init => TypeOK
PROOF
<1> SUFFICES ASSUME Init PROVE TypeOK
    OBVIOUS
<1>1. 0 \in 0..MaxDate /\ 1 \in 1..MaxDate /\ 0 \in 0..MaxFaults /\ 0 \in 0..2
    BY ConstantTypes
<1>2. ins \in [Ids -> Instruction] /\ quiet \in BOOLEAN
    BY NewTypes DEF Init
<1>3. report \in [open: 0..MaxDate, shifts: [Shifts -> ShiftState]] /\ shift \in [Shifts -> ShiftState]
    BY <1>1 DEF Init, ShiftState
<1>4. day \in [open: BOOLEAN, date: 0..MaxDate]
    BY <1>1 DEF Init
<1>5. today \in 1..MaxDate /\ books \in [Ids -> 0..2] /\ pend \in [Ids -> Verdicts \cup {"none"}]
    BY <1>1 DEF Init
<1>6. tick \in [Ticks -> TickState]
    BY DEF Init, Idle, TickState, Stages
<1>7. acks \subseteq Ids \X Verdicts /\ faults \in 0..MaxFaults /\ closed \subseteq Ids \X (1..MaxDate)
    BY <1>1 DEF Init
<1> QED BY <1>2, <1>3, <1>4, <1>5, <1>6, <1>7 DEF TypeOK

(* The till's own steps.                                                     *)
LEMMA TillTypes ==
    ASSUME TypeOK,
           \/ \E s \in Shifts : OpenShift(s) \/ CloseShift(s) \/ ConfirmHere(s)
           \/ CloseHere \/ NextDate
    PROVE  TypeOK'
PROOF
<1> USE ConstantTypes DEF TypeOK, TillOnly, ShiftState
<1>1. ASSUME NEW s \in Shifts, OpenShift(s) PROVE TypeOK'
    BY <1>1 DEF OpenShift
<1>2. ASSUME NEW s \in Shifts, CloseShift(s) PROVE TypeOK'
    BY <1>2 DEF CloseShift
<1>3. ASSUME NEW s \in Shifts, ConfirmHere(s) PROVE TypeOK'
    BY <1>3 DEF ConfirmHere
<1>4. CASE CloseHere
    BY <1>4 DEF CloseHere
<1>5. CASE NextDate
    BY <1>5 DEF NextDate
<1> QED BY <1>1, <1>2, <1>3, <1>4, <1>5

(* The server's own steps change the instructions only.                      *)
LEMMA ServerTypes ==
    ASSUME TypeOK, NEW i \in Ids,
           \/ \E wait \in BOOLEAN : GiveClose(i, wait)
           \/ \E s \in Shifts : GiveConfirm(i, s) \/ GiveMoney(i, s)
           \/ Cancel(i) \/ Upgrade(i) \/ Expire(i)
    PROVE  TypeOK'
PROOF
<1>1. /\ ins \in [Ids -> Instruction] /\ today \in 0..MaxDate
      /\ \A j \in Ids : ins[j] \in Instruction
    BY ConstantTypes DEF TypeOK
<1>2. ServerOnly
    BY DEF GiveClose, GiveConfirm, GiveMoney, Cancel, Upgrade, Expire
<1>3. SUFFICES ins' \in [Ids -> Instruction]
    BY <1>2 DEF TypeOK, ServerOnly, till
<1>4. ASSUME NEW gone PROVE Withdrawn(gone) \in [Ids -> Instruction]
    BY <1>1, InstructionTypes DEF Withdrawn
<1>5. ASSUME NEW wait \in BOOLEAN, GiveClose(i, wait) PROVE ins' \in [Ids -> Instruction]
    BY <1>1, <1>4, <1>5, NewTypes DEF GiveClose
<1>6. ASSUME NEW s \in Shifts, GiveConfirm(i, s) PROVE ins' \in [Ids -> Instruction]
    BY <1>4, <1>6, NewTypes DEF GiveConfirm
<1>7. ASSUME NEW s \in Shifts, GiveMoney(i, s) PROVE ins' \in [Ids -> Instruction]
    BY <1>1, <1>7, NewTypes DEF GiveMoney, Put
<1>8. CASE Cancel(i)
    BY <1>1, <1>8, InstructionTypes DEF Cancel
<1>9. CASE Upgrade(i)
    BY <1>1, <1>9, InstructionTypes DEF Upgrade
<1>10. CASE Expire(i)
    BY <1>1, <1>10, InstructionTypes DEF Expire
<1> QED BY <1>5, <1>6, <1>7, <1>8, <1>9, <1>10

LEMMA GoTypes ==
    ASSUME TypeOK, NEW k \in Ticks, NEW at \in Stages,
           NEW on \in (Ids \X Verdicts) \cup {<<>>}, NEW todo \in SUBSET Job, Go(k, at, on, todo)
    PROVE  /\ tick' \in [Ticks -> TickState]
           /\ \A j \in Ticks \ {k} : tick'[j] = tick[j]
           /\ tick'[k].at \in {at, "idle", "poll"} /\ tick'[k].on = on /\ tick'[k].todo = todo
PROOF BY DEF TypeOK, Go, Then, TickState, Stages

LEMMA HearsTypes ==
    ASSUME NEW k \in Ticks
    PROVE  Hears(k) \in Stages
PROOF BY DEF Hears, Then, Stages

LEMMA FaultTypes ==
    ASSUME TypeOK, NEW kind, Fault(kind)
    PROVE  faults' \in 0..MaxFaults
PROOF BY ConstantTypes DEF Fault, TypeOK

LEMMA RetiredTypes ==
    ASSUME TypeOK, NEW i \in Ids, NEW verdict
    PROVE  Retired(i, verdict) \in Instruction
PROOF BY DEF TypeOK, Retired, Instruction

(* What a tick has in hand is an answer, or an instruction collected.        *)
LEMMA JobTypes ==
    ASSUME InstrInv, NEW k \in Ticks, NEW job \in tick[k].todo
    PROVE  /\ job \in Job /\ job[1] \in Ids /\ tick[k].todo \ {job} \in SUBSET Job
           /\ At(k, "flush") => job \in Ids \X Verdicts
PROOF BY DEF InstrInv, TypeOK, TickState, JobsAreGiven, Truths, Job, At

LEMMA VerdictTypes ==
    ASSUME NEW i \in Ids, NEW given
    PROVE  Verdict(i, given) \in Verdicts
PROOF BY DEF Verdict, Verdicts

(* Carrying one out keeps the types of the till's day and books.             *)
LEMMA CarryOutTypes ==
    ASSUME InstrInv, NEW i \in Ids, CarryOut(i)
    PROVE  /\ books' \in [Ids -> 0..2] /\ shift' \in [Shifts -> ShiftState]
           /\ day' \in [open: BOOLEAN, date: 0..MaxDate] /\ closed' \subseteq Ids \X (1..MaxDate)
PROOF
<1> USE DEF InstrInv, TypeOK, CarryOut
<1>1. books' \in [Ids -> 0..2]
    OBVIOUS
<1>2. shift' \in [Shifts -> ShiftState]
    BY DEF ShiftState
<1>3. day' \in [open: BOOLEAN, date: 0..MaxDate]
    OBVIOUS
<1>4. closed' \subseteq Ids \X (1..MaxDate)
    <2>1. day.open => day.date \in 1..MaxDate
        BY ConstantTypes DEF ClosesAreDue
    <2> QED BY <2>1 DEF ClosesDay
<1> QED BY <1>1, <1>2, <1>3, <1>4

(* The till's tick.                                                          *)
LEMMA TickTypes ==
    ASSUME InstrInv, NEW k \in Ticks,
           StartTick(k) \/ Flush(k) \/ Poll(k) \/ Execute(k) \/ GiveUp(k)
    PROVE  TypeOK'
PROOF
<1>0. TypeOK
    BY DEF InstrInv
<1>1. CASE StartTick(k)
    <2>1. {<<i, pend[i]>> : i \in Kept} \in SUBSET Job
        BY <1>0 DEF TypeOK, Kept, Job
    <2>2. Go(k, "flush", <<>>, {<<i, pend[i]>> : i \in Kept})
        BY <1>1 DEF StartTick
    <2>3. tick' \in [Ticks -> TickState]
        BY <1>0, <2>1, <2>2, GoTypes DEF Stages
    <2> QED BY <1>0, <1>1, <2>3 DEF StartTick, Rest, till, TypeOK
<1>2. CASE Flush(k)
    <2>1. PICK job \in tick[k].todo :
              Go(k, "flushing", job, tick[k].todo \ {job}) /\ acks' = acks \cup {job}
        BY <1>2 DEF Flush
    <2>2. job \in Ids \X Verdicts /\ tick[k].todo \ {job} \in SUBSET Job
        BY <1>2, JobTypes DEF Flush
    <2>3. tick' \in [Ticks -> TickState]
        BY <1>0, <2>1, <2>2, GoTypes DEF Stages
    <2> QED BY <1>0, <1>2, <2>1, <2>2, <2>3 DEF Flush, Rest, till, TypeOK
<1>3. CASE Poll(k)
    <2>1. \A todo \in SUBSET Job : Go(k, "run", <<>>, todo) \/ Go(k, "idle", <<>>, todo) =>
              tick' \in [Ticks -> TickState]
        BY <1>0, GoTypes DEF Stages
    <2>2. {<<i, Given(i)>> : i \in {j \in Ids : Pending(j)}} \in SUBSET Job /\ {} \in SUBSET Job
        BY DEF Given, Job
    <2>3. tick' \in [Ticks -> TickState]
        BY <1>3, <2>1, <2>2 DEF Poll
    <2>4. ins' \in [Ids -> Instruction]
        BY <1>0, <1>3, InstructionTypes DEF Poll, TypeOK
    <2>5. report' \in [open: 0..MaxDate, shifts: [Shifts -> ShiftState]]
        BY <1>0, <1>3, ConstantTypes DEF Poll, Report, TypeOK
    <2>6. faults' \in 0..MaxFaults
        BY <1>0, <1>3, FaultTypes DEF Poll, TypeOK
    <2> QED BY <1>0, <1>3, <2>3, <2>4, <2>5, <2>6 DEF Poll, Rest, till, TypeOK
<1>4. CASE Execute(k)
    <2>1. PICK job \in tick[k].todo :
              LET i == job[1]  left == tick[k].todo \ {job}  answer == <<i, Verdict(i, job[2])>> IN
              IF pend[i] # "none" THEN Go(k, "run", <<>>, left) /\ UNCHANGED <<books, day, shift, acks, closed>>
              ELSE CarryOut(i) /\ acks' = acks \cup {answer} /\ Go(k, "answering", answer, left)
        BY <1>4 DEF Execute
    <2> DEFINE i == job[1]  left == tick[k].todo \ {job}  answer == <<i, Verdict(i, job[2])>>
    <2>2. i \in Ids /\ left \in SUBSET Job /\ answer \in Ids \X Verdicts
        BY JobTypes, VerdictTypes
    <2>3. CASE pend[i] # "none"
        <3>1. tick' \in [Ticks -> TickState]
            BY <1>0, <2>1, <2>2, <2>3, GoTypes DEF Stages
        <3> QED BY <1>0, <1>4, <2>1, <2>3, <3>1 DEF Execute, TypeOK
    <2>4. CASE pend[i] = "none"
        <3>1. tick' \in [Ticks -> TickState]
            BY <1>0, <2>1, <2>2, <2>4, GoTypes DEF Stages
        <3>2. CarryOut(i) /\ acks' \subseteq Ids \X Verdicts
            BY <1>0, <2>1, <2>2, <2>4 DEF TypeOK
        <3> QED BY <1>0, <1>4, <2>2, <3>1, <3>2, CarryOutTypes DEF Execute, TypeOK
    <2> QED BY <2>3, <2>4
<1>5. CASE GiveUp(k)
    <2>1. tick' \in [Ticks -> TickState]
        BY <1>0, <1>5, HearsTypes, ZenonT(60) DEF GiveUp, TypeOK, TickState
    <2>2. tick[k].on \in Ids \X Verdicts
        BY <1>5 DEF GiveUp, InstrInv, AnswersAreTrue, Truths
    <2>3. pend' \in [Ids -> Verdicts \cup {"none"}]
        BY <1>0, <1>5, <2>2 DEF GiveUp, TypeOK
    <2>4. faults' \in 0..MaxFaults
        BY <1>0, <1>5, FaultTypes DEF GiveUp, TypeOK
    <2> QED BY <1>0, <1>5, <2>1, <2>3, <2>4 DEF GiveUp, Rest, till, TypeOK
<1> QED BY <1>1, <1>2, <1>3, <1>4, <1>5

LEMMA OtherTypes ==
    ASSUME TypeOK,
           \/ \E answer \in Ids \X Verdicts : TakeAnswer(answer)
           \/ GoQuiet \/ Return \/ Restart \/ UNCHANGED vars
    PROVE  TypeOK'
PROOF
<1> USE DEF Rest, till, TypeOK
<1>1. ASSUME NEW answer \in Ids \X Verdicts, TakeAnswer(answer) PROVE TypeOK'
    <2>1. ins' \in [Ids -> Instruction]
        BY <1>1, RetiredTypes DEF TakeAnswer
    <2>2. tick' \in [Ticks -> TickState]
        BY <1>1, HearsTypes, ZenonT(60) DEF TakeAnswer, TickState
    <2>3. pend' \in [Ids -> Verdicts \cup {"none"}]
        BY <1>1 DEF TakeAnswer
    <2> QED BY <1>1, <2>1, <2>2, <2>3 DEF TakeAnswer
<1>2. CASE GoQuiet
    BY <1>2, FaultTypes DEF GoQuiet, Idle, TickState, Stages
<1>3. CASE Return
    BY <1>3 DEF Return
<1>4. CASE Restart
    BY <1>4, FaultTypes DEF Restart, Idle, TickState, Stages
<1>5. CASE UNCHANGED vars
    BY <1>5 DEF vars
<1> QED BY <1>1, <1>2, <1>3, <1>4, <1>5

-----------------------------------------------------------------------------
(* WHAT NO STEP UNDOES                                                       *)

(* An instruction once collected stays the same and collected, a shift opens *)
(* once and is over for good, and books change only where they are written.  *)
Forward ==
    /\ \A i \in Ids : ins[i].delivered =>
          ins'[i].delivered /\ ins'[i].kind = ins[i].kind /\ ins'[i].shift = ins[i].shift
    /\ \A s \in Shifts : /\ shift[s] # "none" => shift'[s] # "none"
                         /\ shift[s] \in Over => shift'[s] \in Over
                         /\ shift[s] = "confirmed" => shift'[s] = "confirmed"
    /\ \A i \in Ids : ~Writes(i) => books'[i] = books[i]

LEMMA TillGoesForward ==
    ASSUME InstrInv,
           \/ \E s \in Shifts : OpenShift(s) \/ CloseShift(s) \/ ConfirmHere(s)
           \/ CloseHere \/ NextDate
    PROVE  Forward /\ UNCHANGED <<ins, report, quiet, books, pend, tick, acks, closed>>
PROOF BY DEF InstrInv, TypeOK, Forward, Over, OpenShift, CloseShift, ConfirmHere, CloseHere, NextDate, TillOnly

LEMMA ServerGoesForward ==
    ASSUME InstrInv, NEW i \in Ids,
           \/ \E wait \in BOOLEAN : GiveClose(i, wait)
           \/ \E s \in Shifts : GiveConfirm(i, s) \/ GiveMoney(i, s)
           \/ Cancel(i) \/ Upgrade(i) \/ Expire(i)
    PROVE  Forward /\ ServerOnly
PROOF
<1>0. \A j \in Ids : ins[j] \in Instruction /\ ins \in [Ids -> Instruction]
    BY DEF InstrInv, TypeOK
<1>1. ServerOnly
    BY DEF GiveClose, GiveConfirm, GiveMoney, Cancel, Upgrade, Expire
<1>2. SUFFICES ASSUME NEW j \in Ids, ins[j].delivered
               PROVE  ins'[j].delivered /\ ins'[j].kind = ins[j].kind /\ ins'[j].shift = ins[j].shift
    BY <1>1 DEF Forward, ServerOnly, till
<1>3. ~NoIns.delivered
    BY DEF NoIns
<1>4. ASSUME NEW gone PROVE /\ Withdrawn(gone)[j].delivered /\ Withdrawn(gone)[j].kind = ins[j].kind
                            /\ Withdrawn(gone)[j].shift = ins[j].shift
    BY <1>0, <1>2 DEF Withdrawn, Instruction
<1>5. ASSUME NEW wait \in BOOLEAN, GiveClose(i, wait)
      PROVE  ins'[j].delivered /\ ins'[j].kind = ins[j].kind /\ ins'[j].shift = ins[j].shift
    <2>1. i # j
        BY <1>2, <1>3, <1>5 DEF GiveClose, Next1
    <2> QED BY <1>4, <1>5, <2>1 DEF GiveClose, Withdrawn
<1>6. ASSUME NEW s \in Shifts, GiveConfirm(i, s)
      PROVE  ins'[j].delivered /\ ins'[j].kind = ins[j].kind /\ ins'[j].shift = ins[j].shift
    <2>1. i # j
        BY <1>2, <1>3, <1>6 DEF GiveConfirm, Next1
    <2> QED BY <1>4, <1>6, <2>1 DEF GiveConfirm, Withdrawn
<1>7. ASSUME NEW s \in Shifts, GiveMoney(i, s)
      PROVE  ins'[j].delivered /\ ins'[j].kind = ins[j].kind /\ ins'[j].shift = ins[j].shift
    <2>1. i # j
        BY <1>2, <1>3, <1>7 DEF GiveMoney, Next1
    <2> QED BY <1>0, <1>2, <1>7, <2>1 DEF GiveMoney, Put
<1>8. CASE Cancel(i)
    BY <1>0, <1>2, <1>8 DEF Cancel, Instruction
<1>9. CASE Upgrade(i)
    BY <1>0, <1>2, <1>9 DEF Upgrade, Instruction
<1>10. CASE Expire(i)
    BY <1>0, <1>2, <1>10 DEF Expire, Instruction
<1> QED BY <1>5, <1>6, <1>7, <1>8, <1>9, <1>10

LEMMA CarryOutGoesForward ==
    ASSUME InstrInv, NEW i \in Ids, CarryOut(i), UNCHANGED ins
    PROVE  Forward
PROOF
<1>1. \A s \in Shifts : /\ shift[s] # "none" => shift'[s] # "none"
                        /\ shift[s] \in Over => shift'[s] \in Over
                        /\ shift[s] = "confirmed" => shift'[s] = "confirmed"
    BY DEF InstrInv, TypeOK, CarryOut, Over
<1>2. \A j \in Ids : ~Writes(j) => books'[j] = books[j]
    BY DEF InstrInv, TypeOK, CarryOut
<1> QED BY <1>1, <1>2 DEF Forward

LEMMA TickGoesForward ==
    ASSUME InstrInv, NEW k \in Ticks,
           StartTick(k) \/ Flush(k) \/ Poll(k) \/ Execute(k) \/ GiveUp(k)
    PROVE  Forward
PROOF
<1>1. CASE StartTick(k) \/ Flush(k) \/ GiveUp(k)
    BY <1>1 DEF StartTick, Flush, GiveUp, Rest, till, Forward
<1>2. CASE Poll(k)
    BY <1>2, InstructionTypes DEF Poll, Rest, till, Forward, InstrInv, TypeOK, Instruction
<1>3. CASE Execute(k)
    <2>1. PICK job \in tick[k].todo :
              LET i == job[1]  left == tick[k].todo \ {job}  answer == <<i, Verdict(i, job[2])>> IN
              IF pend[i] # "none" THEN Go(k, "run", <<>>, left) /\ UNCHANGED <<books, day, shift, acks, closed>>
              ELSE CarryOut(i) /\ acks' = acks \cup {answer} /\ Go(k, "answering", answer, left)
        BY <1>3 DEF Execute
    <2>2. job[1] \in Ids /\ UNCHANGED ins
        BY <1>3, JobTypes DEF Execute
    <2>3. CASE pend[job[1]] # "none"
        BY <2>1, <2>2, <2>3 DEF Forward
    <2>4. CASE pend[job[1]] = "none"
        BY <2>1, <2>2, <2>4, CarryOutGoesForward
    <2> QED BY <2>3, <2>4
<1> QED BY <1>1, <1>2, <1>3

(* An answer changes only the state of the instruction it is about.          *)
LEMMA RetiredIs ==
    ASSUME TypeOK, NEW answer \in Ids \X Verdicts, TakeAnswer(answer), NEW i \in Ids
    PROVE  /\ ins'[i].kind = ins[i].kind /\ ins'[i].delivered = ins[i].delivered
           /\ ins'[i].shift = ins[i].shift /\ ins'[i].date = ins[i].date
           /\ \/ ins'[i].st = ins[i].st
              \/ i = answer[1] /\ ins'[i].st = IF answer[2] = "ok" THEN "acked" ELSE "failed"
PROOF
<1>1. ins[i] \in Instruction /\ ins \in [Ids -> Instruction] /\ answer[1] \in Ids
    BY DEF TypeOK
<1>2. ins' = [ins EXCEPT ![answer[1]] = Retired(answer[1], answer[2])]
    BY DEF TakeAnswer
<1>3. CASE i # answer[1]
    BY <1>1, <1>2, <1>3
<1>4. CASE i = answer[1]
    <2>1. ins'[i] = Retired(i, answer[2])
        BY <1>1, <1>2, <1>4
    <2> QED BY <1>1, <1>4, <2>1 DEF Retired, Instruction
<1> QED BY <1>3, <1>4

LEMMA OthersGoForward ==
    ASSUME InstrInv,
           \/ \E answer \in Ids \X Verdicts : TakeAnswer(answer)
           \/ GoQuiet \/ Return \/ Restart \/ UNCHANGED vars
    PROVE  Forward /\ UNCHANGED <<report, books, shift, day, closed>>
PROOF
<1> USE DEF Rest, till, Forward
<1>1. ASSUME NEW answer \in Ids \X Verdicts, TakeAnswer(answer)
      PROVE  Forward /\ UNCHANGED <<report, books, shift, day, closed>>
    <2>1. UNCHANGED <<report, books, shift, day, closed>>
        BY <1>1 DEF TakeAnswer
    <2>2. \A i \in Ids : /\ ins'[i].kind = ins[i].kind /\ ins'[i].delivered = ins[i].delivered
                         /\ ins'[i].shift = ins[i].shift
        BY <1>1, RetiredIs DEF InstrInv
    <2> QED BY <2>1, <2>2
<1>2. CASE GoQuiet \/ Return \/ Restart
    BY <1>2 DEF GoQuiet, Return, Restart
<1>3. CASE UNCHANGED vars
    BY <1>3 DEF vars
<1> QED BY <1>1, <1>2, <1>3

LEMMA ToldStays ==
    ASSUME InstrInv, Forward, NEW i \in Ids, NEW v, Told(i, v)
    PROVE  Told(i, v)'
PROOF
<1>1. /\ ins[i].delivered /\ ins'[i].delivered
      /\ ins'[i].kind = ins[i].kind /\ ins'[i].shift = ins[i].shift
    BY DEF Forward, Told
<1>2. CASE ins[i].kind = "money"
    <2>1. ~Writes(i)
        BY <1>2 DEF Told, Writes, Over
    <2>2. books'[i] = books[i]
        BY <2>1 DEF Forward
    <2>3. ins[i].shift \in Shifts
        BY <1>2 DEF InstrInv, ShiftsAreKnown, Cash
    <2> QED BY <1>1, <1>2, <2>2, <2>3 DEF Told, Forward
<1>3. CASE ins[i].kind = "confirm"
    <2>1. ins[i].shift \in Shifts
        BY <1>3 DEF InstrInv, ShiftsAreKnown, Cash
    <2> QED BY <1>1, <1>3, <2>1 DEF Told, Forward
<1>4. CASE ins[i].kind \notin Cash
    BY <1>1, <1>4 DEF Told, Cash
<1> QED BY <1>2, <1>3, <1>4 DEF Cash

LEMMA TruthsStay ==
    ASSUME InstrInv, Forward
    PROVE  Truths \subseteq Truths' /\ Collected \subseteq Collected'
PROOF
<1>1. ASSUME NEW a \in Truths PROVE a \in Truths'
    <2>1. a \in Ids \X Verdicts /\ a[1] \in Ids /\ Told(a[1], a[2])
        BY DEF Truths
    <2>2. Told(a[1], a[2])'
        BY <2>1, ToldStays
    <2> QED BY <2>1, <2>2 DEF Truths
<1>2. Collected \subseteq Collected'
    BY DEF Collected, Forward
<1> QED BY <1>1, <1>2

-----------------------------------------------------------------------------
(* ANSWERS                                                                   *)

(* No answer is given, and no job taken.                                     *)
LEMMA HandsStay ==
    ASSUME InstrInv, Forward, UNCHANGED <<pend, tick, acks>>
    PROVE  AnswersAreTrue' /\ JobsAreGiven'
PROOF
<1>1. AnswersAreTrue'
    BY TruthsStay DEF InstrInv, AnswersAreTrue
<1>2. JobsAreGiven'
    BY TruthsStay DEF InstrInv, JobsAreGiven
<1> QED BY <1>1, <1>2

(* The answer to an instruction just carried out is true.                    *)
LEMMA VerdictIsTrue ==
    ASSUME InstrInv, NEW i \in Collected, NEW given, CarryOut(i), UNCHANGED ins
    PROVE  <<i, Verdict(i, given)>> \in Truths'
PROOF
<1>1. i \in Ids /\ ins[i].delivered /\ Verdict(i, given) \in Verdicts
    BY VerdictTypes DEF Collected
<1>2. CASE ins[i].kind = "money"
    <2>1. books \in [Ids -> 0..2] /\ books[i] \in {0, 1} /\ books' \in [Ids -> 0..2]
        BY <1>1, CarryOutTypes DEF InstrInv, TypeOK, BooksAreRight
    <2>2. shift' = shift /\ ins[i].shift \in Shifts /\ shift[ins[i].shift] # "none"
          /\ shift[ins[i].shift] \in ShiftState
        BY <1>1, <1>2 DEF CarryOut, InstrInv, ShiftsAreKnown, Cash, TypeOK
    <2>3. CASE Writes(i)
        BY <1>1, <1>2, <2>1, <2>2, <2>3 DEF CarryOut, Writes, Verdict, Truths, Told
    <2>4. CASE ~Writes(i)
        BY <1>1, <1>2, <2>1, <2>2, <2>4 DEF CarryOut, Writes, Verdict, Truths, Told, Over, ShiftState
    <2> QED BY <2>3, <2>4
<1>3. CASE ins[i].kind = "confirm"
    <2>1. ins[i].shift \in Shifts /\ shift[ins[i].shift] \in Over
        BY <1>1, <1>3 DEF InstrInv, ShiftsAreKnown, Cash
    <2>2. Verdict(i, given) = "ok"
        BY <1>3, <2>1 DEF Verdict, Over
    <2>3. shift'[ins[i].shift] = "confirmed"
        BY <1>3, <2>1 DEF CarryOut, Writes, Over, InstrInv, TypeOK
    <2> QED BY <1>1, <1>3, <2>2, <2>3 DEF Truths, Told
<1>4. CASE ins[i].kind \notin Cash
    BY <1>1, <1>4 DEF Truths, Told, Cash
<1> QED BY <1>2, <1>3, <1>4 DEF Cash

LEMMA TickAnswers ==
    ASSUME InstrInv, NEW k \in Ticks,
           StartTick(k) \/ Flush(k) \/ Poll(k) \/ Execute(k) \/ GiveUp(k)
    PROVE  AnswersAreTrue' /\ JobsAreGiven'
PROOF
<1>0. Forward /\ Truths \subseteq Truths' /\ Collected \subseteq Collected'
    BY TickGoesForward, TruthsStay
<1> USE DEF InstrInv, AnswersAreTrue, JobsAreGiven
<1>1. CASE StartTick(k)
    <2>1. {<<i, pend[i]>> : i \in Kept} \subseteq Truths /\ UNCHANGED <<pend, acks>>
        BY <1>1 DEF Kept, StartTick
    <2>2. /\ \A j \in Ticks \ {k} : tick'[j] = tick[j]
          /\ tick'[k].at \in {"flush", "idle", "poll"}
          /\ tick'[k].todo = {<<i, pend[i]>> : i \in Kept}
        <3> DEFINE todo == {<<i, pend[i]>> : i \in Kept}
        <3>1. todo \in SUBSET Job
            BY DEF Kept, TypeOK, Job
        <3>2. TypeOK /\ "flush" \in Stages /\ Go(k, "flush", <<>>, todo)
            BY <1>1 DEF StartTick, Stages
        <3> HIDE DEF todo
        <3>3. /\ \A j \in Ticks \ {k} : tick'[j] = tick[j]
              /\ tick'[k].at \in {"flush", "idle", "poll"} /\ tick'[k].todo = todo
            BY <3>1, <3>2, GoTypes
        <3> QED BY <3>3 DEF todo
    <2> QED BY <1>0, <2>1, <2>2
<1>2. CASE Flush(k)
    <2>1. PICK job \in tick[k].todo :
              Go(k, "flushing", job, tick[k].todo \ {job}) /\ acks' = acks \cup {job}
        BY <1>2 DEF Flush
    <2>2. job \in Truths /\ tick[k].todo \subseteq Truths /\ UNCHANGED pend
        BY <1>2 DEF Flush, At, Rest
    <2>3. /\ \A j \in Ticks \ {k} : tick'[j] = tick[j]
          /\ tick'[k].at \in {"flushing", "idle", "poll"} /\ tick'[k].on = job
          /\ tick'[k].todo = tick[k].todo \ {job}
        BY <1>2, <2>1, JobTypes, GoTypes DEF Flush, Stages
    <2> QED BY <1>0, <2>1, <2>2, <2>3
<1>3. CASE Poll(k)
    <2>1. UNCHANGED <<pend, acks>>
        BY <1>3 DEF Poll
    <2>2. \A todo \in SUBSET Job : Go(k, "run", <<>>, todo) \/ Go(k, "idle", <<>>, todo) =>
             /\ \A j \in Ticks \ {k} : tick'[j] = tick[j]
             /\ tick'[k].at \in {"run", "idle", "poll"} /\ tick'[k].todo = todo
        BY GoTypes DEF Stages
    <2>3. {<<i, Given(i)>> : i \in {j \in Ids : Pending(j)}} \in SUBSET Job /\ {} \in SUBSET Job
        BY DEF Given, Job
    <2>4. /\ \A j \in Ticks \ {k} : tick'[j] = tick[j]
          /\ tick'[k].at \in {"run", "idle", "poll"}
          /\ \A job \in tick'[k].todo : job[1] \in Ids /\ Pending(job[1])
        BY <1>3, <2>2, <2>3 DEF Poll
    <2>5. \A i \in Ids : Pending(i) => i \in Collected'
        BY <1>3 DEF Poll, Collected, TypeOK, Instruction
    <2> QED BY <1>0, <2>1, <2>4, <2>5
<1>4. CASE Execute(k)
    <2>1. PICK job \in tick[k].todo :
              LET i == job[1]  left == tick[k].todo \ {job}  answer == <<i, Verdict(i, job[2])>> IN
              IF pend[i] # "none" THEN Go(k, "run", <<>>, left) /\ UNCHANGED <<books, day, shift, acks, closed>>
              ELSE CarryOut(i) /\ acks' = acks \cup {answer} /\ Go(k, "answering", answer, left)
        BY <1>4 DEF Execute
    <2> DEFINE i == job[1]  left == tick[k].todo \ {job}  answer == <<i, Verdict(i, job[2])>>
    <2>2. /\ i \in Ids /\ left \in SUBSET Job /\ answer \in Ids \X Verdicts
          /\ i \in Collected /\ UNCHANGED <<pend, ins>>
          /\ \A other \in left : other[1] \in Collected'
        BY <1>0, <1>4, JobTypes, VerdictTypes DEF Execute, At
    <2>3. CASE pend[i] # "none"
        <3>1. /\ \A j \in Ticks \ {k} : tick'[j] = tick[j]
              /\ tick'[k].at \in {"run", "idle", "poll"} /\ tick'[k].todo = left
            BY <2>1, <2>2, <2>3, GoTypes DEF Stages
        <3> QED BY <1>0, <2>1, <2>2, <2>3, <3>1
    <2>4. CASE pend[i] = "none"
        <3>1. /\ \A j \in Ticks \ {k} : tick'[j] = tick[j]
              /\ tick'[k].at \in {"answering", "idle", "poll"} /\ tick'[k].todo = left
              /\ tick'[k].on = answer
            BY <2>1, <2>2, <2>4, GoTypes DEF Stages
        <3>2. CarryOut(i) /\ acks' = acks \cup {answer}
            BY <2>1, <2>4
        <3>3. answer \in Truths'
            BY <2>2, <3>2, VerdictIsTrue
        <3> HIDE DEF answer, left
        <3> QED BY <1>0, <2>2, <3>1, <3>2, <3>3
    <2> QED BY <2>3, <2>4
<1>5. CASE GiveUp(k)
    <2>1. tick[k].on \in Truths /\ tick[k].on \in Ids \X Verdicts
        BY <1>5 DEF GiveUp, Truths
    <2>2. \A i \in Ids : pend'[i] # "none" => <<i, pend'[i]>> \in Truths
        BY <1>5, <2>1 DEF GiveUp, TypeOK
    <2>3. /\ \A j \in Ticks \ {k} : tick'[j] = tick[j]
          /\ tick'[k].at = Hears(k) /\ tick'[k].todo = tick[k].todo
        BY <1>5 DEF GiveUp, TypeOK, TickState
    <2>4. \/ At(k, "answering") /\ Hears(k) \in {"run", "idle"}
          \/ At(k, "flushing") /\ Hears(k) \in {"flush", "idle", "poll"}
        BY <1>5 DEF GiveUp, Hears, Then, At
    <2> QED BY <1>0, <1>5, <2>2, <2>3, <2>4 DEF GiveUp, At
<1> QED BY <1>1, <1>2, <1>3, <1>4, <1>5

LEMMA OtherAnswers ==
    ASSUME InstrInv,
           \/ \E answer \in Ids \X Verdicts : TakeAnswer(answer)
           \/ GoQuiet \/ Return \/ Restart \/ UNCHANGED vars
    PROVE  AnswersAreTrue' /\ JobsAreGiven'
PROOF
<1>0. Forward /\ Truths \subseteq Truths' /\ Collected \subseteq Collected'
    BY OthersGoForward, TruthsStay
<1> USE DEF InstrInv, AnswersAreTrue, JobsAreGiven
<1>1. ASSUME NEW answer \in Ids \X Verdicts, TakeAnswer(answer)
      PROVE  AnswersAreTrue' /\ JobsAreGiven'
    <2>1. \A i \in Ids : pend'[i] # "none" => pend'[i] = pend[i]
        BY <1>1 DEF TakeAnswer, TypeOK
    <2>2. ASSUME NEW k \in Ticks
          PROVE  \/ tick'[k] = tick[k]
                 \/ /\ tick'[k].at = Hears(k) /\ tick'[k].todo = tick[k].todo
                    /\ \/ At(k, "answering") /\ Hears(k) \in {"run", "idle"}
                       \/ At(k, "flushing") /\ Hears(k) \in {"flush", "idle", "poll"}
        <3>1. CASE Waits(k, answer)
            <4>1. tick'[k].at = Hears(k) /\ tick'[k].todo = tick[k].todo
                BY <1>1, <3>1 DEF TakeAnswer, TypeOK, TickState
            <4> QED BY <3>1, <4>1 DEF Waits, Hears, Then, At
        <3>2. CASE ~Waits(k, answer)
            BY <1>1, <3>2 DEF TakeAnswer
        <3> QED BY <3>1, <3>2
    <2>3. acks' \subseteq Truths'
        BY <1>0, <1>1 DEF TakeAnswer
    <2> QED BY <1>0, <2>1, <2>2, <2>3 DEF At
<1>2. CASE GoQuiet
    BY <1>0, <1>2 DEF GoQuiet, Idle
<1>3. CASE Return
    BY <1>3, HandsStay, <1>0 DEF Return
<1>4. CASE Restart
    BY <1>0, <1>4 DEF Restart, Idle
<1>5. CASE UNCHANGED vars
    BY <1>0, <1>5, HandsStay DEF vars
<1> QED BY <1>1, <1>2, <1>3, <1>4, <1>5

-----------------------------------------------------------------------------
(* BOOKS                                                                     *)

BooksInv == BooksAreRight /\ StatesAreRight /\ ShiftsAreKnown /\ OneCountPerShift /\ ClosesAreDue

(* Steps that give no instruction, answer none and write nothing.            *)
LEMMA BooksStay ==
    ASSUME InstrInv, Forward, UNCHANGED <<ins, report, books, closed>>, day'.open => day'.date # 0
    PROVE  BooksInv'
PROOF
<1> USE DEF InstrInv
<1>1. BooksAreRight'
    BY DEF BooksAreRight, ShiftsAreKnown, Cash, Forward
<1>2. StatesAreRight'
    BY TruthsStay DEF StatesAreRight
<1>3. ShiftsAreKnown'
    BY DEF ShiftsAreKnown, Forward, Cash
<1>4. OneCountPerShift'
    BY DEF OneCountPerShift
<1>5. ClosesAreDue'
    BY DEF ClosesAreDue
<1> QED BY <1>1, <1>2, <1>3, <1>4, <1>5 DEF BooksInv

(* What the server makes of an instruction: it is a new one, or it is        *)
(* withdrawn before it was collected, or it is a close.                      *)
New1(i) ==
    /\ ins[i] = NoIns /\ ins'[i].kind # "none" /\ ins'[i].st = "pending" /\ ~ins'[i].delivered
    /\ ins'[i].kind \in Cash => ins'[i].shift \in Shifts /\ shift[ins'[i].shift] # "none"
    /\ ins'[i].kind = "confirm" => shift[ins'[i].shift] \in Over
Same1(i) ==
    /\ ins'[i].kind = ins[i].kind /\ ins'[i].shift = ins[i].shift /\ ins'[i].date = ins[i].date
    /\ ins'[i].delivered = ins[i].delivered
    /\ \/ ins'[i].st = ins[i].st
       \/ ins'[i].st = "gone" /\ (ins[i].kind = "close" \/ ~ins[i].delivered)
       \/ ins'[i].st = "expired" /\ ins[i].kind = "close"

LEMMA WithdrawnSame ==
    ASSUME TypeOK, NEW gone, NEW i \in Ids,
           i \in gone => ins[i].kind = "close" \/ ~ins[i].delivered, ins'[i] = Withdrawn(gone)[i]
    PROVE  Same1(i)
PROOF
<1>1. ins[i] \in Instruction
    BY DEF TypeOK
<1> QED BY <1>1 DEF Withdrawn, Same1, Instruction

LEMMA ServerChanges ==
    ASSUME InstrInv, NEW i \in Ids,
           \/ \E wait \in BOOLEAN : GiveClose(i, wait)
           \/ \E s \in Shifts : GiveConfirm(i, s) \/ GiveMoney(i, s)
           \/ Cancel(i) \/ Upgrade(i) \/ Expire(i),
           NEW j \in Ids
    PROVE  New1(j) \/ Same1(j)
PROOF
<1>0. TypeOK /\ ins \in [Ids -> Instruction] /\ ins[j] \in Instruction /\ ins[i] \in Instruction
    BY DEF InstrInv, TypeOK
<1>1. ASSUME NEW wait \in BOOLEAN, GiveClose(i, wait) PROVE New1(j) \/ Same1(j)
    <2> DEFINE closes == {h \in Ids : ins[h].kind = "close"}
               given == [New("close") EXCEPT !.date = today, !.wait = wait]
    <2>1. ins' = [Withdrawn(closes) EXCEPT ![i] = given] /\ ins[i] = NoIns
        BY <1>1 DEF GiveClose, Next1
    <2>2. given.kind = "close" /\ given.st = "pending" /\ ~given.delivered
        BY DEF New, NoIns
    <2>3. CASE i = j
        BY <2>1, <2>2, <2>3 DEF Withdrawn, New1, Cash
    <2>4. CASE i # j
        <3>1. ins'[j] = Withdrawn(closes)[j]
            BY <2>1, <2>4 DEF Withdrawn
        <3>2. j \in closes => ins[j].kind = "close" \/ ~ins[j].delivered
            OBVIOUS
        <3> HIDE DEF closes
        <3> QED BY <1>0, <3>1, <3>2, WithdrawnSame
    <2> QED BY <2>3, <2>4
<1>2. ASSUME NEW s \in Shifts, GiveConfirm(i, s) PROVE New1(j) \/ Same1(j)
    <2> DEFINE gone == {h \in Ids : Replaced(h, s)}
               given == [New("confirm") EXCEPT !.shift = s]
    <2>1. ins' = [Withdrawn(gone) EXCEPT ![i] = given] /\ ins[i] = NoIns /\ report.shifts[s] = "awaiting"
        BY <1>2 DEF GiveConfirm, Next1
    <2>2. given.kind = "confirm" /\ given.st = "pending" /\ ~given.delivered /\ given.shift = s
        BY DEF New, NoIns
    <2>3. shift[s] # "none" /\ shift[s] \in Over
        BY <2>1 DEF InstrInv, ShiftsAreKnown, Over
    <2>4. CASE i = j
        BY <2>1, <2>2, <2>3, <2>4 DEF Withdrawn, New1, Cash
    <2>5. CASE i # j
        <3>1. ins'[j] = Withdrawn(gone)[j]
            BY <2>1, <2>5 DEF Withdrawn
        <3>2. j \in gone => ins[j].kind = "close" \/ ~ins[j].delivered
            BY DEF Replaced
        <3> HIDE DEF gone
        <3> QED BY <1>0, <3>1, <3>2, WithdrawnSame
    <2> QED BY <2>4, <2>5
<1>3. ASSUME NEW s \in Shifts, GiveMoney(i, s) PROVE New1(j) \/ Same1(j)
    <2> DEFINE given == [New("money") EXCEPT !.shift = s]
    <2>1. ins' = [ins EXCEPT ![i] = given] /\ ins[i] = NoIns /\ report.shifts[s] = "open"
        BY <1>3 DEF GiveMoney, Next1, Put
    <2>2. given.kind = "money" /\ given.st = "pending" /\ ~given.delivered /\ given.shift = s
        BY DEF New, NoIns
    <2>3. shift[s] # "none"
        BY <2>1 DEF InstrInv, ShiftsAreKnown
    <2>4. CASE i = j
        BY <1>0, <2>1, <2>2, <2>3, <2>4 DEF New1
    <2>5. CASE i # j
        BY <1>0, <2>1, <2>5 DEF Same1
    <2> QED BY <2>4, <2>5
<1>4. CASE Cancel(i)
    BY <1>0, <1>4 DEF Cancel, MayCancel, Same1, Instruction
<1>5. CASE Upgrade(i)
    BY <1>0, <1>5 DEF Upgrade, Same1, Instruction
<1>6. CASE Expire(i)
    BY <1>0, <1>6 DEF Expire, Same1, Instruction
<1> QED BY <1>1, <1>2, <1>3, <1>4, <1>5, <1>6

LEMMA ServerBooks ==
    ASSUME InstrInv, NEW i \in Ids,
           \/ \E wait \in BOOLEAN : GiveClose(i, wait)
           \/ \E s \in Shifts : GiveConfirm(i, s) \/ GiveMoney(i, s)
           \/ Cancel(i) \/ Upgrade(i) \/ Expire(i)
    PROVE  BooksInv'
PROOF
<1>0. /\ Forward /\ UNCHANGED <<day, shift, report, books, closed>>
      /\ Truths \subseteq Truths' /\ \A j \in Ids : New1(j) \/ Same1(j)
    BY ServerGoesForward, TruthsStay, ServerChanges DEF ServerOnly, till
<1>1. NoIns.kind = "none" /\ ~NoIns.delivered
    BY DEF NoIns
<1> USE DEF InstrInv
<1>2. BooksAreRight'
    BY <1>0, <1>1 DEF BooksAreRight, New1, Same1
<1>3. StatesAreRight'
    BY <1>0 DEF StatesAreRight, New1, Same1, Cash
<1>4. ShiftsAreKnown'
    BY <1>0 DEF ShiftsAreKnown, New1, Same1
<1>5. OneCountPerShift'
    <2>1. \A j \in Ids : New1(j) => books'[j] = 0
        BY <1>0, <1>1 DEF New1, BooksAreRight
    <2> QED BY <1>0, <2>1 DEF OneCountPerShift, Same1
<1>6. ClosesAreDue'
    BY <1>0, <1>1 DEF ClosesAreDue, New1, Same1, TypeOK
<1> QED BY <1>2, <1>3, <1>4, <1>5, <1>6 DEF BooksInv

(* An instruction carried out is written once, on a shift nothing was        *)
(* counted for.                                                              *)
LEMMA CarryOutBooks ==
    ASSUME InstrInv, NEW i \in Collected, CarryOut(i), UNCHANGED <<ins, report>>
    PROVE  BooksInv'
PROOF
<1>0. i \in Ids /\ ins[i].delivered /\ Forward /\ Truths \subseteq Truths' /\ books \in [Ids -> 0..2]
    BY CarryOutGoesForward, TruthsStay DEF Collected, InstrInv, TypeOK
<1> USE DEF InstrInv
<1>1. Writes(i) => /\ books[i] = 0 /\ ins[i].kind \in Cash
                   /\ books' = [books EXCEPT ![i] = 1]
                   /\ ins[i].kind = "confirm" => /\ shift[ins[i].shift] = "awaiting"
                                                 /\ shift'[ins[i].shift] = "confirmed"
    <2>1. Writes(i) => books[i] = 0 /\ ins[i].kind \in Cash
        BY <1>0 DEF Writes, Cash, BooksAreRight
    <2>2. ins[i].kind = "confirm" => ins[i].shift \in Shifts
        BY <1>0 DEF ShiftsAreKnown, Cash
    <2>3. Writes(i) => books' = [books EXCEPT ![i] = 1]
        BY <1>0, <2>1 DEF CarryOut
    <2> QED BY <2>1, <2>2, <2>3 DEF CarryOut, Writes, TypeOK
<1>2. ~Writes(i) => books' = books
    BY DEF CarryOut
<1>3. BooksAreRight'
    BY <1>0, <1>1, <1>2 DEF BooksAreRight, ShiftsAreKnown, Cash, Forward
<1>4. StatesAreRight'
    BY <1>0 DEF StatesAreRight
<1>5. ShiftsAreKnown'
    BY <1>0 DEF ShiftsAreKnown, Forward, Cash
<1>6. OneCountPerShift'
    <2>1. ASSUME Writes(i), ins[i].kind = "confirm",
                 NEW j \in Ids, i # j, ins[j].kind = "confirm", ins[j].shift = ins[i].shift
          PROVE  books[j] = 0
        BY <1>1, <2>1 DEF BooksAreRight
    <2> QED BY <1>0, <1>1, <1>2, <2>1 DEF OneCountPerShift
<1>7. ClosesAreDue'
    <2>1. day'.open => day'.date # 0
        BY DEF CarryOut, ClosesAreDue, TypeOK
    <2>2. ClosesDay(i) => ins[i].kind = "close" /\ day.date <= ins[i].date
        BY <1>0, ConstantTypes DEF ClosesDay, Stale, TypeOK, Instruction
    <2> QED BY <2>1, <2>2 DEF CarryOut, ClosesAreDue
<1> QED BY <1>3, <1>4, <1>5, <1>6, <1>7 DEF BooksInv

LEMMA PollBooks ==
    ASSUME InstrInv, NEW k \in Ticks, Poll(k)
    PROVE  BooksInv'
PROOF
<1>0. Forward /\ Truths \subseteq Truths' /\ UNCHANGED <<books, day, shift, closed>>
    BY TickGoesForward, TruthsStay DEF Poll, Rest, till
<1> USE DEF InstrInv
<1>1. ASSUME NEW i \in Ids
      PROVE  /\ ins'[i].kind = ins[i].kind /\ ins'[i].st = ins[i].st
             /\ ins'[i].shift = ins[i].shift /\ ins'[i].date = ins[i].date
             /\ ins'[i].delivered = ins[i].delivered \/ ins[i].st = "pending"
             /\ ins[i].delivered => ins'[i].delivered
    BY DEF Poll, Pending, TypeOK, Instruction
<1>2. BooksAreRight'
    BY <1>0, <1>1 DEF BooksAreRight
<1>3. StatesAreRight'
    BY <1>0, <1>1 DEF StatesAreRight
<1>4. ShiftsAreKnown'
    BY <1>0, <1>1 DEF ShiftsAreKnown, Poll, Report, Over
<1>5. OneCountPerShift'
    BY <1>0, <1>1 DEF OneCountPerShift
<1>6. ClosesAreDue'
    BY <1>0, <1>1 DEF ClosesAreDue, TypeOK
<1> QED BY <1>2, <1>3, <1>4, <1>5, <1>6 DEF BooksInv

(* A true answer retires its instruction as what it was.                     *)
LEMMA TakeBooks ==
    ASSUME InstrInv, NEW answer \in Ids \X Verdicts, TakeAnswer(answer)
    PROVE  BooksInv'
PROOF
<1>0. Forward /\ Truths \subseteq Truths' /\ UNCHANGED <<report, books, day, shift, closed>>
    BY OthersGoForward, TruthsStay
<1> USE DEF InstrInv
<1>1. ASSUME NEW i \in Ids
      PROVE  /\ ins'[i].kind = ins[i].kind /\ ins'[i].delivered = ins[i].delivered
             /\ ins'[i].shift = ins[i].shift /\ ins'[i].date = ins[i].date
             /\ \/ ins'[i].st = ins[i].st
                \/ i = answer[1] /\ ins'[i].st = IF answer[2] = "ok" THEN "acked" ELSE "failed"
    BY RetiredIs
<1>2. answer \in Truths /\ answer = <<answer[1], answer[2]>>
    <2>1. answer \in Truths
        BY DEF TakeAnswer, AnswersAreTrue
    <2>2. answer = <<answer[1], answer[2]>>
        OBVIOUS
    <2> QED BY <2>1, <2>2
<1>3. answer[2] \notin {"ok", "no"} => ins[answer[1]].kind \notin Cash
    BY <1>2 DEF Truths, Told, Cash
<1>4. BooksAreRight'
    BY <1>0, <1>1 DEF BooksAreRight
<1>5. StatesAreRight'
    <2> SUFFICES ASSUME NEW i \in Ids
                 PROVE  /\ ins'[i].kind \in Cash => /\ ins'[i].st # "expired"
                                                    /\ ins'[i].st = "gone" => ~ins'[i].delivered
                        /\ ins'[i].st = "failed" => <<i, "no">> \in Truths' \/ ins'[i].kind \notin Cash
                        /\ ins'[i].st = "acked" => <<i, "ok">> \in Truths' \/ ins'[i].kind \notin Cash
        BY DEF StatesAreRight
    <2>1. CASE ins'[i].st = ins[i].st
        BY <1>0, <1>1, <2>1 DEF StatesAreRight
    <2>2. CASE i = answer[1] /\ ins'[i].st = IF answer[2] = "ok" THEN "acked" ELSE "failed"
        <3>1. ins'[i].kind = ins[i].kind
            BY <1>1
        <3>2. ins[i].kind \in Cash => answer[2] \in {"ok", "no"}
            BY <1>3, <2>2
        <3>3. <<i, answer[2]>> \in Truths'
            BY <1>0, <1>2, <2>2
        <3> QED BY <2>2, <3>1, <3>2, <3>3
    <2> QED BY <1>1, <2>1, <2>2
<1>6. ShiftsAreKnown'
    BY <1>0, <1>1 DEF ShiftsAreKnown
<1>7. OneCountPerShift'
    BY <1>0, <1>1 DEF OneCountPerShift
<1>8. ClosesAreDue'
    BY <1>0, <1>1 DEF ClosesAreDue, TypeOK
<1> QED BY <1>4, <1>5, <1>6, <1>7, <1>8 DEF BooksInv

-----------------------------------------------------------------------------
(* THE INVARIANT HOLDS                                                       *)

LEMMA InitInv == Init => InstrInv
PROOF
<1> SUFFICES ASSUME Init PROVE InstrInv
    OBVIOUS
<1>1. \A i \in Ids : ins[i].kind = "none" /\ ins[i].st = "none" /\ ~ins[i].delivered
    BY DEF Init, NoIns
<1>2. \A k \in Ticks : tick[k].at = "idle"
    BY DEF Init, Idle
<1> QED BY <1>1, <1>2, InitTypes
        DEF Init, InstrInv, AnswersAreTrue, JobsAreGiven, BooksAreRight, StatesAreRight,
            ShiftsAreKnown, OneCountPerShift, ClosesAreDue, Cash, Over

LEMMA NextInv == InstrInv /\ [Next]_vars => InstrInv'
PROOF
<1> SUFFICES ASSUME InstrInv, [Next]_vars PROVE InstrInv'
    OBVIOUS
<1>0. SUFFICES TypeOK' /\ AnswersAreTrue' /\ JobsAreGiven' /\ BooksInv'
    BY DEF InstrInv, BooksInv
<1>1. ASSUME \/ \E s \in Shifts : OpenShift(s) \/ CloseShift(s) \/ ConfirmHere(s)
             \/ CloseHere \/ NextDate
      PROVE  TypeOK' /\ AnswersAreTrue' /\ JobsAreGiven' /\ BooksInv'
    <2>1. day'.open => day'.date # 0
        BY <1>1 DEF OpenShift, CloseShift, ConfirmHere, CloseHere, NextDate, InstrInv, ClosesAreDue, TypeOK
    <2>2. Forward /\ UNCHANGED <<ins, report, quiet, books, pend, tick, acks, closed>>
        BY <1>1, TillGoesForward
    <2> QED BY <1>1, <2>1, <2>2, TillTypes, HandsStay, BooksStay DEF InstrInv
<1>2. ASSUME NEW i \in Ids,
             \/ \E wait \in BOOLEAN : GiveClose(i, wait)
             \/ \E s \in Shifts : GiveConfirm(i, s) \/ GiveMoney(i, s)
             \/ Cancel(i) \/ Upgrade(i) \/ Expire(i)
      PROVE  TypeOK' /\ AnswersAreTrue' /\ JobsAreGiven' /\ BooksInv'
    <2>1. Forward /\ UNCHANGED <<pend, tick, acks>>
        BY <1>2, ServerGoesForward DEF ServerOnly
    <2>2. TypeOK'
        BY <1>2, ServerTypes DEF InstrInv
    <2> QED BY <1>2, <2>1, <2>2, HandsStay, ServerBooks
<1>3. ASSUME NEW k \in Ticks, TickStep(k) \/ GiveUp(k)
      PROVE  TypeOK' /\ AnswersAreTrue' /\ JobsAreGiven' /\ BooksInv'
    <2>1. TypeOK' /\ AnswersAreTrue' /\ JobsAreGiven' /\ Forward
        BY <1>3, TickTypes, TickAnswers, TickGoesForward DEF TickStep
    <2>2. CASE StartTick(k) \/ Flush(k) \/ GiveUp(k)
        <3>1. UNCHANGED <<ins, report, books, closed, day>>
            BY <2>2 DEF StartTick, Flush, GiveUp, Rest, till
        <3> QED BY <2>1, <3>1, BooksStay DEF InstrInv, ClosesAreDue
    <2>3. CASE Poll(k)
        BY <2>1, <2>3, PollBooks
    <2>4. CASE Execute(k)
        <3>1. PICK job \in tick[k].todo :
                  LET i == job[1]  left == tick[k].todo \ {job}  answer == <<i, Verdict(i, job[2])>> IN
                  IF pend[i] # "none" THEN Go(k, "run", <<>>, left) /\ UNCHANGED <<books, day, shift, acks, closed>>
                  ELSE CarryOut(i) /\ acks' = acks \cup {answer} /\ Go(k, "answering", answer, left)
            BY <2>4 DEF Execute
        <3>2. job[1] \in Collected /\ UNCHANGED <<ins, report>>
            BY <2>4 DEF Execute, InstrInv, JobsAreGiven, At
        <3>3. CASE pend[job[1]] # "none"
            BY <2>1, <3>1, <3>2, <3>3, BooksStay DEF InstrInv, ClosesAreDue
        <3>4. CASE pend[job[1]] = "none"
            BY <2>1, <3>1, <3>2, <3>4, CarryOutBooks
        <3> QED BY <3>3, <3>4
    <2> QED BY <1>3, <2>2, <2>3, <2>4 DEF TickStep
<1>4. ASSUME NEW answer \in Ids \X Verdicts, TakeAnswer(answer)
      PROVE  TypeOK' /\ AnswersAreTrue' /\ JobsAreGiven' /\ BooksInv'
    BY <1>4, OtherTypes, OtherAnswers, TakeBooks DEF InstrInv
<1>5. ASSUME GoQuiet \/ Return \/ Restart \/ UNCHANGED vars
      PROVE  TypeOK' /\ AnswersAreTrue' /\ JobsAreGiven' /\ BooksInv'
    <2>1. Forward /\ UNCHANGED <<report, books, shift, day, closed, ins>>
        BY <1>5, OthersGoForward DEF GoQuiet, Return, Restart, vars
    <2>2. day'.open => day'.date # 0
        BY <2>1 DEF InstrInv, ClosesAreDue
    <2>3. TypeOK' /\ AnswersAreTrue' /\ JobsAreGiven'
        BY <1>5, OtherTypes, OtherAnswers DEF InstrInv
    <2> QED BY <2>1, <2>2, <2>3, BooksStay
<1> QED BY <1>1, <1>2, <1>3, <1>4, <1>5 DEF Next

THEOREM InstructionsInvariant == Spec => []InstrInv
PROOF BY InitInv, NextInv, PTL DEF Spec

(* Every variable keeps its type.                                            *)
THEOREM TypesAreRight == Spec => []TypeOK
PROOF
<1>1. InstrInv => TypeOK
    BY DEF InstrInv
<1> QED BY <1>1, InstructionsInvariant, PTL

(* What the server's screen says of money and of counts is true of the       *)
(* till's books, for good: branchClose.ts, recordAck and the withdrawals.    *)
THEOREM ScreenIsTrue == Spec => []ToldTruly
PROOF
<1>1. InstrInv => ToldTruly
    BY DEF InstrInv, ToldTruly, StatesAreRight, BooksAreRight, Truths, Told, Cash
<1> QED BY <1>1, InstructionsInvariant, PTL

(* However often an instruction is collected and by however many ticks at    *)
(* once, money is recorded once and a shift has one count.                   *)
THEOREM NothingRecordedTwice == Spec => []RecordedOnce
PROOF
<1>1. InstrInv => RecordedOnce
    <2> SUFFICES ASSUME InstrInv PROVE RecordedOnce
        OBVIOUS
    <2>1. \A i \in Ids : books[i] \in 0..2 /\ books[i] <= 1
        BY DEF InstrInv, TypeOK, BooksAreRight
    <2> QED BY <2>1 DEF InstrInv, OneCountPerShift, RecordedOnce
<1> QED BY <1>1, InstructionsInvariant, PTL

(* F11: a close closes no day that began after the date it was given for.    *)
THEOREM LaterDaysAreSafe == Spec => []NeverALaterDay
PROOF
<1>1. InstrInv => NeverALaterDay
    BY DEF InstrInv, ClosesAreDue, NeverALaterDay
<1> QED BY <1>1, InstructionsInvariant, PTL
=============================================================================
