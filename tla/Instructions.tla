---------------------------- MODULE Instructions ----------------------------
(* What the branch server tells a till to do (main/branchClose.ts): close    *)
(* its trading day, confirm a shift a manager counted, record money on its   *)
(* drawer.  The till asks for its instructions every 15 seconds, telling how *)
(* it stands, carries them out and answers (index.ts, peerInstructionTick);  *)
(* only an answer retires one.  A tick that waits for the server does not    *)
(* keep the next one from starting.  One server, one till, one clock.        *)
EXTENDS Naturals, FiniteSets

CONSTANTS MaxIns,     \* instructions given (bound)
          MaxShifts,  \* shifts of the till (bound)
          MaxDate,    \* business dates (bound)
          Ticks,      \* ticks of the till that may run at once (bound)
          Faulty,     \* what may happen: "poll", "ack", "restart", "quiet"
          MaxFaults   \* how often (bound)

ASSUME BoundsAssumption ==
    /\ MaxIns \in Nat /\ MaxShifts \in Nat /\ MaxDate \in Nat \ {0} /\ MaxFaults \in Nat
    /\ Faulty \subseteq {"poll", "ack", "restart", "quiet"}

Ids == 1..MaxIns
Shifts == 1..MaxShifts
Verdicts == {"ok", "no", "wait"}

VARIABLES
  ins,     \* [Ids -> instruction]: node_instructions, in the order given
  report,  \* [open, shifts]: the till's last report (node_peer_state)
  quiet,   \* the server has not heard from the till for two minutes
  day,     \* [open, date]: the till's trading day
  shift,   \* [Shifts -> "none", "open", "awaiting" or "confirmed"]
  today,   \* the business date
  books,   \* [Ids -> how often]: money rows written, and whose count a shift has
  pend,    \* [Ids -> verdict]: answers the server may not have (in memory)
  tick,    \* [Ticks -> [at, on, todo]]: what a tick waits for and has still to do
  acks,    \* <<id, verdict>>: answers on their way
  faults,
  closed   \* <<id, date>>: days the till closed on instruction

till == <<day, shift, today>>
vars == <<ins, report, quiet, till, books, pend, tick, acks, faults, closed>>

Instruction == [kind: {"none", "close", "confirm", "money"},
                st: {"none", "pending", "acked", "failed", "expired", "gone"},
                delivered: BOOLEAN, wait: BOOLEAN, date: 0..MaxDate, shift: 0..MaxShifts]
\* What a tick has in hand: an instruction and whether it waits, as it was given;
\* or an answer kept from before.
Job == Ids \X (Verdicts \cup {"now", "later"})
ShiftState == {"none", "open", "awaiting", "confirmed"}
Stages == {"idle", "flush", "flushing", "poll", "run", "answering"}
TickState == [at: Stages, on: (Ids \X Verdicts) \cup {<<>>}, todo: SUBSET Job]
TypeOK ==
    /\ ins \in [Ids -> Instruction] /\ quiet \in BOOLEAN
    /\ report \in [open: 0..MaxDate, shifts: [Shifts -> ShiftState]]
    /\ day \in [open: BOOLEAN, date: 0..MaxDate] /\ shift \in [Shifts -> ShiftState]
    /\ today \in 1..MaxDate /\ books \in [Ids -> 0..2] /\ pend \in [Ids -> Verdicts \cup {"none"}]
    /\ tick \in [Ticks -> TickState]
    /\ acks \subseteq Ids \X Verdicts /\ faults \in 0..MaxFaults
    /\ closed \subseteq Ids \X (1..MaxDate)

NoIns == [kind |-> "none", st |-> "none", delivered |-> FALSE, wait |-> FALSE, date |-> 0, shift |-> 0]
Idle == [at |-> "idle", on |-> <<>>, todo |-> {}]
Init ==
    /\ ins = [i \in Ids |-> NoIns] /\ quiet = FALSE
    /\ report = [open |-> 0, shifts |-> [s \in Shifts |-> "none"]]
    /\ day = [open |-> FALSE, date |-> 0] /\ shift = [s \in Shifts |-> "none"] /\ today = 1
    /\ books = [i \in Ids |-> 0] /\ pend = [i \in Ids |-> "none"] /\ tick = [k \in Ticks |-> Idle]
    /\ acks = {} /\ faults = 0 /\ closed = {}

Fault(kind) == kind \in Faulty /\ faults < MaxFaults /\ faults' = faults + 1
Pending(i) == ins[i].st = "pending"
MoneyWaits(state) == \E s \in Shifts : state[s] \in {"open", "awaiting"}

-----------------------------------------------------------------------------
(* THE TILL'S DAY                                                            *)

TillOnly == UNCHANGED <<ins, report, quiet, books, pend, tick, acks>>
(* A cashier opens a drawer: a day of an earlier date must be closed first;  *)
(* today's is opened, or reopened (ensureDayOpen, reopenDay).                *)
OpenShift(s) ==
    /\ shift[s] = "none" /\ \A r \in Shifts : (r < s => shift[r] # "none") /\ shift[r] # "open"
    /\ day.open => day.date = today
    /\ day' = [open |-> TRUE, date |-> today] /\ shift' = [shift EXCEPT ![s] = "open"]
    /\ TillOnly /\ UNCHANGED <<today, faults, closed>>
(* The cashier closes it, and a manager at the till confirms it.             *)
CloseShift(s) ==
    /\ shift[s] = "open" /\ shift' = [shift EXCEPT ![s] = "awaiting"]
    /\ TillOnly /\ UNCHANGED <<day, today, faults, closed>>
ConfirmHere(s) ==
    /\ shift[s] = "awaiting" /\ shift' = [shift EXCEPT ![s] = "confirmed"]
    /\ TillOnly /\ UNCHANGED <<day, today, faults, closed>>
(* A manager closes the day there (closeDayCore).                            *)
CloseHere ==
    /\ day.open /\ ~MoneyWaits(shift) /\ day' = [day EXCEPT !.open = FALSE]
    /\ TillOnly /\ UNCHANGED <<shift, today, faults, closed>>
NextDate ==
    /\ today < MaxDate /\ today' = today + 1
    /\ TillOnly /\ UNCHANGED <<day, shift, faults, closed>>

-----------------------------------------------------------------------------
(* THE BRANCH SERVER'S MANAGER                                               *)

ServerOnly == UNCHANGED <<till, report, quiet, books, pend, tick, acks, faults, closed>>
Put(i, given) == [ins EXCEPT ![i] = given]
Next1(i) == ins[i] = NoIns /\ \A j \in Ids : j < i => ins[j] # NoIns
New(kind) == [NoIns EXCEPT !.kind = kind, !.st = "pending"]
Withdrawn(gone) == [i \in Ids |-> IF Pending(i) /\ i \in gone THEN [ins[i] EXCEPT !.st = "gone"] ELSE ins[i]]
(* Close this till's day (closeTill, closeBranch): any close it has not      *)
(* answered is replaced.  The close waits for a till that is not connected,  *)
(* and for one the branch is closed without because money waits there.       *)
GiveClose(i, wait) ==
    /\ Next1(i) /\ report.open # 0
    /\ wait = (quiet \/ (wait /\ MoneyWaits(report.shifts)))
    /\ LET closes == {j \in Ids : ins[j].kind = "close"} IN
       ins' = [Withdrawn(closes) EXCEPT ![i] = [New("close") EXCEPT !.date = today, !.wait = wait]]
    /\ ServerOnly
Replaced(i, s) == ins[i].kind = "confirm" /\ ins[i].shift = s /\ ~ins[i].delivered
(* Confirm a shift: replaces one not collected, waits for one that is.       *)
GiveConfirm(i, s) ==
    /\ Next1(i) /\ report.shifts[s] = "awaiting"
    /\ LET gone == {j \in Ids : Replaced(j, s)} IN
       /\ \A j \in Ids : Pending(j) /\ ins[j].kind = "confirm" /\ ins[j].shift = s => j \in gone
       /\ ins' = [Withdrawn(gone) EXCEPT ![i] = [New("confirm") EXCEPT !.shift = s]]
    /\ ServerOnly
(* Record money on a shift the till last said is open.                       *)
GiveMoney(i, s) ==
    /\ Next1(i) /\ report.shifts[s] = "open"
    /\ ins' = Put(i, [New("money") EXCEPT !.shift = s]) /\ ServerOnly
\* Mutant: until it is answered.
MayCancelPending(i) == ins[i].kind = "money" /\ Pending(i)
MayCancel(i) == ins[i].kind = "money" /\ Pending(i) /\ ~ins[i].delivered
(* Withdraw it, as long as the till has not collected it.                    *)
Cancel(i) == MayCancel(i) /\ ins' = [ins EXCEPT ![i].st = "gone"] /\ ServerOnly
(* The sweep: a close to a till gone quiet waits for it; one that does not   *)
(* wait is withdrawn after a day (sweepInstructions).                        *)
Upgrade(i) ==
    /\ quiet /\ ins[i].kind = "close" /\ Pending(i) /\ ~ins[i].wait
    /\ ins' = [ins EXCEPT ![i].wait = TRUE] /\ ServerOnly
Expire(i) ==
    /\ ~quiet /\ ins[i].kind = "close" /\ Pending(i) /\ ~ins[i].wait /\ ins[i].date < today
    /\ ins' = [ins EXCEPT ![i].st = "expired"] /\ ServerOnly

-----------------------------------------------------------------------------
(* THE TILL'S TICK                                                           *)

Rest == UNCHANGED <<till, closed>>
At(k, at) == tick[k].at = at
\* With nothing left to do, kept answers are followed by the poll, and the tick ends.
Then(at, todo) ==
    CASE at = "flush" /\ todo = {} -> IF quiet THEN "idle" ELSE "poll"
      [] at = "run" /\ todo = {} -> "idle"
      [] OTHER -> at
Go(k, at, on, todo) == tick' = [tick EXCEPT ![k] = [at |-> Then(at, todo), on |-> on, todo |-> todo]]
\* Mutant: answers that got no reply are forgotten.
KeptNever == {}
Kept == {i \in Ids : pend[i] # "none"}
Starts(k) == At(k, "idle") /\ ~quiet /\ \A j \in Ticks : j < k => ~At(j, "idle")
(* Every 15 seconds a tick starts: first the answers kept from before, if    *)
(* any, then the poll.                                                       *)
StartTick(k) ==
    /\ Starts(k) /\ Kept # {} /\ Go(k, "flush", <<>>, {<<i, pend[i]>> : i \in Kept})
    /\ Rest /\ UNCHANGED <<ins, report, quiet, books, pend, acks, faults>>
Flush(k) ==
    /\ At(k, "flush")
    /\ \E job \in tick[k].todo :
         Go(k, "flushing", job, tick[k].todo \ {job}) /\ acks' = acks \cup {job}
    /\ Rest /\ UNCHANGED <<ins, report, quiet, books, pend, faults>>
Report == [open |-> IF day.open THEN day.date ELSE 0, shifts |-> shift]
Given(i) == IF ins[i].wait THEN "later" ELSE "now"
(* The till reports and is given what waits for it (collectInstructions), or *)
(* nothing comes back.                                                       *)
Poll(k) ==
    /\ (At(k, "poll") /\ ~quiet) \/ (Starts(k) /\ Kept = {})
    /\ report' = Report
    /\ ins' = [i \in Ids |-> IF Pending(i) THEN [ins[i] EXCEPT !.delivered = TRUE] ELSE ins[i]]
    /\ \/ Go(k, "run", <<>>, {<<i, Given(i)>> : i \in {j \in Ids : Pending(j)}}) /\ UNCHANGED faults
       \/ Fault("poll") /\ Go(k, "idle", <<>>, {})
    /\ Rest /\ UNCHANGED <<quiet, books, pend, acks>>

\* Mutant: whatever day is open is closed (before F11).
StaleNever(i) == FALSE
Stale(i) == day.date > ins[i].date
\* Mutant: a row written already is written again.
WritesAgain(i) ==
    \/ ins[i].kind = "money" /\ shift[ins[i].shift] = "open"
    \/ ins[i].kind = "confirm" /\ shift[ins[i].shift] = "awaiting"
Writes(i) ==
    \/ ins[i].kind = "money" /\ books[i] = 0 /\ shift[ins[i].shift] = "open"
    \/ ins[i].kind = "confirm" /\ shift[ins[i].shift] = "awaiting"
ClosesDay(i) == ins[i].kind = "close" /\ day.open /\ ~Stale(i) /\ ~MoneyWaits(shift)
(* What the till answers: done or done before, refused, or not yet.          *)
Verdict(i, given) ==
    CASE ins[i].kind = "money"   -> IF books[i] > 0 \/ Writes(i) THEN "ok" ELSE "no"
      [] ins[i].kind = "confirm" -> IF shift[ins[i].shift] = "open" THEN "no" ELSE "ok"
      [] OTHER -> IF ~day.open \/ Stale(i) \/ ClosesDay(i) THEN "ok" ELSE IF given = "later" THEN "wait" ELSE "no"
CarryOut(i) ==
    /\ books' = IF Writes(i) THEN [books EXCEPT ![i] = IF @ = 2 THEN 2 ELSE @ + 1] ELSE books
    /\ shift' = IF Writes(i) /\ ins[i].kind = "confirm"
                THEN [shift EXCEPT ![ins[i].shift] = "confirmed"] ELSE shift
    /\ day' = IF ClosesDay(i) THEN [day EXCEPT !.open = FALSE] ELSE day
    /\ closed' = IF ClosesDay(i) THEN closed \cup {<<i, day.date>>} ELSE closed
First(job, jobs) == \A other \in jobs : job[1] <= other[1]
(* The next instruction in hand is carried out and answered, unless its      *)
(* answer is kept (executeCloseDay, executeConfirmShift, executeShiftMoney). *)
Execute(k) ==
    /\ At(k, "run")
    /\ \E job \in tick[k].todo :
         /\ First(job, tick[k].todo)
         /\ LET i == job[1]  left == tick[k].todo \ {job}  answer == <<i, Verdict(i, job[2])>> IN
            IF pend[i] # "none" THEN Go(k, "run", <<>>, left) /\ UNCHANGED <<books, day, shift, acks, closed>>
            ELSE CarryOut(i) /\ acks' = acks \cup {answer} /\ Go(k, "answering", answer, left)
    /\ UNCHANGED <<today, ins, report, quiet, pend, faults>>

Hears(k) == Then(IF At(k, "answering") THEN "run" ELSE "flush", tick[k].todo)
Waits(k, answer) == tick[k].at \in {"answering", "flushing"} /\ tick[k].on = answer
(* What an answer makes of an instruction: it is retired if it still waits;  *)
(* "not yet" leaves a close that waits for its till where it is (recordAck). *)
Retired(i, verdict) ==
    IF ~Pending(i) \/ (verdict = "wait" /\ ins[i].wait) THEN ins[i]
    ELSE [ins[i] EXCEPT !.st = IF verdict = "ok" THEN "acked" ELSE "failed"]
(* The server takes an answer, and the tick that waits for that goes on.     *)
TakeAnswer(answer) ==
    /\ answer \in acks /\ ~quiet /\ acks' = acks \ {answer}
    /\ ins' = [ins EXCEPT ![answer[1]] = Retired(answer[1], answer[2])]
    /\ tick' = [k \in Ticks |-> IF Waits(k, answer) THEN [tick[k] EXCEPT !.at = Hears(k), !.on = <<>>] ELSE tick[k]]
    /\ pend' = [pend EXCEPT ![answer[1]] = IF \E k \in Ticks : At(k, "flushing") /\ tick[k].on = answer THEN "none" ELSE @]
    /\ Rest /\ UNCHANGED <<report, quiet, books, faults>>
(* The till hears nothing in five seconds and keeps the answer; it may still *)
(* arrive.                                                                   *)
GiveUp(k) ==
    /\ tick[k].at \in {"answering", "flushing"}
    /\ IF quiet THEN UNCHANGED faults ELSE Fault("ack")
    /\ acks' \in {acks, acks \ {tick[k].on}}
    /\ pend' = IF At(k, "answering") THEN [pend EXCEPT ![tick[k].on[1]] = tick[k].on[2]] ELSE pend
    /\ tick' = [tick EXCEPT ![k].at = Hears(k), ![k].on = <<>>]
    /\ Rest /\ UNCHANGED <<ins, report, quiet, books>>

(* The till is off or out of reach, and back; it restarts and forgets the    *)
(* answers it kept.                                                          *)
GoQuiet ==
    /\ ~quiet /\ Fault("quiet") /\ quiet' = TRUE
    /\ tick' = [k \in Ticks |-> IF At(k, "poll") THEN Idle ELSE tick[k]]
    /\ Rest /\ UNCHANGED <<ins, report, books, pend, acks>>
Return ==
    /\ quiet /\ quiet' = FALSE
    /\ Rest /\ UNCHANGED <<ins, report, books, pend, tick, acks, faults>>
Restart ==
    /\ Fault("restart") /\ tick' = [k \in Ticks |-> Idle] /\ pend' = [i \in Ids |-> "none"]
    /\ acks' \in {acks, {}}
    /\ Rest /\ UNCHANGED <<ins, report, quiet, books>>

TickStep(k) == StartTick(k) \/ Flush(k) \/ Poll(k) \/ Execute(k)
Next ==
    \/ \E s \in Shifts : OpenShift(s) \/ CloseShift(s) \/ ConfirmHere(s)
    \/ CloseHere \/ NextDate
    \/ \E i \in Ids : \/ \E wait \in BOOLEAN : GiveClose(i, wait)
                      \/ \E s \in Shifts : GiveConfirm(i, s) \/ GiveMoney(i, s)
                      \/ Cancel(i) \/ Upgrade(i) \/ Expire(i)
    \/ \E k \in Ticks : TickStep(k) \/ GiveUp(k)
    \/ \E answer \in Ids \X Verdicts : TakeAnswer(answer)
    \/ GoQuiet \/ Return \/ Restart
Spec == Init /\ [][Next]_vars
(* The timer keeps running, requests that are not lost arrive.               *)
FairSpec ==
    /\ Spec /\ \A k \in Ticks : WF_vars(TickStep(k))
    /\ \A answer \in Ids \X Verdicts : WF_vars(TakeAnswer(answer))

-----------------------------------------------------------------------------
(* What the server's screen says of money and of a count is true for good:   *)
(* what was withdrawn, replaced or refused is never on the till's books, and *)
(* what was answered is, whatever was collected twice, lost or late.         *)
ToldTruly ==
    \A i \in Ids : ins[i].kind \in {"money", "confirm"} =>
        /\ ins[i].st \in {"failed", "gone", "expired"} => books[i] = 0
        /\ ins[i].st = "acked" => IF ins[i].kind = "money" THEN books[i] = 1
                                  ELSE shift[ins[i].shift] = "confirmed"
(* Money is recorded once and a shift has one count, though instructions are *)
(* offered until they are answered and two ticks may hold the same one.      *)
RecordedOnce ==
    /\ \A i \in Ids : books[i] <= 1
    /\ \A i, j \in Ids : i # j /\ ins[i].kind = "confirm" /\ ins[j].kind = "confirm"
         /\ ins[i].shift = ins[j].shift => books[i] + books[j] <= 1
(* F11: a close that comes round late, or again, closes no day that began    *)
(* after the date it was given for.                                          *)
NeverALaterDay == \A c \in closed : c[2] <= ins[c[1]].date
(* While the till is in reach and no money waits on it, every instruction    *)
(* gets its answer: nothing keeps the branch from closing.                   *)
Answered ==
    <>[](~quiet /\ ~MoneyWaits(shift)) => <>[](\A i \in Ids : ~Pending(i))
(* branchClose.ts: a close that waits for its till "stays pending", it is    *)
(* never refused for money that waits.                                       *)
WaitingIsNotRefused ==
    [][\A i \in Ids : ins[i].kind = "close" /\ ins[i].wait /\ Pending(i) => ins'[i].st # "failed"]_vars
(* index.ts: "Re-asking is safe": a close the screen says was refused closed *)
(* no day.                                                                   *)
RefusedClosedNothing == \A c \in closed : ins[c[1]].st # "failed"
=============================================================================
