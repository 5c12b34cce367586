--------------------------- MODULE SessionRenewal ---------------------------
(***************************************************************************)
(* How a till of SwiftPOS renews its own session with the cloud: the       *)
(* handshake of apps/server/src/lib/refreshHandshake.ts, applied write by  *)
(* write by POST /api/auth/refresh and /refresh/ack (routes/auth.ts), and  *)
(* the till's side in apps/desktop/src/main (syncEngine.ts, tokenStore.ts).*)
(*                                                                         *)
(* A renewal mints a successor of the token presented.  The till writes it *)
(* to disk and only then confirms it, which retires the token it replaced; *)
(* asking again with the old token before that means the answer was lost.  *)
(* A refused till signs itself in with its device secret.                  *)
(***************************************************************************)
EXTENDS Integers

CONSTANTS
    Request,    \* renewals the cloud may have in hand at once
    NoRequest,  \* the till waits for none
    MaxTokens,  \* bound: refresh tokens ever minted
    MaxFaults   \* bound: lost messages, deaths, failed reads and writes

ASSUME RenewalAssumption ==
    /\ NoRequest \notin Request
    /\ MaxTokens \in Nat \ {0} /\ MaxFaults \in Nat

Token == 1 .. MaxTokens
NoToken == 0
NoSecret == 0

VARIABLES
    rows,     \* refresh_tokens
    minted,   \* tokens minted so far
    hash,     \* user_devices.device_secret_hash (a secret stands for its hash)
    issued,   \* device secrets generated so far
    req,      \* the renewals in hand at the cloud
    acks,     \* POST /refresh/ack on the way
    acking,   \* of those, the ones whose row has been read
    retiring, \* of those, the ones confirmed
    disk,     \* session.refresh_token on the till
    secret,   \* maintenance_state 'device_secret' on the till
    pc,       \* doRefreshAccessToken
    slot,     \* the renewal it waits for
    got,      \* the answer it holds
    code,     \* why it was refused
    kept,     \* history: tokens ever written to disk
    late,     \* history: renewals in hand when the till got a newer token
    crossed,  \* history: has the cloud worked on two renewals at once, or let
              \* a late one through?
    spoilt,   \* history: has a write of the cloud failed or been cut off?
    faults    \* budget left for faults

cloudVars == <<rows, minted, hash, issued>>
tillVars == <<disk, secret, pc, slot, got, code, kept>>
ackVars == <<acks, acking, retiring>>
turnVars == <<late, crossed>>
vars == <<cloudVars, req, ackVars, tillVars, turnVars, spoilt, faults>>

\* replaced_by is next; session is the token that started the session.
Row == [stored : BOOLEAN, revoked : BOOLEAN, acked : BOOLEAN, next : Nat,
        session : Nat]
NoRow == [stored |-> FALSE, revoked |-> FALSE, acked |-> FALSE,
          next |-> NoToken, session |-> NoToken]
NewRow(s) == [NoRow EXCEPT !.stored = TRUE, !.session = s]

\* lost is the header X-Device-Secret-Missing; orphan and seen are what the
\* handler read (replaced_by, device_secret_hash).
Renewal == [pc : {"free", "sent", "confirm", "retire", "orphan", "store",
                  "link", "secret", "answer"},
            tok : Nat, lost : BOOLEAN, reask : BOOLEAN, orphan : Nat,
            seen : Nat, new : Nat, raw : Nat]
Free == [pc |-> "free", tok |-> NoToken, lost |-> FALSE, reask |-> FALSE,
         orphan |-> NoToken, seen |-> NoSecret, new |-> NoToken,
         raw |-> NoSecret]

Nothing == [new |-> NoToken, raw |-> NoSecret]
Busy == {i \in Request : req[i].pc # "free"}
AtWork == {i \in Request : req[i].pc \notin {"free", "sent"}}

\* An enrolled till; one enrolled before A407 has no device secret.
Init ==
    /\ rows = [t \in Token |-> IF t = 1 THEN NewRow(1) ELSE NoRow]
    /\ minted = 1
    /\ hash \in {NoSecret, 1} /\ secret = hash /\ issued = hash
    /\ req = [i \in Request |-> Free]
    /\ acks = {} /\ acking = {} /\ retiring = {}
    /\ disk = 1 /\ kept = {1}
    /\ pc = "idle" /\ slot = NoRequest /\ got = Nothing /\ code = "none"
    /\ late = {} /\ crossed = FALSE
    /\ spoilt = FALSE /\ faults = MaxFaults

----------------------------------------------------------------------------
(* refreshHandshakeDecision, for a till's own session.                     *)

HasSuccessor(t) == rows[t].next # NoToken

SuccessorIsHead(t) ==
    LET s == rows[rows[t].next] IN ~s.revoked /\ s.next = NoToken

\* Mutant: a token that was replaced is outdated, lost answer or not.
RotatesOnlyHeads(t) == FALSE

\* The successor never reached the till: it is minted again.
Reasked(t) ==
    /\ HasSuccessor(t)
    /\ LET s == rows[rows[t].next] IN
          IF rows[t].revoked THEN SuccessorIsHead(t) /\ ~s.acked
          ELSE s.revoked \/ ~s.acked

Rotated(t) == ~rows[t].revoked /\ ~HasSuccessor(t)

Accepted(t) == rows[t].stored /\ (Rotated(t) \/ Reasked(t))

\* The first use of a token that was never confirmed confirms it.
ConfirmsByUse(t) == ~rows[t].revoked /\ ~rows[t].acked

----------------------------------------------------------------------------
(* POST /api/auth/refresh, one database call at a time.                    *)

\* A write happens, or fails with an error the handler only logs.
Fails ==
    /\ faults > 0 /\ faults' = faults - 1
    /\ spoilt' = TRUE
Works == UNCHANGED <<faults, spoilt>>

Step(i, p) == req' = [req EXCEPT ![i].pc = p]

AfterConfirm(i) == IF req[i].reask THEN "orphan" ELSE "store"

\* Mutant: every renewal hands out a new secret.
AlwaysNeedsSecret(i) == TRUE

\* A new secret for a till that has none on record or has lost its own.
NeedsSecret(i) == req[i].seen = NoSecret \/ req[i].lost

AfterStore(i) == IF NeedsSecret(i) THEN "secret" ELSE "answer"

\* 401: nothing written; the till, if it still waits, is told.
Refuse(i, why) ==
    /\ req' = [req EXCEPT ![i] = Free]
    /\ IF slot = i
       THEN pc' = "refused" /\ slot' = NoRequest /\ code' = why
       ELSE UNCHANGED <<pc, slot, code>>
    /\ UNCHANGED <<cloudVars, ackVars, disk, secret, got, kept, turnVars>>

\* TOKEN_UNKNOWN, TOKEN_STALE; or "other": expired, a blocked or retired till.
ReadRefused(i) ==
    LET t == req[i].tok IN
    /\ req[i].pc = "sent"
    /\ \/ ~rows[t].stored /\ Refuse(i, "unknown") /\ UNCHANGED faults
       \/ rows[t].stored /\ ~Accepted(t) /\ Refuse(i, "stale")
          /\ UNCHANGED faults
       \/ faults > 0 /\ faults' = faults - 1 /\ Refuse(i, "other")
    /\ UNCHANGED spoilt

\* The cloud is at work on another of the till's renewals, or the till has got
\* a newer token since it sent this one.
Crosses(i) == AtWork # {} \/ i \in late

\* Mutant: the handler never confirms a token by its use.
ReadNeverConfirms(i) ==
    LET t == req[i].tok IN
    /\ req[i].pc = "sent" /\ Accepted(t)
    /\ req' = [req EXCEPT ![i].reask = Reasked(t), ![i].orphan = rows[t].next,
                          ![i].seen = hash,
                          ![i].pc = IF Reasked(t) THEN "orphan" ELSE "store"]
    /\ crossed' = (crossed \/ Crosses(i))
    /\ UNCHANGED <<cloudVars, ackVars, tillVars, late, spoilt, faults>>

\* validateRefreshToken and the read of user_devices; a secret reported lost
\* counts only from a till whose identity matched.
ReadToken(i) == \E matched \in BOOLEAN :
    LET t == req[i].tok IN
    /\ req[i].pc = "sent" /\ Accepted(t)
    /\ req' = [req EXCEPT ![i].reask = Reasked(t), ![i].orphan = rows[t].next,
                          ![i].seen = hash, ![i].lost = @ /\ matched,
                          ![i].pc = CASE ConfirmsByUse(t) -> "confirm"
                                      [] Reasked(t) /\ ~ConfirmsByUse(t) -> "orphan"
                                      [] OTHER -> "store"]
    /\ crossed' = (crossed \/ Crosses(i))
    /\ UNCHANGED <<cloudVars, ackVars, tillVars, late, spoilt, faults>>

Confirm(t) == rows' = [rows EXCEPT ![t].acked = TRUE]

ConfirmOnUse(i) ==
    /\ req[i].pc = "confirm"
    /\ \/ Confirm(req[i].tok) /\ Works
       \/ UNCHANGED rows /\ Fails
    /\ Step(i, "retire")
    /\ UNCHANGED <<minted, hash, issued, ackVars, tillVars, turnVars>>

\* revokeParentOf: the token(s) that t replaced.
RetiredBy(r, t) ==
    [p \in Token |-> IF r[p].next = t THEN [r[p] EXCEPT !.revoked = TRUE]
                     ELSE r[p]]

RetireParent(i) ==
    /\ req[i].pc = "retire"
    /\ \/ rows' = RetiredBy(rows, req[i].tok) /\ Works
       \/ UNCHANGED rows /\ Fails
    /\ Step(i, AfterConfirm(i))
    /\ UNCHANGED <<minted, hash, issued, ackVars, tillVars, turnVars>>

RevokeOrphan(i) ==
    /\ req[i].pc = "orphan"
    /\ \/ rows' = [rows EXCEPT ![req[i].orphan].revoked = TRUE] /\ Works
       \/ UNCHANGED rows /\ Fails
    /\ Step(i, "store")
    /\ UNCHANGED <<minted, hash, issued, ackVars, tillVars, turnVars>>

\* storeRefreshToken: when the INSERT fails the token is answered all the same.
StoreToken(i) ==
    /\ req[i].pc = "store" /\ minted < MaxTokens
    /\ minted' = minted + 1
    /\ \/ /\ rows' = [rows EXCEPT ![minted'] = NewRow(rows[req[i].tok].session)]
          /\ req' = [req EXCEPT ![i].new = minted', ![i].pc = "link"]
          /\ Works
       \/ /\ UNCHANGED <<rows, spoilt>>
          /\ req' = [req EXCEPT ![i].new = minted', ![i].pc = AfterStore(i)]
          /\ faults > 0 /\ faults' = faults - 1
    /\ UNCHANGED <<hash, issued, ackVars, tillVars, turnVars>>

\* Mutant: the new token points at the one it replaces.
LinkBackwards(i) ==
    /\ req[i].pc = "link"
    /\ \/ rows' = [rows EXCEPT ![req[i].new].next = req[i].tok] /\ Works
       \/ UNCHANGED rows /\ Fails
    /\ Step(i, AfterStore(i))
    /\ UNCHANGED <<minted, hash, issued, ackVars, tillVars, turnVars>>

\* replaced_by, on a re-ask re-pointed from the orphan to the new token.
LinkToken(i) ==
    /\ req[i].pc = "link"
    /\ \/ rows' = [rows EXCEPT ![req[i].tok].next = req[i].new] /\ Works
       \/ UNCHANGED rows /\ Fails
    /\ Step(i, AfterStore(i))
    /\ UNCHANGED <<minted, hash, issued, ackVars, tillVars, turnVars>>

\* issueSecret: stored only over the hash this renewal saw, answered anyway.
IssueSecret(i) ==
    /\ req[i].pc = "secret"
    /\ \/ /\ issued' = issued + 1
          /\ hash' = IF hash = req[i].seen THEN issued' ELSE hash
          /\ req' = [req EXCEPT ![i].raw = issued', ![i].pc = "answer"]
          /\ Works
       \/ /\ UNCHANGED <<hash, issued>>
          /\ Step(i, "answer")
          /\ Fails
    /\ UNCHANGED <<rows, minted, ackVars, tillVars, turnVars>>

\* The answer reaches the till, or nobody when the till gave up on it.
Answer(i) ==
    /\ req[i].pc = "answer"
    /\ req' = [req EXCEPT ![i] = Free]
    /\ IF slot = i
       THEN /\ pc' = "received" /\ slot' = NoRequest
            /\ got' = [new |-> req[i].new, raw |-> req[i].raw]
            /\ late' = Busy \ {i}
       ELSE UNCHANGED <<pc, slot, got, late>>
    /\ UNCHANGED <<cloudVars, ackVars, disk, secret, code, kept, crossed,
                   spoilt, faults>>

\* The request or the answer is lost, a read fails (503), the handler dies.
Lose(i) ==
    /\ req[i].pc # "free"
    /\ faults > 0 /\ faults' = faults - 1
    /\ req' = [req EXCEPT ![i] = Free]
    /\ spoilt' = (spoilt \/ req[i].pc = "retire")
    /\ IF slot = i THEN pc' = "idle" /\ slot' = NoRequest
       ELSE UNCHANGED <<pc, slot>>
    /\ UNCHANGED <<cloudVars, ackVars, disk, secret, got, code, kept, turnVars>>

----------------------------------------------------------------------------
(* POST /api/auth/refresh/ack.                                             *)

\* A revoked or unknown token is answered 401 and nothing changes.
AckRead(t) ==
    /\ t \in acks
    /\ acks' = acks \ {t}
    /\ acking' = IF rows[t].stored /\ ~rows[t].revoked THEN acking \cup {t}
                 ELSE acking
    /\ UNCHANGED <<cloudVars, req, retiring, tillVars, turnVars, spoilt, faults>>

\* Without the first write there is no second.
AckConfirm(t) ==
    /\ t \in acking
    /\ acking' = acking \ {t}
    /\ \/ Confirm(t) /\ retiring' = retiring \cup {t} /\ Works
       \/ UNCHANGED <<rows, retiring>> /\ Fails
    /\ UNCHANGED <<minted, hash, issued, req, acks, tillVars, turnVars>>

AckRetire(t) ==
    /\ t \in retiring
    /\ retiring' = retiring \ {t}
    /\ \/ rows' = RetiredBy(rows, t) /\ Works
       \/ UNCHANGED rows /\ Fails
    /\ UNCHANGED <<minted, hash, issued, req, acks, acking, tillVars, turnVars>>

LoseAck(t) ==
    /\ t \in acks
    /\ faults > 0 /\ faults' = faults - 1
    /\ acks' = acks \ {t}
    /\ UNCHANGED <<cloudVars, req, acking, retiring, tillVars, turnVars, spoilt>>

----------------------------------------------------------------------------
(* The till.                                                               *)

\* The till waits for one renewal at a time (_refreshInFlight), with the token on
\* disk; straight to the cloud or through the branch server makes no difference
\* here. The cloud may still have one the till gave up on.
SendRenewal(i) ==
    /\ pc = "idle" /\ req[i] = Free
    /\ minted < MaxTokens
    /\ req' = [req EXCEPT ![i] = [Free EXCEPT !.pc = "sent", !.tok = disk,
                                              !.lost = (secret = NoSecret)]]
    /\ pc' = "asking" /\ slot' = i
    /\ late' = late \ {i}
    /\ UNCHANGED <<cloudVars, ackVars, disk, secret, got, code, kept, crossed,
                   spoilt, faults>>

\* The request times out; the cloud may still be working on it.
GiveUp ==
    /\ pc = "asking"
    /\ faults > 0 /\ faults' = faults - 1
    /\ pc' = "idle" /\ slot' = NoRequest
    /\ UNCHANGED <<cloudVars, req, ackVars, disk, secret, got, code, kept,
                   turnVars, spoilt>>

\* Mutant: the new token is confirmed whether or not it could be written.
KeepConfirmsAnyway ==
    /\ pc = "received"
    /\ \/ disk' = got.new /\ kept' = kept \cup {got.new} /\ UNCHANGED faults
       \/ faults > 0 /\ faults' = faults - 1 /\ UNCHANGED <<disk, kept>>
    /\ acks' = acks \cup {got.new}
    /\ pc' = IF got.raw # NoSecret THEN "renewed" ELSE "idle"
    /\ UNCHANGED <<cloudVars, req, acking, retiring, secret, slot, got, code,
                   turnVars, spoilt>>

\* keepRenewedPair: disk first; only a token that is on disk is confirmed.
KeepRenewedPair ==
    /\ pc = "received"
    /\ \/ /\ disk' = got.new /\ kept' = kept \cup {got.new}
          /\ acks' = acks \cup {got.new}
          /\ UNCHANGED faults
       \/ /\ faults > 0 /\ faults' = faults - 1
          /\ UNCHANGED <<disk, kept, acks>>
    /\ pc' = IF got.raw # NoSecret THEN "renewed" ELSE "idle"
    /\ UNCHANGED <<cloudVars, req, acking, retiring, secret, slot, got, code,
                   turnVars, spoilt>>

\* writeDeviceSecret, after the tokens.
WriteDeviceSecret ==
    /\ pc = "renewed"
    /\ secret' = got.raw
    /\ pc' = "idle"
    /\ UNCHANGED <<cloudVars, req, ackVars, disk, slot, got, code, kept,
                   turnVars, spoilt, faults>>

\* tryDeviceGrant: POST /api/auth/device-token with the secret on record starts
\* a new session; its INSERT, its answer or its write to disk may fail.
DeviceGrant ==
    /\ pc = "refused"
    /\ secret # NoSecret /\ secret = hash /\ minted < MaxTokens
    /\ minted' = minted + 1
    /\ \E stored, written \in BOOLEAN :
          /\ rows' = IF stored THEN [rows EXCEPT ![minted'] = NewRow(minted')]
                     ELSE rows
          /\ disk' = IF written THEN minted' ELSE disk
          /\ kept' = IF written THEN kept \cup {minted'} ELSE kept
          /\ IF stored /\ written THEN UNCHANGED faults
             ELSE faults > 0 /\ faults' = faults - 1
    /\ pc' = "idle" /\ code' = "none"
    /\ late' = Busy /\ crossed' = (crossed \/ AtWork # {})
    /\ UNCHANGED <<hash, issued, req, ackVars, secret, slot, got, spoilt>>

\* No device grant (no secret, not the one on record, the cloud out of reach,
\* or the refusal came by way of the branch server): no renewal for a while.
HoldBack ==
    /\ pc = "refused"
    /\ pc' = "idle" /\ code' = "none"
    /\ UNCHANGED <<cloudVars, req, ackVars, disk, secret, slot, got, kept,
                   turnVars, spoilt, faults>>

\* A crash, a power cut or an update restart: what was not on disk is gone.
Restart ==
    /\ pc # "idle"
    /\ faults > 0 /\ faults' = faults - 1
    /\ pc' = "idle" /\ slot' = NoRequest /\ got' = Nothing /\ code' = "none"
    /\ UNCHANGED <<cloudVars, req, ackVars, disk, secret, kept, turnVars, spoilt>>

----------------------------------------------------------------------------
CloudStep(i) ==
    \/ ReadRefused(i) \/ ReadToken(i) \/ ConfirmOnUse(i) \/ RetireParent(i)
    \/ RevokeOrphan(i) \/ StoreToken(i) \/ LinkToken(i) \/ IssueSecret(i)
    \/ Answer(i)

TillStep ==
    \/ \E i \in Request : SendRenewal(i)
    \/ KeepRenewedPair \/ WriteDeviceSecret \/ DeviceGrant \/ HoldBack

Next ==
    \/ \E i \in Request : CloudStep(i) \/ Lose(i)
    \/ \E t \in Token : AckRead(t) \/ AckConfirm(t) \/ AckRetire(t) \/ LoseAck(t)
    \/ TillStep \/ GiveUp \/ Restart

Spec == Init /\ [][Next]_vars

----------------------------------------------------------------------------
(* Types.                                                                  *)

RowsOK ==
    /\ rows \in [Token -> Row]
    /\ minted \in Token /\ issued \in Nat /\ hash \in 0 .. issued
    /\ \A t \in Token :
          /\ rows[t].stored => t <= minted
          /\ HasSuccessor(t) => rows[t].next \in t + 1 .. minted

RequestsOK ==
    /\ req \in [Request -> Renewal]
    /\ \A i \in Busy : req[i].tok \in 1 .. minted
    /\ \A i \in Request :
          req[i].pc \in {"link", "secret", "answer"}
              => req[i].new \in req[i].tok + 1 .. minted
    /\ acks \subseteq Token /\ acking \subseteq Token /\ retiring \subseteq Token

TillOK ==
    /\ disk \in 1 .. minted /\ kept \subseteq Token /\ secret \in Nat
    /\ pc \in {"idle", "asking", "received", "renewed", "refused"}
    /\ slot \in Request \cup {NoRequest}
    /\ got \in [new : 0 .. minted, raw : Nat]
    /\ pc = "received" => got.new # NoToken
    /\ code \in {"none", "unknown", "stale", "other"}

BudgetOK == spoilt \in BOOLEAN /\ faults \in Nat

TurnsOK == late \subseteq Request /\ crossed \in BOOLEAN

\* Every variable has its type, and a token is only ever replaced by a younger
\* one that was stored (refresh_tokens.replaced_by has no cycles).
TypeOK == RowsOK /\ RequestsOK /\ TillOK /\ BudgetOK /\ TurnsOK

----------------------------------------------------------------------------
(* The inductive invariant, until two renewals cross.                      *)

\* The cloud works on one renewal at a time, and it shows the token on disk, as
\* does every one that is not late.
InTurn ==
    /\ \A i, j \in AtWork : i = j
    /\ \A i \in AtWork : i \notin late
    /\ \A i \in Busy \ late : req[i].tok = disk
    /\ IF pc = "asking" THEN slot \in Busy \ late ELSE slot = NoRequest
    /\ pc \in {"received", "renewed"} => Busy \subseteq late

\* Nothing has been done with a token that is only now being handed out.
Fresh(t) ==
    /\ t \in disk + 1 .. minted
    /\ ~rows[t].revoked /\ ~HasSuccessor(t)

\* Only tokens the till has on disk are ever confirmed.
RowsInOrder ==
    /\ disk \in kept /\ \A t \in kept : t <= disk
    /\ acks \cup acking \cup retiring \subseteq kept
    /\ \A t \in Token : rows[t].acked => t \in kept
    /\ \A t \in Token : t > minted => rows[t] = NoRow
    /\ ~rows[disk].revoked

\* What is revoked or answered is younger than the token on disk.
KeysInOrder ==
    /\ \A i \in AtWork :
          /\ req[i].pc \in {"confirm", "retire", "orphan"} /\ req[i].reask
                => req[i].orphan \in disk + 1 .. minted
          /\ req[i].pc = "orphan" => req[i].reask
          /\ req[i].pc \in {"link", "secret", "answer"} => Fresh(req[i].new)
    /\ pc = "received" => Fresh(got.new)
    /\ code # "stale"

\* A secret on its way is the one on record, and the till holds none.
SecretsInOrder ==
    /\ \A i \in Busy \ late : req[i].lost => secret = NoSecret
    /\ \A i \in Busy : req[i].pc = "sent" => req[i].raw = NoSecret
    /\ \A i \in AtWork :
          /\ req[i].pc # "answer" => req[i].seen = hash
          /\ req[i].pc = "secret" => NeedsSecret(i)
          /\ req[i].pc # "answer" => req[i].raw = NoSecret
          /\ req[i].raw # NoSecret => req[i].raw = hash
    /\ pc \in {"received", "renewed"} /\ got.raw # NoSecret => got.raw = hash
    /\ secret # NoSecret => secret = hash

\* The rows of a session form a chain.
Inherits(n) == rows[n].stored => rows[n].session = rows[disk].session
RowsChained ==
    \A t \in Token :
        /\ rows[t].session <= t /\ (rows[t].stored <=> rows[t].session # NoToken)
        /\ HasSuccessor(t) => /\ rows[rows[t].next].stored
                              /\ rows[rows[t].next].session = rows[t].session
SessionsInOrder ==
    /\ RowsChained
    /\ \A i \in AtWork :
          /\ rows[req[i].tok].stored
          /\ req[i].pc \in {"link", "secret", "answer"} => Inherits(req[i].new)
          /\ req[i].pc = "link" => rows[req[i].new].stored
    /\ pc = "received" => Inherits(got.new)

\* Whoever confirms a token retires what it replaced; a token the till has
\* replaced was confirmed, and its successor was on disk too.
Chained(n) == rows[n].stored => rows[disk].next = n
ConfirmedRetires ==
    \A t, p \in Token : rows[t].acked /\ rows[p].next = t =>
        \/ rows[p].revoked \/ t \in retiring
        \/ \E i \in AtWork : req[i].pc = "retire" /\ req[i].tok = t
ReplacedConfirmed ==
    \A t \in kept \ {disk} :
        rows[t].stored /\ rows[t].session = rows[disk].session
            => rows[t].acked /\ rows[t].next \in kept
RetiresInOrder ==
    /\ ConfirmedRetires /\ ReplacedConfirmed
    /\ \A i \in AtWork :
          /\ req[i].pc \in {"retire", "orphan", "store", "link", "secret", "answer"}
                => rows[disk].acked
          /\ req[i].pc \in {"secret", "answer"} => Chained(req[i].new)
    /\ pc = "received" => rows[disk].acked /\ Chained(got.new)
OldInOrder == SessionsInOrder /\ (~spoilt => RetiresInOrder)

----------------------------------------------------------------------------
(* Properties.                                                             *)

\* refreshHandshake.ts: a crash, an update restart, a lost reply or a slow
\* line never cost a till its session -- the cloud never takes the token of
\* the honest till for an outdated copy, though it ask again while the cloud
\* still has an earlier renewal; unless two of them crossed.
NeverStale == ~crossed /\ pc = "refused" => code # "stale"

\* Refuted: they may cross (a till that timed out asks again at once).
SlowLineCostsNothing == pc = "refused" => code # "stale"

\* What makes it so: at every moment, also in the middle of a renewal, the
\* cloud would take the token on the till's disk, if its INSERT did not fail
\* and no renewals crossed.
KeptKeyIsAccepted == ~crossed /\ rows[disk].stored => Accepted(disk)

\* Refuted: validateRefreshToken: nor does a database hiccup sign a till out --
\* its token is never unknown to the cloud.
NeverUnknown == pc = "refused" => code # "unknown"

\* issueSecret, writeDeviceSecret: the secret a till holds is the one on
\* record, however many answers that carried one were lost; unless renewals
\* crossed.
SecretStandsGood == ~crossed /\ secret # NoSecret => secret = hash

\* Refuted: issueSecret: two renewals at once never hand out two secrets.
OneSecretIsHandedOut == secret # NoSecret => secret = hash

\* Tokens the till has replaced are outdated: refused once the newest one of
\* the session is confirmed, and after one more renewal even if every ack was
\* lost (refreshHandshakeDecision; unless a write that retires was cut off, or
\* renewals crossed).
OldKeysAreRefused ==
    \A t \in kept \ {disk} :
        (/\ rows[t].session = rows[disk].session
         /\ rows[disk].acked \/ rows[t].next # disk
         /\ retiring = {} /\ ~spoilt /\ ~crossed)
            => ~Accepted(t)

=============================================================================
