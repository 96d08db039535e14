----------------------------- MODULE SendLedger -----------------------------
(***************************************************************************)
(* The sending quota of one user: state/send_ledger.go, charged by every   *)
(* send path through api/send_quota.go.  The ledger row of a send is       *)
(* inserted by one SQL statement that also checks both windows; a refusal  *)
(* says how long until the send would fit.  A call runs within one unit of *)
(* the clock; the limits (config, or the user's own) do not change.        *)
(***************************************************************************)
EXTENDS Integers, Sequences

CONSTANTS
  Ids,              \* send IDs; a retried scheduled send keeps its row's
  Hour, Day,        \* sendHour and sendDay, in clock units
  MessagesPerHour, RecipientsPerDay,
  MaxRecipients,    \* recipients of one message
  MaxNow            \* bound on the clock

ASSUME LedgerAssumption ==
  /\ {Hour, Day, MessagesPerHour, RecipientsPerDay, MaxRecipients, MaxNow} \subseteq Nat \ {0}
  /\ Hour < Day

VARIABLES
  now,
  charged,  \* every row ever inserted, in the order of insertion
  ledger    \* the numbers of the rows that are still in the table

vars == <<now, charged, ledger>>

Recipients == 1 .. MaxRecipients

(* The running sums of a sequence of numbers, and the whole of it.          *)
Sums(w) ==
  LET sum[k \in 0 .. Len(w)] == IF k = 0 THEN 0 ELSE sum[k - 1] + w[k]
  IN  sum
Total(w) == Sums(w)[Len(w)]

(* What each row counts for in the hour and in the day that end at t.       *)
Hourly(rows, t) ==
  [k \in DOMAIN charged |-> IF k \in rows /\ charged[k].at > t - Hour THEN 1 ELSE 0]
Daily(rows, t) ==
  [k \in DOMAIN charged |-> IF k \in rows /\ charged[k].at > t - Day THEN charged[k].recipients ELSE 0]

Charged(rows) == {charged[k].id : k \in rows}

MutantFits(rows, t, n) ==
  /\ Total(Hourly(rows, t)) <= MessagesPerHour
  /\ Total(Daily(rows, t)) + n <= RecipientsPerDay

(* The WHERE clause of AdmitSend's insert.                                  *)
Fits(rows, t, n) ==
  /\ Total(Hourly(rows, t)) < MessagesPerHour
  /\ Total(Daily(rows, t)) + n <= RecipientsPerDay

(* When a window of this width has room again: once the oldest rows that    *)
(* cover the excess have left it.  Rows are in the order of their times.    *)
Opens(w, excess, width, t) ==
  LET covers(k) == Sums(w)[k] >= excess
      last      == CHOOSE k \in DOMAIN w : covers(k) /\ ~covers(k - 1)
  IN  IF excess <= 0 THEN t ELSE charged[last].at + width

Later(x, y) == IF x > y THEN x ELSE y

MutantQuotaWait(rows, t, n) ==
  LET hour == Hourly(rows, t)
  IN  Later(Opens(hour, Total(hour) - MessagesPerHour + 1, Hour, t) - t, 1)

(* sendQuotaWait: both windows must have room.  The hour is over by         *)
(* messages - quota + 1 messages, the one to be sent included.              *)
QuotaWait(rows, t, n) ==
  LET hour  == Hourly(rows, t)
      day   == Daily(rows, t)
      until == Later(Opens(hour, Total(hour) - MessagesPerHour + 1, Hour, t),
                     Opens(day, Total(day) + n - RecipientsPerDay, Day, t))
  IN  Later(until - t, 1)

(* The rows a day old are deleted first.                                    *)
Purged == {k \in ledger : charged[k].at > now - Day}

(* AdmitSend of a send already charged: admitted again, not counted again.  *)
Replay(id) ==
  /\ id \in Charged(Purged)
  /\ ledger' = Purged
  /\ UNCHANGED <<now, charged>>

(* AdmitSend of a new send that fits: one statement checks and inserts.     *)
Admit(id, n) ==
  /\ id \notin Charged(Purged) /\ Fits(Purged, now, n)
  /\ charged' = Append(charged, [id |-> id, at |-> now, recipients |-> n])
  /\ ledger'  = Purged \cup {Len(charged) + 1}
  /\ UNCHANGED now

(* AdmitSend of a send that does not fit: refused with QuotaWait, or for    *)
(* good when the message alone exceeds the day.                             *)
Refuse(id, n) ==
  /\ id \notin Charged(Purged) /\ ~Fits(Purged, now, n)
  /\ ledger' = Purged
  /\ UNCHANGED <<now, charged>>

Tick ==
  /\ now < MaxNow
  /\ now' = now + 1
  /\ UNCHANGED <<charged, ledger>>

Init == now = 0 /\ charged = <<>> /\ ledger = {}

(* runScheduled: a message is retried under its ID for at most an hour.     *)
Retriable(id, n) ==
  \A k \in DOMAIN charged :
    charged[k].id = id => charged[k].recipients = n /\ now <= charged[k].at + Hour

Next ==
  \/ \E id \in Ids, n \in Recipients : Retriable(id, n) /\ (Replay(id) \/ Admit(id, n) \/ Refuse(id, n))
  \/ Tick

Spec == Init /\ [][Next]_vars

-----------------------------------------------------------------------------
(* Properties.                                                              *)

(* In no hour, wherever it starts, are more messages charged than the       *)
(* quota allows, and in no day more recipients, although old rows are       *)
(* deleted on the way, and a retried send is charged once (AdmitSend).      *)
QuotaKept ==
  /\ \A t \in 0 .. now :
       LET past == {k \in DOMAIN charged : charged[k].at <= t}
       IN  /\ Total(Hourly(past, t)) <= MessagesPerHour
           /\ Total(Daily(past, t)) <= RecipientsPerDay
  /\ \A k, m \in DOMAIN charged : charged[k].id = charged[m].id => k = m

(* The wait told to a refused client is exact: the send fits then, provided *)
(* nothing else is sent, and at no moment before (sendQuotaWait).           *)
WaitExact ==
  \A n \in Recipients :
    n <= RecipientsPerDay /\ ~Fits(Purged, now, n) =>
      LET wait == QuotaWait(Purged, now, n)
      IN  /\ Fits(Purged, now + wait, n)
          /\ \A d \in 0 .. wait - 1 : ~Fits(Purged, now + d, n)

=============================================================================
