---------------------------- MODULE LedgerStore ----------------------------
(***************************************************************************)
(* The payments table of one node (internal/storage/sqlite.go), as pure    *)
(* operators on a function from payment ids to rows.  payment_id is UNIQUE *)
(* and the connection pool holds one connection (SetMaxOpenConns(1)), so   *)
(* every store call below is one atomic step of the models that use it:    *)
(* the SELECT that follows an UPDATE of no row looks at a row that is      *)
(* final, and a final row does not change between the two.                 *)
(* Amount, currency, timestamps and the two node names of a row are left   *)
(* out: no decision of the replication code reads them back.               *)
(***************************************************************************)
EXTENDS Naturals

CONSTANT PaymentID      \* the payment_id values clients use

FinalStatus == {"COMMITTED", "FAILED", "CANCELED"}
Status      == {"PENDING"} \cup FinalStatus

\* "ABSENT" is the row that is not there (ErrPaymentNotFound).
NoRow == [status |-> "ABSENT", log_index |-> 0]
Row   == [status : Status \cup {"ABSENT"}, log_index : Nat]
Table == [PaymentID -> Row]

EmptyTable == [p \in PaymentID |-> NoRow]

Exists(t, p)  == t[p].status # "ABSENT"
IsFinal(t, p) == t[p].status \in FinalStatus

\* [mutant of AppendPending] INSERT OR REPLACE.
AppendReplace(t, p, i) == [t EXCEPT ![p] = [status |-> "PENDING", log_index |-> i]]

\* INSERT ... status PENDING: a second insert of a payment_id breaks the
\* UNIQUE constraint and leaves the first row as it is.
AppendPending(t, p, i) ==
  IF Exists(t, p) THEN t
  ELSE [t EXCEPT ![p] = [status |-> "PENDING", log_index |-> i]]

\* [mutant of FinalizeByPaymentID] the UPDATE without "AND status = PENDING".
FinalizeAny(t, p, s) == IF Exists(t, p) THEN [t EXCEPT ![p].status = s] ELSE t

\* UPDATE ... SET status = s WHERE payment_id = p AND status = PENDING:
\* CommitByPaymentID, FailByPaymentID and CancelByPaymentID for the three s.
FinalizeByPaymentID(t, p, s) ==
  IF t[p].status = "PENDING" THEN [t EXCEPT ![p].status = s] ELSE t

\* [mutant of FinalizeSucceeds] the number of updated rows is not looked at.
FinalizeUnchecked(t, p, s) == Exists(t, p)

\* The same call returns nil iff it updated the row or finds s already there.
FinalizeSucceeds(t, p, s) == t[p].status \in {"PENDING", s}

\* An entry of a catch-up response.
Entry == [payment_id : PaymentID, log_index : Nat, status : FinalStatus]

EntryOf(t, p) ==
  [payment_id |-> p, log_index |-> t[p].log_index, status |-> t[p].status]

\* [mutant of ListFinalizedAfter] without the status condition.
ListAfter(t, i) ==
  {EntryOf(t, p) : p \in {q \in PaymentID : Exists(t, q) /\ t[q].log_index > i}}

\* [mutant of ListFinalizedAfter] ListCommittedAfter in its place.
ListCommittedAfter(t, i) ==
  {EntryOf(t, p) : p \in {q \in PaymentID :
                             t[q].status = "COMMITTED" /\ t[q].log_index > i}}

ListFinalizedAfter(t, i) ==
  {EntryOf(t, p) : p \in {q \in PaymentID : IsFinal(t, q) /\ t[q].log_index > i}}

\* ORDER BY log_index: e is the first of the entries still to be handled.
IsFirst(e, es) == \A o \in es : e.log_index <= o.log_index

\* h is what readLocalCommittedHead returns: the highest log_index of a
\* finalized row, 0 when there is none.
FinalIndices(t) == {0} \cup {t[p].log_index : p \in {q \in PaymentID : IsFinal(t, q)}}
IsLocalHead(t, h) == h \in FinalIndices(t) /\ \A i \in FinalIndices(t) : i <= h
=============================================================================
