----------------------------- MODULE Materializer -----------------------------
(***************************************************************************)
(* The SQLAlchemy materializer (adapters/sqlalchemy.py): the row artifacts *)
(* of a result are checked as a whole and then inserted in one transaction.*)
(* Callers materialize their results at the same time and again after an   *)
(* error.  The database is external: it refuses an insert for any reason   *)
(* (a key that is NULL, say, where the table does not allow that),         *)
(* serialises transactions by the keys they hold, generates the key of a   *)
(* row that brings none, and may lose the answer of a commit it has done.  *)
(***************************************************************************)
EXTENDS Integers, Sequences, FiniteSets

CONSTANTS
  Callers,
  Results,      \* sequences of artifacts, of a result each
  NoKey,        \* in the place of a primary key: its column is not named
  Null,         \* its column is named, and None
  MaxAttempts

ASSUME AttemptsAssumption == MaxAttempts \in Nat

(* An artifact: what is wrong with it, if anything, and its primary key.   *)
(* Other artifacts of a result are not rows at all.                        *)
Row(fault, key) == [fault |-> fault, key |-> key]

VARIABLES
  result,       \* of each caller
  db,           \* rows committed: [key, of, by], of a caller's result and
                \* place, inserted by one of its attempts
  pc,
  inserted,     \* rows of the open transaction
  attempts,
  report        \* of the last attempt: rows claimed to be inserted

vars == <<result, db, pc, inserted, attempts, report>>

(* The row commands of a result are the places of its row artifacts.       *)
Commands(c) == {i \in DOMAIN result[c] : result[c][i].fault # "other"}
Done(c) == {r.of[2] : r \in inserted[c]}
Upcoming(c, i) ==
  /\ pc[c] = "inserting" /\ i \in Commands(c) \ Done(c)
  /\ \A j \in Commands(c) \ Done(c) : i <= j

(* extract_row_commands and prepare_row_commands, for every command before *)
(* the transaction is opened.  The primary key must be named; None passes. *)
(* Mutant: it need not be.                                                 *)
PreparedUnkeyed(row) == row.fault = "none"

Prepared(row) == row.fault = "none" /\ row.key # NoKey

(* Mutant: the transaction stays open.                                     *)
RaiseOpen(c) == pc' = [pc EXCEPT ![c] = "raised"] /\ UNCHANGED <<inserted, report>>

Raise(c) ==
  /\ pc' = [pc EXCEPT ![c] = "raised"]
  /\ inserted' = [inserted EXCEPT ![c] = {}]
  /\ report' = [report EXCEPT ![c] = 0]

(* materialize_result up to engine.begin().                                *)
Begin(c) ==
  /\ pc[c] # "inserting" /\ attempts[c] < MaxAttempts
  /\ attempts' = [attempts EXCEPT ![c] = @ + 1]
  /\ pc' = [pc EXCEPT ![c] =
       IF Commands(c) = {} THEN "reported"
       ELSE IF \A i \in Commands(c) : Prepared(result[c][i]) THEN "inserting"
       ELSE "raised"]
  /\ UNCHANGED <<result, db, inserted, report>>

Rows == db \cup UNION {inserted[c] : c \in Callers}
Brings(c, i) == result[c][i].key \notin {NoKey, Null}
KeyOf(c, i) == IF Brings(c, i) THEN <<result[c][i].key>> ELSE <<c, attempts[c], i>>
NewRow(c, i) == [key |-> KeyOf(c, i), of |-> <<c, i>>, by |-> attempts[c]]
Fits(c, i) == \A r \in Rows : r.key # KeyOf(c, i)

(* Mutant: the connection commits every insert.                            *)
InsertCommitted(c) ==
  \E i \in Commands(c) :
    /\ Upcoming(c, i) /\ Fits(c, i)
    /\ inserted' = [inserted EXCEPT ![c] = @ \cup {NewRow(c, i)}]
    /\ db' = db \cup {NewRow(c, i)} /\ UNCHANGED <<result, pc, attempts, report>>

(* A key another transaction holds is waited for, unless that is refused.  *)
Insert(c) ==
  \E i \in Commands(c) :
    /\ Upcoming(c, i) /\ Fits(c, i)
    /\ inserted' = [inserted EXCEPT ![c] = @ \cup {NewRow(c, i)}]
    /\ UNCHANGED <<result, db, pc, attempts, report>>

(* Mutant: a row that is there is taken for inserted.                      *)
RefuseQuietly(c) ==
  \E i \in Commands(c) :
    /\ Upcoming(c, i) /\ inserted' = [inserted EXCEPT ![c] = @ \cup {NewRow(c, i)}]
    /\ UNCHANGED <<result, db, pc, attempts, report>>

(* The insert raises: a key that is there, another constraint, a deadlock. *)
Refuse(c) ==
  (\E i \in Commands(c) : Upcoming(c, i)) /\ Raise(c) /\ UNCHANGED <<result, db, attempts>>

(* An exception the adapter does not catch leaves the context manager.     *)
Interrupt(c) == pc[c] = "inserting" /\ Raise(c) /\ UNCHANGED <<result, db, attempts>>

Inserted(c) == pc[c] = "inserting" /\ Done(c) = Commands(c)

(* Mutant: an error of the commit is taken for success.                    *)
CommitFailsQuietly(c) ==
  /\ Inserted(c) /\ pc' = [pc EXCEPT ![c] = "reported"]
  /\ report' = [report EXCEPT ![c] = Cardinality(Commands(c))]
  /\ inserted' = [inserted EXCEPT ![c] = {}] /\ UNCHANGED <<result, db, attempts>>

Commit(c) ==
  /\ Inserted(c) /\ db' = db \cup inserted[c]
  /\ pc' = [pc EXCEPT ![c] = "reported"]
  /\ report' = [report EXCEPT ![c] = Cardinality(Commands(c))]
  /\ inserted' = [inserted EXCEPT ![c] = {}] /\ UNCHANGED <<result, attempts>>

CommitFails(c) == Inserted(c) /\ Raise(c) /\ UNCHANGED <<result, db, attempts>>

CommitUnanswered(c) ==
  /\ Inserted(c) /\ db' = db \cup inserted[c] /\ Raise(c) /\ UNCHANGED <<result, attempts>>

Init ==
  /\ result \in [Callers -> Results] /\ db = {} /\ pc = [c \in Callers |-> "idle"]
  /\ inserted = [c \in Callers |-> {}] /\ attempts = [c \in Callers |-> 0]
  /\ report = [c \in Callers |-> 0]

Next == \E c \in Callers :
  Begin(c) \/ Insert(c) \/ Refuse(c) \/ Interrupt(c)
  \/ Commit(c) \/ CommitFails(c) \/ CommitUnanswered(c)

Spec == Init /\ [][Next]_vars
-----------------------------------------------------------------------------
TypeOK ==
  /\ result \in [Callers -> Results]
  /\ \A r \in Rows : r.of[1] \in Callers /\ r.of[2] \in Commands(r.of[1])
  /\ \A c \in Callers :
       /\ pc[c] \in {"idle", "inserting", "reported", "raised"}
       /\ inserted[c] # {} => pc[c] = "inserting"
       /\ attempts[c] \in 0..MaxAttempts
       /\ report[c] \in {0, Cardinality(Commands(c))}

(* The places of the rows an attempt of a caller left.                     *)
RowsOf(c, n) == {r.of[2] : r \in {s \in db : s.of[1] = c /\ s.by = n}}

(* Whoever else writes and whatever fails, an attempt leaves all rows of   *)
(* its result or none.                                                     *)
AllRowsOrNone == \A c \in Callers, n \in 0..MaxAttempts : RowsOf(c, n) \in {{}, Commands(c)}

(* A report is only returned when the rows of its attempt are there, and   *)
(* names them all.                                                         *)
ReportedRowsAreThere ==
  \A c \in Callers : pc[c] = "reported" => report[c] = Cardinality(RowsOf(c, attempts[c]))

(* A commit whose answer was lost may be tried again.  No key is there     *)
(* twice; and a result is there twice only if it leaves every one of its   *)
(* keys to the database: one row that brings its key keeps the whole       *)
(* result from being inserted a second time.                               *)
NoRowTwice ==
  \A r, s \in db :
    /\ r.key = s.key => r = s
    /\ r.of = s.of /\ r # s => \A i \in Commands(r.of[1]) : result[r.of[1]][i].key = Null

(* The rows of a result are materialized together and, if one of them is   *)
(* known by its key, once.                                                 *)
RowsAreMaterializedOnce == TypeOK /\ AllRowsOrNone /\ ReportedRowsAreThere /\ NoRowTwice
=============================================================================
