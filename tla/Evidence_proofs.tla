--------------------------- MODULE Evidence_proofs ---------------------------
(***************************************************************************)
(* What leaves the program, for every value of the constants.              *)
(*                                                                         *)
(* First the materializer: an attempt leaves all rows of its result or     *)
(* none, and a result that brings one of its keys is there once.  While a  *)
(* transaction is open every row of its result is sound, so that every row *)
(* in the database or in a transaction is the one row of its caller,       *)
(* attempt and place, and the keys of all of them differ.  Two rows of one *)
(* place are then of two attempts, each of which left all rows, also the   *)
(* one whose key is the same in both: it is the same row, and so are the   *)
(* attempts.                                                               *)
(*                                                                         *)
(* Then artifacts that are migrated, and the receipts of a publication,    *)
(* which depend on its plan, window and bound alone.                       *)
(*                                                                         *)
(* Then exports: an operation is followed through its labels, how much it  *)
(* has staged and what it has checked of it, and it is at its destination  *)
(* exactly if its rename succeeded.  Edits of sources never enter it: what *)
(* was read is judged by its digest alone.                                 *)
(*                                                                         *)
(* Then the four components side by side, as they are run: a behaviour is  *)
(* one of one of them, whose invariant holds and is kept because the       *)
(* others do not touch its variables.                                      *)
(***************************************************************************)
EXTENDS MCEvidence, FiniteSetTheorems, SequenceTheorems, NaturalsInduction,
        WellFoundedInduction, TLAPS

Points == {"idle", "inserting", "reported", "raised"}

(* The row that an attempt makes of a place of a result that was prepared. *)
Brought(c, i) == result[c][i].key # Null
SoundKey(c, n, i) == IF Brought(c, i) THEN <<result[c][i].key>> ELSE <<c, n, i>>
SoundRow(c, n, i) == [key |-> SoundKey(c, n, i), of |-> <<c, i>>, by |-> n]
SoundRows(c, n) == {SoundRow(c, n, i) : i \in Commands(c)}
AllRows == UNION {UNION {SoundRows(c, n) : n \in 0..MaxAttempts} : c \in Callers}

Shaped ==
  /\ result \in [Callers -> Results] /\ pc \in [Callers -> Points]
  /\ attempts \in [Callers -> 0..MaxAttempts]
  /\ DOMAIN inserted = Callers /\ DOMAIN report = Callers
  /\ inserted \in [Callers -> SUBSET AllRows] /\ db \subseteq AllRows

Open(c) ==
  /\ inserted[c] # {} => pc[c] = "inserting"
  /\ inserted[c] \subseteq SoundRows(c, attempts[c])
  /\ pc[c] = "inserting" => \A i \in Commands(c) : Prepared(result[c][i])

Reported(c) ==
  /\ report[c] \in {0, Cardinality(Commands(c))}
  /\ pc[c] = "reported" =>
       RowsOf(c, attempts[c]) = Commands(c) /\ report[c] = Cardinality(Commands(c))

Whole(c) == \A n \in 0..MaxAttempts : RowsOf(c, n) \in {{}, Commands(c)}

Keyed == \A r, s \in Rows : r.key = s.key => r = s

IInv ==
  /\ Shaped /\ Keyed
  /\ \A c \in Callers : Open(c) /\ Reported(c) /\ Whole(c)

-----------------------------------------------------------------------------
(* The invariant implies what is promised.                                 *)
LEMMA RowIs ==
  ASSUME Shaped, NEW r \in Rows
  PROVE  \E c \in Callers, n \in 0..MaxAttempts : \E i \in Commands(c) : r = SoundRow(c, n, i)
<1>1. r \in AllRows
  BY DEF Shaped, Rows
<1>2. PICK c \in Callers : \E n \in 0..MaxAttempts : r \in SoundRows(c, n)
  BY <1>1 DEF AllRows
<1> QED
  BY <1>2 DEF SoundRows

(* The rows that an attempt left, if it left one.                          *)
LEMMA LeftByAttempt ==
  ASSUME Shaped, NEW c \in Callers, NEW n \in 0..MaxAttempts, Whole(c), NEW i \in Commands(c),
         SoundRow(c, n, i) \in db
  PROVE  \A j \in Commands(c) : SoundRow(c, n, j) \in db
<1>1. RowsOf(c, n) = Commands(c)
  <2>1. i \in RowsOf(c, n)
    BY DEF RowsOf, SoundRow
  <2> QED
    BY <2>1 DEF Whole
<1> SUFFICES ASSUME NEW j \in Commands(c)
             PROVE  SoundRow(c, n, j) \in db
  OBVIOUS
<1>2. PICK q \in db : q.of[1] = c /\ q.by = n /\ q.of[2] = j
  BY <1>1 DEF RowsOf
<1>3. q \in Rows
  BY DEF Rows
<1>4. PICK d \in Callers, m \in 0..MaxAttempts : \E k \in Commands(d) : q = SoundRow(d, m, k)
  BY <1>3, RowIs
<1>5. PICK k \in Commands(d) : q = SoundRow(d, m, k)
  BY <1>4
<1>6. d = c /\ m = n /\ k = j
  BY <1>2, <1>5 DEF SoundRow
<1> QED
  BY <1>2, <1>5, <1>6

(* Two rows of one place are of two attempts, which share no key.          *)
LEMMA TwiceUnkeyed ==
  ASSUME IInv, NEW r \in db, NEW s \in db, r.of = s.of, r # s
  PROVE  \A j \in Commands(r.of[1]) : result[r.of[1]][j].key = Null
<1>1. r \in Rows /\ s \in Rows
  BY DEF Rows
<1>2. PICK c \in Callers, n \in 0..MaxAttempts : \E i \in Commands(c) : r = SoundRow(c, n, i)
  BY <1>1, RowIs DEF IInv
<1>3. PICK d \in Callers, m \in 0..MaxAttempts : \E k \in Commands(d) : s = SoundRow(d, m, k)
  BY <1>1, RowIs DEF IInv
<1>4. PICK i \in Commands(c) : r = SoundRow(c, n, i)
  BY <1>2
<1>5. PICK k \in Commands(d) : s = SoundRow(d, m, k)
  BY <1>3
<1>6. d = c /\ k = i /\ r.of[1] = c
  BY <1>4, <1>5 DEF SoundRow
<1>7. n # m
  BY <1>4, <1>5, <1>6
<1> SUFFICES ASSUME NEW j \in Commands(c), Brought(c, j)
             PROVE  FALSE
  BY <1>6 DEF Brought
<1>8. SoundRow(c, n, j) \in db /\ SoundRow(c, m, j) \in db
  BY <1>4, <1>5, <1>6, LeftByAttempt DEF IInv
<1>9. SoundRow(c, n, j).key = SoundRow(c, m, j).key
  BY DEF SoundRow, SoundKey
<1>10. SoundRow(c, n, j) = SoundRow(c, m, j)
  BY <1>8, <1>9 DEF IInv, Keyed, Rows
<1> QED
  BY <1>7, <1>10 DEF SoundRow

LEMMA PlacesOfRows ==
  ASSUME Shaped, NEW r \in Rows
  PROVE  r.of[1] \in Callers /\ r.of[2] \in Commands(r.of[1])
<1>1. PICK c \in Callers, n \in 0..MaxAttempts : \E i \in Commands(c) : r = SoundRow(c, n, i)
  BY RowIs
<1>2. PICK i \in Commands(c) : r = SoundRow(c, n, i)
  BY <1>1
<1> QED
  BY <1>2 DEF SoundRow

LEMMA InvariantImplies == IInv => RowsAreMaterializedOnce
<1> SUFFICES ASSUME IInv PROVE RowsAreMaterializedOnce
  OBVIOUS
<1>1. TypeOK
  <2>1. \A r \in Rows : r.of[1] \in Callers /\ r.of[2] \in Commands(r.of[1])
    BY PlacesOfRows DEF IInv
  <2>2. ASSUME NEW c \in Callers
        PROVE  /\ pc[c] \in {"idle", "inserting", "reported", "raised"}
               /\ inserted[c] # {} => pc[c] = "inserting"
               /\ attempts[c] \in 0..MaxAttempts
               /\ report[c] \in {0, Cardinality(Commands(c))}
    BY DEF IInv, Shaped, Points, Open, Reported
  <2> QED
    BY <2>1, <2>2 DEF TypeOK, IInv, Shaped
<1>2. AllRowsOrNone
  BY DEF IInv, Whole, AllRowsOrNone
<1>3. ReportedRowsAreThere
  BY DEF IInv, Reported, ReportedRowsAreThere
<1>4. NoRowTwice
  <2>1. \A r, s \in db : r.key = s.key => r = s
    BY DEF IInv, Keyed, Rows
  <2> QED
    BY <2>1, TwiceUnkeyed DEF NoRowTwice
<1> QED
  BY <1>1, <1>2, <1>3, <1>4 DEF RowsAreMaterializedOnce

-----------------------------------------------------------------------------
LEMMA InitEstablishes == Init => IInv
<1> SUFFICES ASSUME Init PROVE IInv
  OBVIOUS
<1> USE DEF Init
<1>1. Rows = {}
  BY DEF Rows
<1>2. Shaped
  BY AttemptsAssumption DEF Shaped, Points
<1>3. Keyed
  BY <1>1 DEF Keyed
<1>4. ASSUME NEW c \in Callers PROVE Open(c) /\ Reported(c) /\ Whole(c)
  <2>1. \A n : RowsOf(c, n) = {}
    BY DEF RowsOf
  <2> QED
    BY <2>1 DEF Open, Reported, Whole
<1> QED
  BY <1>2, <1>3, <1>4 DEF IInv

(* What depends on the result and the database alone stays with them.      *)
LEMMA CommandsStay ==
  ASSUME result' = result
  PROVE  /\ AllRows' = AllRows
         /\ \A c : Commands(c)' = Commands(c) /\ \A n : SoundRows(c, n)' = SoundRows(c, n)
BY DEF AllRows, SoundRows, SoundRow, SoundKey, Brought, Commands

LEMMA RowsOfStay ==
  ASSUME db' = db
  PROVE  \A c, n : RowsOf(c, n)' = RowsOf(c, n)
BY DEF RowsOf

(* Keys stay apart when no row is new.                                     *)
LEMMA KeyedWithFewer ==
  ASSUME Keyed, Rows' \subseteq Rows
  PROVE  Keyed'
BY DEF Keyed

-----------------------------------------------------------------------------
LEMMA BeginStep ==
  ASSUME IInv, NEW c \in Callers, Begin(c)
  PROVE  IInv'
<1> USE DEF Begin
<1>1. AllRows' = AllRows /\ \A d : Commands(d)' = Commands(d) /\ \A n : SoundRows(d, n)' = SoundRows(d, n)
  BY CommandsStay
<1>2. \A d, n : RowsOf(d, n)' = RowsOf(d, n)
  BY RowsOfStay
<1>3. Shaped'
  <2>1. pc' \in [Callers -> Points]
    BY DEF IInv, Shaped, Points
  <2>2. attempts' \in [Callers -> 0..MaxAttempts]
    BY AttemptsAssumption DEF IInv, Shaped
  <2> QED
    BY <1>1, <2>1, <2>2 DEF IInv, Shaped
<1>4. Keyed'
  <2>1. Rows' = Rows
    BY DEF Rows
  <2> QED
    BY <2>1, KeyedWithFewer DEF IInv
<1>5. ASSUME NEW d \in Callers PROVE Open(d)'
  <2>1. CASE d # c
    BY <2>1, <1>1 DEF IInv, Shaped, Open
  <2>2. CASE d = c
    <3>1. inserted[c] = {}
      BY DEF IInv, Open
    <3>2. pc'[c] = "inserting" => \A i \in Commands(c) : Prepared(result[c][i])
      BY DEF IInv, Shaped
    <3> QED
      BY <2>2, <3>1, <3>2, <1>1 DEF Open
  <2> QED
    BY <2>1, <2>2
<1>6. ASSUME NEW d \in Callers PROVE Reported(d)'
  <2>1. CASE d # c \/ pc'[d] # "reported"
    BY <2>1, <1>1, <1>2 DEF IInv, Shaped, Reported
  <2>2. CASE d = c /\ pc'[d] = "reported"
    <3>1. Commands(c) = {}
      BY <2>2 DEF IInv, Shaped
    <3>2. Cardinality(Commands(c)) = 0
      BY <3>1, FS_EmptySet
    <3>3. report[c] = Cardinality(Commands(c))
      BY <3>2 DEF IInv, Reported
    <3>4. attempts'[c] \in 0..MaxAttempts
      BY <1>3 DEF Shaped
    <3>5. RowsOf(c, attempts'[c]) = Commands(c)
      BY <3>1, <3>4 DEF IInv, Whole
    <3>6. RowsOf(c, attempts[c])' = RowsOf(c, attempts'[c])
      BY DEF RowsOf
    <3> QED
      BY <2>2, <3>3, <3>5, <3>6, <1>1, <1>2 DEF Reported
  <2> QED
    BY <2>1, <2>2
<1>7. ASSUME NEW d \in Callers PROVE Whole(d)'
  BY <1>1, <1>2 DEF IInv, Whole
<1> QED
  BY <1>3, <1>4, <1>5, <1>6, <1>7 DEF IInv

LEMMA InsertStep ==
  ASSUME IInv, NEW c \in Callers, Insert(c)
  PROVE  IInv'
<1>1. PICK i \in Commands(c) :
        /\ Upcoming(c, i) /\ Fits(c, i)
        /\ inserted' = [inserted EXCEPT ![c] = @ \cup {NewRow(c, i)}]
  BY DEF Insert
<1>2. UNCHANGED <<result, db, pc, attempts, report>>
  BY DEF Insert
<1>3. AllRows' = AllRows /\ \A d : Commands(d)' = Commands(d) /\ \A n : SoundRows(d, n)' = SoundRows(d, n)
  BY <1>2, CommandsStay
<1>4. \A d, n : RowsOf(d, n)' = RowsOf(d, n)
  BY <1>2, RowsOfStay
<1>5. Prepared(result[c][i]) /\ pc[c] = "inserting"
  BY <1>1 DEF IInv, Open, Upcoming
<1>6. NewRow(c, i) = SoundRow(c, attempts[c], i)
  BY <1>5 DEF NewRow, KeyOf, Brings, Brought, SoundRow, SoundKey, Prepared
<1>7. NewRow(c, i) \in SoundRows(c, attempts[c]) /\ NewRow(c, i) \in AllRows
  <2>1. attempts[c] \in 0..MaxAttempts
    BY DEF IInv, Shaped
  <2> QED
    BY <1>1, <1>6, <2>1 DEF SoundRows, AllRows
<1>8. Shaped'
  <2>1. inserted' \in [Callers -> SUBSET AllRows]
    BY <1>1, <1>7 DEF IInv, Shaped
  <2> QED
    BY <1>2, <1>3, <2>1 DEF IInv, Shaped
<1>9. Keyed'
  <2>1. Rows' \subseteq Rows \cup {NewRow(c, i)}
    BY <1>1, <1>2 DEF Rows, IInv, Shaped
  <2>2. \A r \in Rows : r.key # NewRow(c, i).key
    BY <1>1 DEF Fits, NewRow
  <2> QED
    BY <2>1, <2>2 DEF IInv, Keyed
<1>10. ASSUME NEW d \in Callers PROVE Open(d)'
  <2>1. CASE d # c
    <3>1. inserted'[d] = inserted[d]
      BY <2>1, <1>1 DEF IInv, Shaped
    <3> QED
      BY <3>1, <1>2, <1>3 DEF IInv, Open
  <2>2. CASE d = c
    <3>1. inserted'[c] = inserted[c] \cup {NewRow(c, i)}
      BY <1>1 DEF IInv, Shaped
    <3> QED
      BY <2>2, <3>1, <1>2, <1>3, <1>5, <1>7 DEF IInv, Open
  <2> QED
    BY <2>1, <2>2
<1>11. ASSUME NEW d \in Callers PROVE Reported(d)' /\ Whole(d)'
  BY <1>2, <1>3, <1>4 DEF IInv, Reported, Whole
<1> QED
  BY <1>8, <1>9, <1>10, <1>11 DEF IInv

(* A transaction that is left without a commit: refused or interrupted.    *)
LEMMA RaiseStep ==
  ASSUME IInv, NEW c \in Callers, Raise(c), UNCHANGED <<result, db, attempts>>
  PROVE  IInv'
<1> USE DEF Raise
<1>1. AllRows' = AllRows /\ \A d : Commands(d)' = Commands(d) /\ \A n : SoundRows(d, n)' = SoundRows(d, n)
  BY CommandsStay
<1>2. \A d, n : RowsOf(d, n)' = RowsOf(d, n)
  BY RowsOfStay
<1>3. Shaped'
  <2>1. pc' \in [Callers -> Points] /\ inserted' \in [Callers -> SUBSET AllRows]
    BY DEF IInv, Shaped, Points
  <2>2. DOMAIN report' = Callers
    BY DEF IInv, Shaped
  <2> QED
    BY <1>1, <2>1, <2>2 DEF IInv, Shaped
<1>4. Keyed'
  <2>1. Rows' \subseteq Rows
    BY DEF Rows, IInv, Shaped
  <2> QED
    BY <2>1, KeyedWithFewer DEF IInv
<1>5. ASSUME NEW d \in Callers PROVE Open(d)' /\ Reported(d)' /\ Whole(d)'
  <2>1. Whole(d)'
    BY <1>1, <1>2 DEF IInv, Whole
  <2>2. Open(d)'
    BY <1>1 DEF IInv, Shaped, Open
  <2>3. Reported(d)'
    BY <1>1, <1>2 DEF IInv, Shaped, Reported
  <2> QED
    BY <2>1, <2>2, <2>3
<1> QED
  BY <1>3, <1>4, <1>5 DEF IInv

(* What a commit does to the database.                                     *)
LEMMA CommittedRows ==
  ASSUME IInv, NEW c \in Callers, Inserted(c), db' = db \cup inserted[c], UNCHANGED <<result, attempts>>
  PROVE  /\ RowsOf(c, attempts[c])' = Commands(c)
         /\ \A d \in Callers, n \in 0..MaxAttempts :
              d # c \/ n # attempts[c] => RowsOf(d, n)' = RowsOf(d, n)
         /\ \A d \in Callers \ {c} : RowsOf(d, attempts[d])' = RowsOf(d, attempts[d])
<1>1. \A r \in inserted[c] : r.of[1] = c /\ r.by = attempts[c]
  BY DEF IInv, Open, SoundRows, SoundRow
<1>2. RowsOf(c, attempts[c])' = RowsOf(c, attempts[c]) \cup Done(c)
  BY <1>1 DEF RowsOf, Done
<1>3. RowsOf(c, attempts[c])' = Commands(c)
  BY <1>2 DEF Inserted, IInv, Whole, Shaped
<1>4. ASSUME NEW d \in Callers, NEW n \in 0..MaxAttempts, d # c \/ n # attempts[c]
      PROVE  RowsOf(d, n)' = RowsOf(d, n)
  BY <1>1, <1>4 DEF RowsOf
<1>5. ASSUME NEW d \in Callers \ {c} PROVE RowsOf(d, attempts[d])' = RowsOf(d, attempts[d])
  BY <1>1 DEF RowsOf
<1> QED
  BY <1>3, <1>4, <1>5

(* So every attempt still leaves all rows or none.                         *)
LEMMA CommittedWhole ==
  ASSUME IInv, NEW c \in Callers, Inserted(c), db' = db \cup inserted[c], UNCHANGED <<result, attempts>>
  PROVE  \A d \in Callers : Whole(d)'
<1> SUFFICES ASSUME NEW d \in Callers, NEW n \in 0..MaxAttempts
             PROVE  RowsOf(d, n)' \in {{}, Commands(d)}
  BY CommandsStay DEF Whole
<1>1. CASE d = c /\ n = attempts[c]
  <2>1. RowsOf(c, attempts[c])' = RowsOf(d, n)'
    BY <1>1 DEF RowsOf
  <2> QED
    BY <1>1, <2>1, CommittedRows
<1>2. CASE d # c \/ n # attempts[c]
  BY <1>2, CommittedRows DEF IInv, Whole
<1> QED
  BY <1>1, <1>2

LEMMA CommittedKeys ==
  ASSUME IInv, NEW c \in Callers, db' = db \cup inserted[c], result' = result,
         inserted' = [inserted EXCEPT ![c] = {}]
  PROVE  Keyed' /\ db' \subseteq AllRows'
<1>1. Rows' \subseteq Rows
  BY DEF Rows, IInv, Shaped
<1>2. AllRows' = AllRows
  BY CommandsStay
<1>3. db' \subseteq AllRows
  BY DEF IInv, Shaped
<1> QED
  BY <1>1, <1>2, <1>3, KeyedWithFewer DEF IInv

LEMMA CommitStep ==
  ASSUME IInv, NEW c \in Callers, Commit(c)
  PROVE  IInv'
<1> USE DEF Commit
<1>1. AllRows' = AllRows /\ \A d : Commands(d)' = Commands(d) /\ \A n : SoundRows(d, n)' = SoundRows(d, n)
  BY CommandsStay
<1>2. /\ RowsOf(c, attempts[c])' = Commands(c)
      /\ \A d \in Callers \ {c} : RowsOf(d, attempts[d])' = RowsOf(d, attempts[d])
  BY CommittedRows
<1>3. Keyed' /\ db' \subseteq AllRows'
  BY CommittedKeys
<1>4. Shaped'
  <2>1. pc' \in [Callers -> Points] /\ inserted' \in [Callers -> SUBSET AllRows]
    BY DEF IInv, Shaped, Points
  <2>2. DOMAIN report' = Callers
    BY DEF IInv, Shaped
  <2> QED
    BY <1>1, <1>3, <2>1, <2>2 DEF IInv, Shaped
<1>5. ASSUME NEW d \in Callers PROVE Open(d)' /\ Reported(d)'
  <2>1. CASE d = c
    <3>1. pc'[c] = "reported" /\ inserted'[c] = {} /\ report'[c] = Cardinality(Commands(c))
      BY DEF IInv, Shaped
    <3> QED
      BY <2>1, <3>1, <1>1, <1>2 DEF Open, Reported
  <2>2. CASE d # c
    <3>1. pc'[d] = pc[d] /\ inserted'[d] = inserted[d] /\ report'[d] = report[d]
      BY <2>2 DEF IInv, Shaped
    <3> QED
      BY <2>2, <3>1, <1>1, <1>2 DEF IInv, Open, Reported
  <2> QED
    BY <2>1, <2>2
<1>6. \A d \in Callers : Whole(d)'
  BY CommittedWhole
<1> QED
  BY <1>3, <1>4, <1>5, <1>6 DEF IInv

LEMMA CommitUnansweredStep ==
  ASSUME IInv, NEW c \in Callers, CommitUnanswered(c)
  PROVE  IInv'
<1> USE DEF CommitUnanswered, Raise
<1>1. AllRows' = AllRows /\ \A d : Commands(d)' = Commands(d) /\ \A n : SoundRows(d, n)' = SoundRows(d, n)
  BY CommandsStay
<1>2. /\ RowsOf(c, attempts[c])' = Commands(c)
      /\ \A d \in Callers \ {c} : RowsOf(d, attempts[d])' = RowsOf(d, attempts[d])
  BY CommittedRows
<1>3. Keyed' /\ db' \subseteq AllRows'
  BY CommittedKeys
<1>4. Shaped'
  <2>1. pc' \in [Callers -> Points] /\ inserted' \in [Callers -> SUBSET AllRows]
    BY DEF IInv, Shaped, Points
  <2>2. DOMAIN report' = Callers
    BY DEF IInv, Shaped
  <2> QED
    BY <1>1, <1>3, <2>1, <2>2 DEF IInv, Shaped
<1>5. ASSUME NEW d \in Callers PROVE Open(d)' /\ Reported(d)'
  <2>1. CASE d = c
    <3>1. pc'[c] = "raised" /\ inserted'[c] = {} /\ report'[c] = 0
      BY DEF IInv, Shaped
    <3> QED
      BY <2>1, <3>1, <1>1, <1>2 DEF Open, Reported
  <2>2. CASE d # c
    <3>1. pc'[d] = pc[d] /\ inserted'[d] = inserted[d] /\ report'[d] = report[d]
      BY <2>2 DEF IInv, Shaped
    <3> QED
      BY <2>2, <3>1, <1>1, <1>2 DEF IInv, Open, Reported
  <2> QED
    BY <2>1, <2>2
<1>6. \A d \in Callers : Whole(d)'
  BY CommittedWhole
<1> QED
  BY <1>3, <1>4, <1>5, <1>6 DEF IInv

LEMMA StutterStep ==
  ASSUME IInv, UNCHANGED vars
  PROVE  IInv'
<1> USE DEF vars
<1>1. AllRows' = AllRows /\ \A d : Commands(d)' = Commands(d) /\ \A n : SoundRows(d, n)' = SoundRows(d, n)
  BY CommandsStay
<1>2. \A d, n : RowsOf(d, n)' = RowsOf(d, n)
  BY RowsOfStay
<1>3. Rows' = Rows
  BY DEF Rows
<1>4. Shaped' /\ Keyed'
  BY <1>1, <1>3 DEF IInv, Shaped, Keyed
<1>5. ASSUME NEW c \in Callers PROVE Open(c)' /\ Reported(c)' /\ Whole(c)'
  BY <1>1, <1>2 DEF IInv, Open, Reported, Whole
<1> QED
  BY <1>4, <1>5 DEF IInv

LEMMA NextPreserves == IInv /\ [Next]_vars => IInv'
<1> SUFFICES ASSUME IInv, [Next]_vars PROVE IInv'
  OBVIOUS
<1>1. ASSUME NEW c \in Callers, Begin(c) PROVE IInv'
  BY <1>1, BeginStep
<1>2. ASSUME NEW c \in Callers, Insert(c) PROVE IInv'
  BY <1>2, InsertStep
<1>3. ASSUME NEW c \in Callers, Refuse(c) \/ Interrupt(c) \/ CommitFails(c) PROVE IInv'
  <2>1. Raise(c) /\ UNCHANGED <<result, db, attempts>>
    BY <1>3 DEF Refuse, Interrupt, CommitFails
  <2> QED
    BY <2>1, RaiseStep
<1>4. ASSUME NEW c \in Callers, Commit(c) PROVE IInv'
  BY <1>4, CommitStep
<1>5. ASSUME NEW c \in Callers, CommitUnanswered(c) PROVE IInv'
  BY <1>5, CommitUnansweredStep
<1>6. CASE UNCHANGED vars
  BY <1>6, StutterStep
<1> QED
  BY <1>1, <1>2, <1>3, <1>4, <1>5, <1>6 DEF Next

(* For every number of callers, whatever their results and however often   *)
(* they try: an attempt leaves all rows of its result or none, a report    *)
(* names rows that are there, no key is there twice, and a result is there *)
(* twice only if it leaves all its keys to the database.                   *)
THEOREM MaterializedOnce == Spec => []RowsAreMaterializedOnce
<1>1. Init => IInv
  BY InitEstablishes
<1>2. IInv /\ [Next]_vars => IInv'
  BY NextPreserves
<1>3. IInv => RowsAreMaterializedOnce
  BY InvariantImplies
<1> QED
  BY <1>1, <1>2, <1>3, PTL DEF Spec

-----------------------------------------------------------------------------
(* Compatibility reports and migration plans.                              *)
Names == Migration!Range(Migration!Requirements)
Known == [Names -> Migration!Locals]

(* What a caller knew is still known.                                      *)
Extends(more, known) == \A n \in Names : known[n] # Migration!Unknown => more[n] = known[n]

ReportOf(known) == [c \in Migration!Capabilities |-> Migration!Determine(subject, known, c)]

MInv ==
  /\ subject \in Subjects /\ local \in Known
  /\ capabilities = <<>> \/ \E known \in Known : Extends(local, known) /\ capabilities = ReportOf(known)
  /\ migration = Migration!NoPlan \/ (migration.source = subject /\ Migration!WellFormed(migration))
  /\ \/ submitted = <<>>
     \/ migration # Migration!NoPlan /\ \E d \in Subjects : submitted = <<d, Migration!Accepts(migration, d)>>

-----------------------------------------------------------------------------
LEMMA MigrationCounts ==
  ASSUME NEW S PROVE Migration!Cardinality(S) = Cardinality(S)
BY DEF Migration!Cardinality, Cardinality

(* The table of rules.                                                     *)
LEMMA NamesAreRequirements ==
  Migration!Core \subseteq Names /\ Migration!Suite \subseteq Names
    /\ Migration!Matrix \subseteq Names /\ Migration!Pack \subseteq Names
<1>1. /\ Migration!Requirements[1] \in Names /\ Migration!Requirements[2] \in Names
           /\ Migration!Requirements[3] \in Names
      /\ Migration!Requirements[4] \in Names /\ Migration!Requirements[5] \in Names
           /\ Migration!Requirements[6] \in Names
      /\ Migration!Requirements[7] \in Names /\ Migration!Requirements[8] \in Names
           /\ Migration!Requirements[9] \in Names
  BY DEF Names, Migration!Range, Migration!Requirements
<1> QED
  BY <1>1 DEF Migration!Requirements, Migration!Core, Migration!Suite, Migration!Matrix, Migration!Pack

Sound(rule) ==
  /\ rule["EXECUTABLE"] \subseteq rule["REPLAYABLE"] /\ rule["REPLAYABLE"] \subseteq Names
  /\ rule["EXECUTABLE"] = {} =>
       rule["REPLAYABLE"] = {} /\ rule.whyNot \in Migration!Reasons \ {"supported"}

LEMMA RulesAreSound ==
  ASSUME NEW rule \in Migration!Rules
  PROVE  Sound(rule)
<1>1. ASSUME NEW k, NEW s, NEW m, NEW e, NEW r, NEW w, e \subseteq r, r \subseteq Names,
             e = {} => r = {} /\ w \in Migration!Reasons \ {"supported"},
             rule = Migration!Rule(k, s, m, e, r, w)
      PROVE  Sound(rule)
  <2>1. rule["EXECUTABLE"] = e /\ rule["REPLAYABLE"] = r /\ rule.whyNot = w
    BY <1>1 DEF Migration!Rule
  <2> QED
    BY <1>1, <2>1 DEF Sound
<1>2. ASSUME NEW k, NEW s, NEW m, NEW w \in Migration!Reasons \ {"supported"}, rule =
               Migration!Never(k, s, m, w)
      PROVE  Sound(rule)
  BY <1>1, <1>2 DEF Migration!Never
<1>3. /\ "source-bytes" \in Migration!Core \ {"scenario-hash"} /\ Migration!Core # {}
           /\ Migration!Suite # {} /\ Migration!Matrix # {} /\ Migration!Pack # {}
      /\ Migration!Core \ {"scenario-hash"} \subseteq Migration!Core
  BY DEF Migration!Core, Migration!Suite, Migration!Matrix, Migration!Pack
<1>4. {Migration!Legacy, "batch-record-not-execution-state", "assertion-execution-not-implied",
       "child-execution-not-implied", "execution-not-implied-by-readability"}
        \subseteq Migration!Reasons \ {"supported"}
  BY DEF Migration!Reasons, Migration!Legacy
<1>5. \/ \E k, s, m : \E w \in Migration!Reasons \ {"supported"} : rule = Migration!Never(k, s, m, w)
      \/ \E k, s, m : rule = Migration!Rule(k, s, m, Migration!Core \ {"scenario-hash"}, Migration!Core, "")
      \/ \E k, s, m : \E e \in {Migration!Core, Migration!Suite, Migration!Matrix, Migration!Pack} : rule = Migration!Rule(k, s, m, e, e, "")
  BY <1>4 DEF Migration!Rules
<1>6. CASE \E k, s, m : \E w \in Migration!Reasons \ {"supported"} : rule = Migration!Never(k, s, m, w)
  BY <1>2, <1>6
<1>7. CASE \E k, s, m : rule = Migration!Rule(k, s, m, Migration!Core \ {"scenario-hash"}, Migration!Core, "")
  <2>1. PICK k, s, m : rule = Migration!Rule(k, s, m, Migration!Core \ {"scenario-hash"}, Migration!Core, "")
    BY <1>7
  <2> QED
    BY <1>1, <1>3, <2>1, NamesAreRequirements
<1>8. CASE \E k, s, m : \E e \in {Migration!Core, Migration!Suite, Migration!Matrix, Migration!Pack} : rule = Migration!Rule(k, s, m, e, e, "")
  <2>1. PICK k, s, m : \E e \in {Migration!Core, Migration!Suite, Migration!Matrix, Migration!Pack} : rule = Migration!Rule(k, s, m, e, e, "")
    BY <1>8
  <2>2. PICK e \in {Migration!Core, Migration!Suite, Migration!Matrix, Migration!Pack} : rule =
          Migration!Rule(k, s, m, e, e, "")
    BY <2>1
  <2>3. e \subseteq Names /\ e # {}
    BY <1>3, NamesAreRequirements
  <2> QED
    BY <1>1, <2>2, <2>3
<1> QED
  BY <1>5, <1>6, <1>7, <1>8

(* _required answers that all is there exactly if it is.                   *)
LEMMA RequiredSupports ==
  ASSUME NEW known \in Known, NEW names \in SUBSET Names
  PROVE  /\ Migration!Required(known, names).supported <=> \A n \in names : known[n] = Migration!Same
         /\ Migration!Required(known, names).supported <=> Migration!Required(known, names).reason = "supported"
         /\ Migration!Required(known, names).reason \in Migration!Reasons
         /\ Migration!Required(known, names).requirements = names
<1> DEFINE Having(value) ==
             {i \in DOMAIN Migration!Requirements : Migration!Requirements[i] \in names /\ known[Migration!Requirements[i]] = value}
<1>1. \A n \in names : \E i \in DOMAIN Migration!Requirements : Migration!Requirements[i] = n
  BY DEF Names, Migration!Range
<1>2. \A n \in names : known[n] \in {Migration!Unknown, Migration!Same, Migration!Other}
  BY DEF Known, Migration!Locals
<1>3. Migration!Unknown # Migration!Same /\ Migration!Other # Migration!Same
  BY DEF Migration!Unknown, Migration!Same, Migration!Other
<1>4. (Having(Migration!Unknown) = {} /\ Having(Migration!Other) = {}) <=> \A n \in names : known[n] = Migration!Same
  BY <1>1, <1>2, <1>3
<1>5. Migration!Required(known, names) =
        IF Having(Migration!Unknown) # {} THEN Migration!Row(FALSE, "missing-required-coordinate", names)
        ELSE IF Having(Migration!Other) # {} THEN Migration!Row(FALSE, Migration!Mismatch(Migration!Requirements[Migration!Min(Having(Migration!Other))]), names)
        ELSE Migration!Row(TRUE, "supported", names)
  BY DEF Migration!Required
<1>6. \A n : Migration!Mismatch(n) \in Migration!Reasons \ {"supported"}
  BY DEF Migration!Mismatch, Migration!Reasons
<1>7. "missing-required-coordinate" \in Migration!Reasons \ {"supported"} /\ "supported" \in Migration!Reasons
  BY DEF Migration!Reasons
<1> HIDE DEF Having
<1>8. CASE Having(Migration!Unknown) # {}
  BY <1>4, <1>5, <1>7, <1>8 DEF Migration!Row
<1>9. CASE Having(Migration!Unknown) = {} /\ Having(Migration!Other) # {}
  BY <1>4, <1>5, <1>6, <1>9 DEF Migration!Row
<1>10. CASE Having(Migration!Unknown) = {} /\ Having(Migration!Other) = {}
  BY <1>4, <1>5, <1>7, <1>10 DEF Migration!Row
<1> QED
  BY <1>8, <1>9, <1>10

-----------------------------------------------------------------------------
(* What _rule_for chooses, and a row of a report.                          *)
ChosenRule == CHOOSE r \in Migration!RulesFor(subject) : TRUE

LEMMA ChosenIsSound ==
  ASSUME Migration!RulesFor(subject) # {}
  PROVE  ChosenRule \in Migration!Rules /\ Sound(ChosenRule)
<1>1. ChosenRule \in Migration!RulesFor(subject)
  BY DEF ChosenRule
<1> QED
  BY <1>1, RulesAreSound DEF Migration!RulesFor

LEMMA RowOfReport ==
  ASSUME NEW known \in Known, NEW c \in Migration!Capabilities
  PROVE  LET row == Migration!Determine(subject, known, c)
             executes == c \in {"EXECUTABLE", "REPLAYABLE"}
         IN /\ row.reason \in Migration!Reasons
            /\ row.supported <=> row.reason = "supported"
            /\ row.supported => Migration!RulesFor(subject) # {}
            /\ Migration!RulesFor(subject) # {} =>
                 /\ c \in {"READABLE", "INSPECTABLE", "DIFFABLE"} => row.supported
                 /\ c = "MIGRATABLE" => (row.supported <=> Migration!Planned(Migration!PlanOf(subject, Migration!Container)))
                 /\ executes /\ ChosenRule[c] = {} => ~row.supported
                 /\ executes /\ ChosenRule[c] # {} =>
                      /\ row.requirements = ChosenRule[c]
                      /\ row.supported <=> \A n \in ChosenRule[c] : known[n] = Migration!Same
<1> DEFINE reads == {"READABLE", "INSPECTABLE", "DIFFABLE"}
<1>1. {"supported", "unknown-version", "unsupported-schema", "child-execution-not-implied",
       "no-lossless-migration-path"} \subseteq Migration!Reasons
  BY DEF Migration!Reasons
<1>2. c \in reads \/ c \in {"EXECUTABLE", "REPLAYABLE"} \/ c = "MIGRATABLE"
  BY DEF Migration!Capabilities
<1>3. CASE Migration!RulesFor(subject) = {}
  <2>1. Migration!Determine(subject, known, c) = Migration!Row(FALSE, Migration!AbsentReason(subject), {})
    BY <1>3 DEF Migration!Determine
  <2>2. Migration!AbsentReason(subject) \in {"unknown-version", "unsupported-schema"}
    BY DEF Migration!AbsentReason
  <2> QED
    BY <1>1, <1>3, <2>1, <2>2 DEF Migration!Row
<1>4. CASE Migration!RulesFor(subject) # {} /\ c \in reads
  <2>1. Migration!Determine(subject, known, c) = Migration!Row(TRUE, "supported", {})
    BY <1>4 DEF Migration!Determine, Migration!Supported
  <2> QED
    BY <1>1, <1>4, <2>1 DEF Migration!Row
<1>5. CASE Migration!RulesFor(subject) # {} /\ c \in {"EXECUTABLE", "REPLAYABLE"}
  <2>1. Migration!Determine(subject, known, c) =
          IF ChosenRule[c] # {} THEN Migration!Required(known, ChosenRule[c])
          ELSE Migration!Row(FALSE, Migration!WhyNot(ChosenRule, c), {})
    BY <1>5 DEF Migration!Determine, ChosenRule
  <2>2. Sound(ChosenRule)
    BY <1>5, ChosenIsSound
  <2>3. CASE ChosenRule[c] # {}
    <3>1. ChosenRule[c] \in SUBSET Names
      BY <1>5, <2>2 DEF Sound
    <3> QED
      BY <1>5, <2>1, <2>3, <3>1, RequiredSupports
  <2>4. CASE ChosenRule[c] = {}
    <3>1. Migration!WhyNot(ChosenRule, c) \in Migration!Reasons \ {"supported"}
      <4>1. ChosenRule.whyNot \in Migration!Reasons \ {"supported"} \/ c = "REPLAYABLE"
        BY <1>5, <2>2, <2>4 DEF Sound
      <4>2. c = "REPLAYABLE" => ChosenRule["EXECUTABLE"] = {}
        BY <2>2, <2>4 DEF Sound
      <4>3. ChosenRule.whyNot \in Migration!Reasons \ {"supported"}
        BY <2>2, <4>1, <4>2 DEF Sound
      <4> QED
        BY <1>1, <4>3 DEF Migration!WhyNot
    <3> QED
      BY <1>5, <2>1, <2>4, <3>1 DEF Migration!Row
  <2> QED
    BY <2>3, <2>4
<1>6. CASE Migration!RulesFor(subject) # {} /\ c = "MIGRATABLE"
  <2>1. Migration!Determine(subject, known, c) =
          IF Migration!Planned(Migration!PlanOf(subject, Migration!Container)) THEN Migration!Row(TRUE, "supported", {})
          ELSE Migration!Row(FALSE, "no-lossless-migration-path", {})
    BY <1>6 DEF Migration!Determine, Migration!Supported
  <2> QED
    BY <1>1, <1>6, <2>1 DEF Migration!Row
<1> QED
  BY <1>2, <1>3, <1>4, <1>5, <1>6

-----------------------------------------------------------------------------
(* The table of routes: what is planned is accepted.                       *)
LEMMA RoutesAreKnown ==
  ASSUME NEW route \in Migration!Routes
  PROVE  \E id \in DOMAIN Migration!Transformations :
           /\ Migration!Transformations[id] = <<route.subject.kind, route.subject.schema>>
           /\ route.target = Migration!Container
           /\ route.steps = <<Migration!Wrapper(route.subject.schema, id)>>
           /\ route.subject.schema # Migration!Container
<1> DEFINE Table ==
             {<<"result", "scenario.result/1", "wrap-v1-result">>,
              <<"manifest", "scenario.manifest/1", "wrap-v1-manifest">>,
              <<"suite", "suite.manifest/1", "wrap-v2-suite">>,
              <<"composition", "composition.modules/1", "wrap-v2-composition">>,
              <<"matrix", "suite.matrix/1", "wrap-v2-matrix">>,
              <<"batch", "suite.batch/1", "wrap-v2-batch">>}
<1>1. PICK t \in Table : \E m : route = Migration!Route(t[1], t[2], m, t[3])
  BY DEF Migration!Routes
<1>2. PICK m : route = Migration!Route(t[1], t[2], m, t[3])
  BY <1>1
<1>3. route.subject = Migration!Subject(t[1], t[2], m) /\ route.target = Migration!Container
      /\ route.steps = <<Migration!Wrapper(t[2], t[3])>>
  BY <1>2 DEF Migration!Route
<1>4. route.subject.kind = t[1] /\ route.subject.schema = t[2]
  BY <1>3 DEF Migration!Subject
<1>5. t[3] \in DOMAIN Migration!Transformations
  <2>1. route.steps[1].id = t[3]
    BY <1>3 DEF Migration!Wrapper
  <2> QED
    BY <2>1 DEF Migration!Transformations
<1>6. Migration!Transformations[t[3]] = <<t[1], t[2]>>
  <2>1. Migration!Transformations[t[3]] =
          CASE t[3] = "wrap-v1-manifest" -> <<"manifest", "scenario.manifest/1">>
            [] t[3] = "wrap-v1-result" -> <<"result", "scenario.result/1">>
            [] t[3] = "wrap-v2-batch" -> <<"batch", "suite.batch/1">>
            [] t[3] = "wrap-v2-composition" -> <<"composition", "composition.modules/1">>
            [] t[3] = "wrap-v2-matrix" -> <<"matrix", "suite.matrix/1">>
            [] t[3] = "wrap-v2-suite" -> <<"suite", "suite.manifest/1">>
    BY <1>5 DEF Migration!Transformations
  <2> QED
    BY <2>1
<1>7. t[2] # Migration!Container
  BY DEF Migration!Container
<1> QED
  BY <1>3, <1>4, <1>5, <1>6, <1>7

(* The executor accepts what the planner plans, for the artifact it was    *)
(* planned for and no other.                                               *)
LEMMA PlannedIsAccepted ==
  ASSUME NEW s, NEW target, NEW d, Migration!Planned(Migration!PlanOf(s, target))
  PROVE  Migration!Accepts(Migration!PlanOf(s, target), d) <=> d = s
<1> DEFINE p == Migration!PlanOf(s, target)
           known == {r \in Migration!Routes : r.subject = s /\ r.target = target}
<1>1. p.source = s /\ p.target = target /\ p.steps = Migration!RouteFor(s, target)
  BY DEF Migration!PlanOf
<1>2. known # {}
  BY <1>1 DEF Migration!Planned, Migration!RouteFor
<1>3. PICK r \in known : p.steps = r.steps
  BY <1>1, <1>2 DEF Migration!RouteFor
<1>4. PICK id \in DOMAIN Migration!Transformations :
        /\ Migration!Transformations[id] = <<s.kind, s.schema>>
        /\ target = Migration!Container
        /\ p.steps = <<Migration!Wrapper(s.schema, id)>>
        /\ s.schema # Migration!Container
  BY <1>3, RoutesAreKnown
<1>5. /\ Len(p.steps) = 1 /\ p.steps[1].id = id
      /\ p.steps[1].source = s.schema /\ p.steps[1].target = Migration!Container
  BY <1>4 DEF Migration!Wrapper
<1>6. Migration!WellFormed(p)
  <2>1. Migration!Last(p.steps).target = p.target
    BY <1>1, <1>4, <1>5 DEF Migration!Last
  <2>2. {p.steps[1].source} \cup {p.steps[i].target : i \in DOMAIN p.steps} = {s.schema, Migration!Container}
    <3>1. DOMAIN p.steps = {1}
      BY <1>4
    <3> QED
      BY <1>5, <3>1
  <2>3. Cardinality({s.schema, Migration!Container}) = 2
    <3>1. {s.schema, Migration!Container} = {s.schema} \cup {Migration!Container}
            /\ Migration!Container \notin {s.schema}
      BY <1>4
    <3>2. IsFiniteSet({s.schema}) /\ Cardinality({s.schema}) = 1
      BY FS_Singleton
    <3>3. Cardinality({s.schema} \cup {Migration!Container}) = Cardinality({s.schema}) + 1
      BY <3>1, <3>2, FS_AddElement
    <3> QED
      BY <3>1, <3>2, <3>3
  <2>4. \A i \in 1..(Len(p.steps) - 1) : p.steps[i].target = p.steps[i + 1].source
    BY <1>5
  <2>5. Migration!Cardinality({p.steps[1].source} \cup {p.steps[i].target : i \in DOMAIN p.steps})
          = Len(p.steps) + 1
    <3>1. Migration!Cardinality({s.schema, Migration!Container}) = 2
      BY <2>3, MigrationCounts
    <3> QED
      BY <1>5, <2>2, <3>1
  <2>6. p.steps[1].source = p.source.schema
    BY <1>1, <1>5
  <2> HIDE DEF p
  <2> QED
    BY <2>1, <2>4, <2>5, <2>6 DEF Migration!WellFormed
<1> QED
  BY <1>1, <1>4, <1>5, <1>6 DEF Migration!Accepts

-----------------------------------------------------------------------------
LEMMA MInvInit ==
  ASSUME Migration!KnowledgeIsWellFormed, Migration!Init
  PROVE  MInv
BY DEF Migration!Init, MInv, Migration!KnowledgeIsWellFormed, Known, Names

LEMMA MInvStep ==
  ASSUME MInv, [Migration!Next]_(Migration!vars)
  PROVE  MInv'
<1> USE DEF MInv
<1>1. ASSUME NEW target \in Targets, Migration!Plan(target) PROVE MInv'
  <2>1. migration'.source = subject /\ Migration!WellFormed(migration')
    BY <1>1 DEF Migration!Plan, Migration!PlanOf
  <2>2. (migration.source = subject /\ Migration!WellFormed(migration))' /\ submitted' = <<>>
    BY <1>1, <2>1 DEF Migration!Plan
  <2>3. UNCHANGED <<subject, local, capabilities>>
    BY <1>1 DEF Migration!Plan
  <2> QED
    BY <2>2, <2>3 DEF ReportOf
<1>2. ASSUME NEW steps \in Built, NEW target \in Targets, Migration!Build(steps, target) PROVE MInv'
  <2>1. migration'.source = subject /\ Migration!WellFormed(migration')
    BY <1>2 DEF Migration!Build
  <2>2. submitted' = <<>> /\ UNCHANGED <<subject, local, capabilities>>
    BY <1>2 DEF Migration!Build
  <2> QED
    BY <2>1, <2>2 DEF ReportOf
<1>3. ASSUME Migration!Report PROVE MInv'
  <2>1. capabilities' = ReportOf(local) /\ UNCHANGED <<subject, local, migration, submitted>>
    BY <1>3 DEF Migration!Report, ReportOf
  <2>2. Extends(local, local)
    BY DEF Extends
  <2>3. (Extends(local, local) /\ capabilities = ReportOf(local))'
    BY <2>1, <2>2 DEF ReportOf
  <2> QED
    BY <2>1, <2>3
<1>4. ASSUME NEW descriptor \in Subjects, Migration!Submit(descriptor) PROVE MInv'
  BY <1>4 DEF Migration!Submit, ReportOf
<1>5. ASSUME NEW n \in Names, NEW value \in Migration!Locals \ {Migration!Unknown},
               Migration!Supply(n, value) PROVE MInv'
  <2>1. local' \in Known /\ Extends(local', local)
          /\ UNCHANGED <<subject, capabilities, migration, submitted>>
    BY <1>5 DEF Migration!Supply, Known, Extends
  <2>2. \A known \in Known : Extends(local, known) => Extends(local', known)
    BY <2>1 DEF Extends
  <2> QED
    BY <2>1, <2>2 DEF ReportOf
<1>6. CASE UNCHANGED Migration!vars
  BY <1>6 DEF Migration!vars, ReportOf
<1> QED
  BY <1>1, <1>2, <1>3, <1>4, <1>5, <1>6 DEF Migration!Next, Names

LEMMA MInvImplies ==
  ASSUME MInv
  PROVE  Migration!PromisesAreKept
<1> USE DEF MInv
<1>1. Migration!TypeOK
  <2>1. ASSUME NEW c \in DOMAIN capabilities
        PROVE  capabilities[c].reason \in Migration!Reasons
                 /\ (capabilities[c].supported <=> capabilities[c].reason = "supported")
    <3>1. PICK known \in Known : capabilities = ReportOf(known)
      BY <2>1
    <3>2. c \in Migration!Capabilities /\ capabilities[c] = Migration!Determine(subject, known, c)
      BY <2>1, <3>1 DEF ReportOf
    <3> QED
      BY <3>2, RowOfReport
  <2>2. submitted = <<>> \/ submitted \in Subjects \X BOOLEAN
    <3>1. \A d : Migration!Accepts(migration, d) \in BOOLEAN
      BY DEF Migration!Accepts
    <3> QED
      BY <3>1
  <2> QED
    BY <2>1, <2>2 DEF Migration!TypeOK, Known, Names
<1>2. Migration!PlannedIsExecuted
  <2> SUFFICES ASSUME submitted # <<>>
               PROVE  IF migration = Migration!PlanOf(subject, migration.target)
                        /\ Migration!Planned(migration)
                      THEN submitted[2] <=> submitted[1] = subject
                      ELSE submitted[2] => submitted[1] = subject
    BY DEF Migration!PlannedIsExecuted
  <2>1. PICK d \in Subjects : submitted = <<d, Migration!Accepts(migration, d)>>
    OBVIOUS
  <2>2. submitted[1] = d /\ (submitted[2] <=> Migration!Accepts(migration, d)) /\ migration.source = subject
    BY <2>1
  <2>3. Migration!Accepts(migration, d) => d = subject
    BY <2>2 DEF Migration!Accepts
  <2> QED
    BY <2>2, <2>3, PlannedIsAccepted
<1>3. Migration!CapabilitiesNest
  <2> SUFFICES ASSUME capabilities # <<>>
               PROVE  /\ capabilities["MIGRATABLE"].supported =>
                           capabilities["READABLE"].supported
                             /\ Migration!Accepts(Migration!PlanOf(subject, Migration!Container), subject)
                      /\ capabilities["REPLAYABLE"].supported =>
                           /\ capabilities["EXECUTABLE"].supported
                           /\ capabilities["EXECUTABLE"].requirements \subseteq capabilities["REPLAYABLE"].requirements
    BY DEF Migration!CapabilitiesNest
  <2>1. PICK known \in Known : capabilities = ReportOf(known)
    OBVIOUS
  <2>2. \A c \in Migration!Capabilities : capabilities[c] = Migration!Determine(subject, known, c)
    BY <2>1 DEF ReportOf
  <2>3. {"READABLE", "MIGRATABLE", "EXECUTABLE", "REPLAYABLE"} \subseteq Migration!Capabilities
    BY DEF Migration!Capabilities
  <2>4. ASSUME capabilities["MIGRATABLE"].supported
        PROVE  capabilities["READABLE"].supported
                 /\ Migration!Accepts(Migration!PlanOf(subject, Migration!Container), subject)
    <3>1. Migration!RulesFor(subject) # {}
            /\ Migration!Planned(Migration!PlanOf(subject, Migration!Container))
      BY <2>2, <2>3, <2>4, RowOfReport
    <3> QED
      BY <2>2, <2>3, <3>1, RowOfReport, PlannedIsAccepted
  <2>5. ASSUME capabilities["REPLAYABLE"].supported
        PROVE  /\ capabilities["EXECUTABLE"].supported
               /\ capabilities["EXECUTABLE"].requirements \subseteq capabilities["REPLAYABLE"].requirements
    <3>1. Migration!RulesFor(subject) # {} /\ ChosenRule["REPLAYABLE"] # {}
      BY <2>2, <2>3, <2>5, RowOfReport
    <3>2. /\ capabilities["REPLAYABLE"].requirements = ChosenRule["REPLAYABLE"]
          /\ \A n \in ChosenRule["REPLAYABLE"] : known[n] = Migration!Same
      BY <2>2, <2>3, <2>5, <3>1, RowOfReport
    <3>3. /\ ChosenRule["EXECUTABLE"] \subseteq ChosenRule["REPLAYABLE"]
          /\ ChosenRule["EXECUTABLE"] # {}
      BY <3>1, ChosenIsSound DEF Sound
    <3> QED
      BY <2>2, <2>3, <3>1, <3>2, <3>3, RowOfReport
  <2> QED
    BY <2>4, <2>5
<1> QED
  BY <1>1, <1>2, <1>3 DEF Migration!PromisesAreKept

LEMMA MInvLosesNothing ==
  ASSUME MInv, Migration!Next
  PROVE  Migration!LosesNothing
<1> SUFFICES ASSUME capabilities # <<>>, capabilities' # <<>>, NEW c \in Migration!Capabilities,
  capabilities[c].supported
             PROVE  capabilities'[c].supported
  BY DEF Migration!LosesNothing
<1>1. CASE capabilities' = capabilities
  BY <1>1
<1>2. CASE Migration!Report
  <2>1. capabilities' = ReportOf(local)
    BY <1>2 DEF Migration!Report, ReportOf
  <2>2. PICK known \in Known : Extends(local, known) /\ capabilities = ReportOf(known)
    BY DEF MInv
  <2>3. capabilities[c] = Migration!Determine(subject, known, c)
          /\ capabilities'[c] = Migration!Determine(subject, local, c)
    BY <2>1, <2>2 DEF ReportOf
  <2>4. Migration!RulesFor(subject) # {} /\ local \in Known
    BY <2>3, RowOfReport DEF MInv
  <2>5. c \in {"READABLE", "INSPECTABLE", "DIFFABLE"} \/ c = "MIGRATABLE"
        \/ c \in {"EXECUTABLE", "REPLAYABLE"}
    BY DEF Migration!Capabilities
  <2>6. CASE c \in {"EXECUTABLE", "REPLAYABLE"}
    <3>1. ChosenRule[c] # {} /\ ChosenRule[c] \subseteq Names
      BY <2>3, <2>4, <2>6, RowOfReport, ChosenIsSound DEF Sound
    <3>2. \A n \in ChosenRule[c] : known[n] = Migration!Same
      BY <2>3, <2>4, <2>6, <3>1, RowOfReport
    <3>3. \A n \in ChosenRule[c] : local[n] = Migration!Same
      BY <2>2, <3>1, <3>2 DEF Extends, Migration!Same, Migration!Unknown
    <3> QED
      BY <2>3, <2>4, <2>6, <3>1, <3>3, RowOfReport
  <2> QED
    BY <2>3, <2>4, <2>5, <2>6, RowOfReport
<1> QED
  BY <1>1, <1>2 DEF Migration!Next, Migration!Plan, Migration!Build, Migration!Submit, Migration!Supply

-----------------------------------------------------------------------------
(* A publication.  The invariant says how far the caller has got at each   *)
(* of its phases (Progress), that the positions it is past gave no cause   *)
(* to stop (Kept, PublicationSound), and, once it leaves the loop, that it *)
(* left it for the first cause there is (Settled).  That cause is the      *)
(* least of Stops: least elements come from the well-foundedness of the    *)
(* naturals.                                                               *)

(* The positions up to the nth that the caller has taken no fault from.    *)
PublicationSound == \A i \in 1..taken : plan[i] \notin Publication!SourceFaults

(* Bundle by bundle: submitted or not, and what has a receipt.             *)
Calls == \A i \in Publication!Bundles : call[i] # "none" <=> i <= taken
Kept ==
  \A i \in 1..Len(receipts) :
    receipts[i] = plan[i] /\ call[i] = "done" /\ ~Publication!Refused(i)
Counted == aggregate = Publication!ReceiptBytes(Len(receipts))

(* How far the caller is in each phase.  Until the iterable is exhausted   *)
(* the window is full whenever the caller turns to a receipt.              *)
Full == taken = Len(receipts) + window
Looping == {"filling", "collecting", "waiting", "refilling"}
Progress ==
  /\ taken <= Len(receipts) + window
  /\ exhausted => taken = Len(plan)
  /\ phase \in Looping => error = "none"
  /\ phase = "filling" => ~exhausted /\ Len(receipts) = 0 /\ held = 1..taken
  /\ phase = "collecting" =>
       (exhausted \/ Full) /\ held = (Len(receipts) + 1)..taken
  /\ phase = "waiting" =>
       /\ exhausted \/ Full
       /\ Publication!Awaited <= taken /\ held = (Len(receipts) + 2)..taken
  /\ phase = "refilling" =>
       /\ exhausted \/ taken = Len(receipts) + window - 1
       /\ Len(receipts) >= 1 /\ held = (Len(receipts) + 1)..taken

(* Out of the loop the outcome is settled, unless it was interrupted.      *)
Settled ==
  phase \notin Looping /\ error # "interrupt" =>
    error = Publication!Expected.error /\ Len(receipts) = Publication!Expected.receipts

(* The pool: no more threads than workers, and it is emptied in two steps. *)
Pool ==
  /\ Cardinality(Publication!In("running")) <= workers
  /\ phase \in {"joining", "ended"} => Publication!In("queued") = {}
  /\ phase = "ended" => Publication!In("running") = {}

PInv ==
  /\ Publication!TypeOK /\ workers <= window
  /\ PublicationSound /\ Calls /\ Kept /\ Counted /\ Progress /\ Settled /\ Pool

-----------------------------------------------------------------------------
(* The size of a set is the same from the instance.                        *)
LEMMA PublicationSizes == \A S : Publication!Cardinality(S) = Cardinality(S)
BY DEF Publication!Cardinality, Cardinality

(* Every nonempty set of naturals has a least element ...                  *)
LEMMA LeastElement ==
  ASSUME NEW T, T \subseteq Nat, T # {}
  PROVE  \E x \in T : \A y \in T : ~ (y < x)
<1> DEFINE R == OpToRel(<, Nat)
<1>1. IsWellFoundedOn(R, Nat)
  BY NatLessThanWellFounded
<1> HIDE DEF R
<1>2. \E x \in T : \A y \in T : ~ (<<y, x>> \in R)
  BY <1>1, WFMin
<1> QED
  BY <1>2 DEF R, OpToRel

(* ... so a set of naturals closed under successor that has 0 has them all.*)
LEMMA SetInduction ==
  ASSUME NEW S, 0 \in S, \A n \in Nat : n \in S => n + 1 \in S
  PROVE  \A n \in Nat : n \in S
<1> SUFFICES ASSUME Nat \ S # {} PROVE FALSE
  OBVIOUS
<1>1. PICK x \in Nat \ S : \A y \in Nat \ S : ~ (y < x)
  BY LeastElement
<1>2. x # 0 /\ x - 1 \in Nat /\ x - 1 < x
  BY <1>1
<1>3. x - 1 \in S
  BY <1>1, <1>2
<1> QED
  BY <1>1, <1>2, <1>3


(* A natural below the others of a set is the Min of the set.              *)
LEMMA MinIs ==
  ASSUME NEW T \in SUBSET Nat, NEW m \in T, \A x \in T : m <= x
  PROVE  Publication!Min(T) = m
<1>1. \A x \in T : (\A y \in T : x =< y) => x = m
  OBVIOUS
<1> QED
  BY <1>1 DEF Publication!Min

(* The recursive definition of the bytes has its equations.                *)
LEMMA BytesDef ==
  ASSUME Publication!OptionsAreWellFormed, NEW p \in Plans
  PROVE  /\ Publication!BytesOf(p)[0] = 0
         /\ \A i \in 1..Len(p) :
              Publication!BytesOf(p)[i]
                = Publication!BytesOf(p)[i - 1] + (IF p[i] \in Publication!Receipted THEN Size[p[i]] ELSE 0)
<1> DEFINE Worth(k) == IF p[k] \in Publication!Receipted THEN Size[p[k]] ELSE 0
           Tallies(f, m) == f = [k \in 0..m |-> IF k = 0 THEN 0
                                             ELSE f[k - 1] + Worth(k)]
           S == {m \in Nat : m <= Len(p) => \E f : Tallies(f, m)}
<1>0. Len(p) \in Nat
  BY LenProperties DEF Publication!OptionsAreWellFormed
<1> HIDE DEF Worth
<1>1. 0 \in S
  <2>1. Tallies([k \in 0..0 |-> 0], 0)
    OBVIOUS
  <2> QED
    BY <2>1
<1>2. ASSUME NEW n \in Nat, n \in S PROVE n + 1 \in S
  <2> SUFFICES ASSUME n + 1 <= Len(p) PROVE \E f : Tallies(f, n + 1)
    OBVIOUS
  <2>1. PICK f : Tallies(f, n)
    BY <1>0, <1>2
  <2> DEFINE g == [k \in 0..(n + 1) |-> IF k = n + 1 THEN f[n] + Worth(n + 1) ELSE f[k]]
  <2>2. ASSUME NEW k \in 0..(n + 1)
        PROVE  g[k] = IF k = 0 THEN 0 ELSE g[k - 1] + Worth(k)
    <3>1. CASE k = n + 1
      BY <3>1
    <3>2. CASE k # n + 1
      <4>1. k \in 0..n
        BY <3>2
      <4>2. f[k] = IF k = 0 THEN 0 ELSE f[k - 1] + Worth(k)
        BY <2>1, <4>1
      <4>3. g[k] = f[k] /\ (k # 0 => g[k - 1] = f[k - 1])
        BY <3>2, <4>1
      <4> QED
        BY <4>2, <4>3
    <3> QED
      BY <3>1, <3>2
  <2>3. Tallies(g, n + 1)
    BY <2>2
  <2> QED
    BY <2>3
<1>3. \E f : Tallies(f, Len(p))
  <2>1. \A n \in Nat : n \in S
    <3> HIDE DEF S
    <3> QED
      BY <1>1, <1>2, SetInduction
  <2> QED
    BY <1>0, <2>1
<1> DEFINE bytes == CHOOSE f : Tallies(f, Len(p))
<1>4. Tallies(bytes, Len(p))
  BY <1>3
<1>5. Publication!BytesOf(p) = bytes
  BY DEF Publication!BytesOf, Worth
<1> HIDE DEF bytes
<1>6. /\ bytes[0] = 0
      /\ \A i \in 1..Len(p) : bytes[i] = bytes[i - 1] + Worth(i)
  BY <1>0, <1>4
<1> QED
  BY <1>5, <1>6 DEF Worth

-----------------------------------------------------------------------------
(* What the options are, for the provers.                                  *)
LEMMA PublicationBasics ==
  ASSUME Publication!OptionsAreWellFormed, Publication!TypeOK
  PROVE  /\ plan \in Plans /\ Len(plan) \in Nat /\ Publication!Bundles = 1..Len(plan)
         /\ window \in Nat /\ window >= 1 /\ limit \in Nat /\ workers \in Nat
         /\ \A i \in Publication!Bundles :
              plan[i] \in Publication!Receipted \cup Publication!Unreceipted \cup Publication!SourceFaults
         /\ taken \in Nat /\ taken <= Len(plan)
         /\ Len(receipts) \in Nat /\ Len(receipts) <= taken
<1>1. plan \in Seq(Publication!Receipted \cup Publication!Unreceipted \cup Publication!SourceFaults)
  BY DEF Publication!TypeOK, Publication!OptionsAreWellFormed
<1>2. /\ Len(plan) \in Nat /\ Publication!Bundles = 1..Len(plan)
      /\ \A i \in Publication!Bundles : plan[i] \in Publication!Receipted \cup Publication!Unreceipted \cup Publication!SourceFaults
  BY <1>1, LenProperties, ElementOfSeq DEF Publication!Bundles
<1>3. Len(receipts) \in Nat
  BY LenProperties DEF Publication!TypeOK
<1>4. workers \in Nat /\ window \in Nat /\ window >= 1 /\ limit \in Nat
  BY DEF Publication!TypeOK, Publication!OptionsAreWellFormed
<1> QED
  BY <1>2, <1>3, <1>4 DEF Publication!TypeOK

(* What lies behind the caller gives no cause to stop: nothing up to m is  *)
(* refused, and the window behind m holds no fault of the iterable.        *)
LEMMA Unstopped ==
  ASSUME Publication!OptionsAreWellFormed, Publication!TypeOK, PublicationSound, NEW m \in Nat,
         \A i \in 1..m : ~Publication!Refused(i),
         m + window <= taken \/ taken = Len(plan)
  PROVE  \A i \in 0..m : i \notin Publication!Stops
<1>1. ASSUME NEW j \in Nat, j <= m + window PROVE ~Publication!Faulty(j)
  <2> SUFFICES ASSUME j \in 1..Len(plan), plan[j] \in Publication!SourceFaults PROVE FALSE
    BY PublicationBasics DEF Publication!Faulty
  <2>1. j \in 1..taken
    BY <1>1, PublicationBasics
  <2> QED
    BY <2>1 DEF PublicationSound
<1>2. ASSUME NEW i \in 0..m, i \in Publication!Stops PROVE FALSE
  <2>1. CASE i = 0
    <3>1. PICK j \in 1..window : Publication!Faulty(j)
      BY <1>2, <2>1 DEF Publication!Stops
    <3> QED
      BY <1>1, <3>1, PublicationBasics
  <2>2. CASE i # 0
    <3>1. Publication!Faulty(i + window)
      BY <1>2, <2>2 DEF Publication!Stops
    <3> QED
      BY <1>1, <3>1, PublicationBasics
  <2> QED
    BY <2>1, <2>2
<1> QED
  BY <1>2

(* The first cause to stop is a fault in the first window ...              *)
LEMMA StopsAtOnce ==
  ASSUME Publication!OptionsAreWellFormed, Publication!TypeOK, PublicationSound,
         taken < Len(plan), taken < window, plan[taken + 1] \in Publication!SourceFaults
  PROVE  Publication!Expected = [receipts |-> 0, error |-> Publication!ErrorOf(plan[taken + 1])]
<1> DEFINE T == {j \in 1..window : Publication!Faulty(j)}
<1>1. taken + 1 \in T
  BY PublicationBasics DEF Publication!Faulty
<1>2. ASSUME NEW j \in T PROVE taken + 1 <= j
  <2>1. j \notin 1..taken
    BY DEF Publication!Faulty, PublicationSound
  <2> QED
    BY <2>1, PublicationBasics
<1>3. Publication!Min(T) = taken + 1
  <2>1. T \in SUBSET Nat
    BY PublicationBasics
  <2> HIDE DEF T
  <2> QED
    BY <1>1, <1>2, <2>1, MinIs
<1>4. 0 \in Publication!Stops
  BY <1>1, PublicationBasics DEF Publication!Stops
<1>5. Publication!Min(Publication!Stops) = 0
  <2>1. Publication!Stops \in SUBSET Nat
    BY DEF Publication!Stops
  <2> QED
    BY <1>4, <2>1, MinIs
<1> HIDE DEF T
<1>6. Publication!Stops # {}
  BY <1>4
<1> QED
  BY <1>3, <1>5, <1>6 DEF Publication!Expected, T

(* ... or the receipt that is refused ...                                  *)
LEMMA StopsAtRefusal ==
  ASSUME Publication!OptionsAreWellFormed, Publication!TypeOK, NEW m \in Nat, m + 1 <= Len(plan),
         \A i \in 0..m : i \notin Publication!Stops, Publication!Refused(m + 1)
  PROVE  Publication!Expected =
           [receipts |-> m,
            error |-> IF plan[m + 1] \in Publication!Unreceipted THEN Publication!ErrorOf(plan[m + 1]) ELSE "bound"]
<1>1. m + 1 \in Publication!Stops
  BY PublicationBasics DEF Publication!Stops
<1>2. Publication!Min(Publication!Stops) = m + 1
  <2>1. Publication!Stops \in SUBSET Nat /\ \A x \in Publication!Stops : m + 1 <= x
    BY PublicationBasics DEF Publication!Stops
  <2> QED
    BY <1>1, <2>1, MinIs
<1>3. Publication!Stops # {} /\ m + 1 # 0 /\ (m + 1) - 1 = m
  BY <1>1
<1> QED
  BY <1>2, <1>3 DEF Publication!Expected

(* ... or the fault the window reaches after the mth receipt ...           *)
LEMMA StopsAtFault ==
  ASSUME Publication!OptionsAreWellFormed, Publication!TypeOK, NEW m \in Nat, m >= 1,
         \A i \in 0..(m - 1) : i \notin Publication!Stops, ~Publication!Refused(m),
         m + window <= Len(plan), plan[m + window] \in Publication!SourceFaults
  PROVE  Publication!Expected = [receipts |-> m, error |-> Publication!ErrorOf(plan[m + window])]
<1>1. m \in Publication!Stops
  BY PublicationBasics DEF Publication!Stops, Publication!Faulty
<1>2. Publication!Min(Publication!Stops) = m
  <2>1. Publication!Stops \in SUBSET Nat /\ \A x \in Publication!Stops : m <= x
    BY PublicationBasics DEF Publication!Stops
  <2> QED
    BY <1>1, <2>1, MinIs
<1>3. Publication!Stops # {} /\ m # 0
  BY <1>1
<1> QED
  BY <1>2, <1>3 DEF Publication!Expected

(* ... or there is none.                                                   *)
LEMMA StopsNowhere ==
  ASSUME Publication!OptionsAreWellFormed, Publication!TypeOK,
           \A i \in 0..Len(plan) : i \notin Publication!Stops
  PROVE  Publication!Expected = [receipts |-> Len(plan), error |-> "none"]
<1>1. Publication!Stops = {}
  BY DEF Publication!Stops
<1> QED
  BY <1>1 DEF Publication!Expected

-----------------------------------------------------------------------------
(* What the options determine stays.                                       *)
LEMMA PublicationFrame ==
  ASSUME UNCHANGED Publication!options
  PROVE  /\ UNCHANGED <<plan, workers, window, limit, Publication!Bundles>>
         /\ \A i : Publication!Refused(i)' <=> Publication!Refused(i)
         /\ Publication!Expected' = Publication!Expected
<1>1. UNCHANGED <<plan, workers, window, limit, Publication!Bundles>>
  BY DEF Publication!options, Publication!Bundles
<1>2. \A i : Publication!Refused(i)' <=> Publication!Refused(i)
  BY <1>1 DEF Publication!Refused, Publication!ReceiptBytes
<1>3. \A i : Publication!Faulty(i)' <=> Publication!Faulty(i)
  BY <1>1 DEF Publication!Faulty
<1>4. Publication!Stops' = Publication!Stops
  BY <1>1, <1>2, <1>3 DEF Publication!Stops
<1>5. Publication!Expected' = Publication!Expected
  BY <1>1, <1>2, <1>3, <1>4 DEF Publication!Expected
<1> QED
  BY <1>1, <1>2, <1>5

(* The calls that run are those that ran, if no call is changed but one    *)
(* that did not run, to something else.                                    *)
LEMMA RunningKept ==
  ASSUME Publication!OptionsAreWellFormed, Publication!TypeOK, UNCHANGED Publication!options, Pool,
         \A i \in Publication!Bundles : call'[i] = "running" => call[i] = "running"
  PROVE  Cardinality(Publication!In("running"))' <= workers'
<1>1. Publication!In("running")' \in SUBSET Publication!In("running")
  BY PublicationFrame DEF Publication!In
<1>2. IsFiniteSet(Publication!In("running"))
  <2>1. IsFiniteSet(1..Len(plan))
    BY PublicationBasics, FS_Interval
  <2> QED
    BY <2>1, PublicationBasics, FS_Subset DEF Publication!In
<1>3. Cardinality(Publication!In("running")') <= Cardinality(Publication!In("running"))
  BY <1>1, <1>2, FS_Subset
<1>4. Cardinality(Publication!In("running")') \in Nat /\ Cardinality(Publication!In("running")) \in Nat
  BY <1>1, <1>2, FS_Subset, FS_CardinalityType
<1> QED
  BY <1>3, <1>4, PublicationFrame, PublicationBasics DEF Pool

LEMMA Errors ==
  ASSUME Publication!OptionsAreWellFormed, Publication!TypeOK, NEW i \in Publication!Bundles,
           plan[i] \notin Publication!Receipted
  PROVE  Publication!ErrorOf(plan[i]) \in {"contract", "bound", "orchestration", "escapes"}
BY PublicationBasics DEF Publication!ErrorOf, Publication!Receipted, Publication!Unreceipted,
  Publication!SourceFaults

(* The invariant says nothing about the future of a stutter.               *)
LEMMA PInvStutter ==
  ASSUME PInv, UNCHANGED Publication!vars
  PROVE  PInv'
<1>1. UNCHANGED <<Publication!options, phase, exhausted, taken, call, held, receipts, aggregate, error>>
  BY DEF Publication!vars
<1>2. \A s : Publication!In(s)' = Publication!In(s)
  BY <1>1, PublicationFrame DEF Publication!In
<1> QED
  BY <1>1, <1>2, PublicationFrame
     DEF PInv, Publication!TypeOK, PublicationSound, Calls, Kept, Counted, Progress, Settled, Pool,
         Publication!ReceiptBytes, Full, Publication!Awaited

LEMMA PInvInit ==
  ASSUME Publication!OptionsAreWellFormed, Publication!Init
  PROVE  PInv
<1>1. plan \in Seq(Publication!Receipted \cup Publication!Unreceipted \cup Publication!SourceFaults)
  BY DEF Publication!Init, Publication!OptionsAreWellFormed
<1>2. Len(plan) \in Nat /\ Len(receipts) = 0 /\ receipts \in Seq(Publication!Receipted)
  BY <1>1, LenProperties DEF Publication!Init
<1>3. Publication!TypeOK
  <2>1. workers \in 1..MaxWorkers /\ window \in 1..MaxWindow
    BY DEF Publication!Init, Publication!AcceptedOptions, Publication!OptionsAreWellFormed
  <2>2. taken \in 0..Len(plan) /\ held \subseteq 1..taken /\ Len(receipts) <= taken
    BY <1>2 DEF Publication!Init
  <2>3. aggregate \in Nat /\ aggregate <= limit
    BY DEF Publication!Init, Publication!OptionsAreWellFormed
  <2> QED
    BY <1>2, <2>1, <2>2, <2>3 DEF Publication!Init, Publication!TypeOK
<1>4. Publication!In("running") = {}
  BY DEF Publication!Init, Publication!In, Publication!Bundles
<1>5. Pool
  <2>1. Cardinality(Publication!In("running")) = 0
    BY <1>4, FS_EmptySet
  <2> QED
    BY <1>3, <2>1, PublicationBasics DEF Pool, Publication!Init
<1>6. Counted
  BY <1>2, BytesDef DEF Counted, Publication!Init, Publication!ReceiptBytes
<1>7. Progress /\ Settled
  BY <1>2, <1>3, PublicationBasics DEF Progress, Settled, Looping, Publication!Init, Full
<1>8. PublicationSound /\ Calls /\ Kept
  BY <1>2, <1>3, PublicationBasics DEF PublicationSound, Calls, Kept, Publication!Init
<1> QED
  BY <1>3, <1>5, <1>6, <1>7, <1>8, PublicationBasics DEF PInv, Publication!Init, Publication!AcceptedOptions

(* submit_one, in the first window and after a receipt.                    *)
LEMMA SubmitStep ==
  ASSUME Publication!OptionsAreWellFormed, PInv, UNCHANGED <<Publication!options, receipts, aggregate>>,
         NEW then, Publication!SubmitOne(then),
         \/ phase = "filling" /\ then = "filling" /\ taken < window
         \/ phase = "refilling" /\ then = "collecting"
  PROVE  PInv'
<1> USE DEF PInv
<1> DEFINE r == Len(receipts)
<1>0. /\ Publication!TypeOK /\ taken + 1 \in Nat /\ r \in Nat /\ r <= taken
      /\ UNCHANGED <<Publication!options, plan, workers, window, limit, Publication!Bundles>>
      /\ workers' <= window'
  BY PublicationBasics, PublicationFrame
<1>1. Counted'
  BY <1>0 DEF Counted, Publication!ReceiptBytes
<1>2. CASE exhausted \/ taken = Len(plan)
  <2>1. exhausted' = TRUE /\ phase' = "collecting" /\ UNCHANGED <<taken, call, held, error>>
    BY <1>2 DEF Publication!SubmitOne
  <2>2. Publication!TypeOK' /\ PublicationSound' /\ Calls' /\ Kept'
    BY <1>0, <2>1, PublicationFrame DEF Publication!TypeOK, PublicationSound, Calls, Kept
  <2>3. Progress'
    BY <1>0, <1>2, <2>1 DEF Progress, Looping, Full
  <2>4. Settled'
    BY <2>1 DEF Settled, Looping
  <2>5. Pool'
    BY <1>0, <2>1, RunningKept DEF Pool
  <2> QED
    BY <1>0, <1>1, <2>2, <2>3, <2>4, <2>5
<1>3. CASE ~exhausted /\ taken # Len(plan) /\ plan[taken + 1] \in Publication!SourceFaults
  <2>1. /\ error' = Publication!ErrorOf(plan[taken + 1]) /\ phase' = "cancelling"
        /\ UNCHANGED <<exhausted, taken, call, held>>
    BY <1>3 DEF Publication!SubmitOne, Publication!Raise
  <2>2. taken < Len(plan) /\ taken + 1 \in Publication!Bundles
    BY <1>3, PublicationBasics
  <2>3. error' \in {"contract", "bound", "orchestration", "escapes"}
    BY <1>3, <2>1, <2>2, Errors DEF Publication!Receipted, Publication!SourceFaults
  <2>4. Publication!TypeOK' /\ PublicationSound' /\ Calls' /\ Kept'
    BY <1>0, <2>1, <2>3, PublicationFrame DEF Publication!TypeOK, PublicationSound, Calls, Kept
  <2>5. Progress'
    BY <1>0, <2>1 DEF Progress, Looping
  <2>6. CASE phase = "filling"
    <3>1. taken < window /\ r = 0
      BY <2>6 DEF Progress
    <3>2. Publication!Expected = [receipts |-> 0, error |-> Publication!ErrorOf(plan[taken + 1])]
      BY <1>3, <2>2, <3>1, StopsAtOnce
    <3> QED
      BY <1>0, <1>1, <2>1, <2>4, <2>5, <3>1, <3>2, PublicationFrame, RunningKept
         DEF Settled, Pool
  <2>7. CASE phase = "refilling"
    <3>1. r >= 1 /\ taken + 1 = r + window
      BY <1>0, <1>3, <2>7, PublicationBasics DEF Progress
    <3>2. r - 1 \in Nat /\ (r - 1) + window <= taken
      BY <1>0, <3>1, PublicationBasics
    <3>3. (\A i \in 1..(r - 1) : ~Publication!Refused(i)) /\ ~Publication!Refused(r)
      BY <1>0, <3>1 DEF Kept
    <3>4. \A i \in 0..(r - 1) : i \notin Publication!Stops
      BY <3>2, <3>3, Unstopped
    <3>5. Publication!Expected = [receipts |-> r, error |-> Publication!ErrorOf(plan[taken + 1])]
      <4>1. r + window <= Len(plan) /\ plan[r + window] \in Publication!SourceFaults
        BY <1>0, <1>3, <2>2, <3>1, PublicationBasics
      <4> QED
        BY <1>0, <3>1, <3>3, <3>4, <4>1, StopsAtFault
    <3> QED
      BY <1>0, <1>1, <2>1, <2>4, <2>5, <3>5, PublicationFrame, RunningKept
         DEF Settled, Pool
  <2> QED
    BY <2>6, <2>7
<1>4. CASE ~exhausted /\ taken # Len(plan) /\ plan[taken + 1] \notin Publication!SourceFaults
  <2>1. /\ taken' = taken + 1 /\ phase' = then
        /\ call' = [call EXCEPT ![taken + 1] = "queued"]
        /\ held' = held \cup {taken + 1}
        /\ UNCHANGED <<exhausted, error>>
    BY <1>4 DEF Publication!SubmitOne
  <2>2. taken < Len(plan) /\ taken + 1 \in Publication!Bundles
    BY <1>4, PublicationBasics
  <2>3. /\ call[taken + 1] = "none" /\ call'[taken + 1] = "queued"
        /\ \A i \in Publication!Bundles : i # taken + 1 => call'[i] = call[i]
    BY <1>0, <2>1, <2>2, PublicationBasics DEF Publication!TypeOK, Calls
  <2>4. Publication!TypeOK'
    BY <1>0, <2>1, <2>2 DEF Publication!TypeOK
  <2>5. PublicationSound'
    BY <1>0, <1>4, <2>1, PublicationBasics DEF PublicationSound
  <2>6. Calls'
    BY <1>0, <2>1, <2>2, <2>3, PublicationBasics DEF Calls
  <2>7. Kept'
    <3>1. \A i \in 1..r : i \in Publication!Bundles /\ i # taken + 1
      BY <1>0, PublicationBasics
    <3> QED
      BY <1>0, <2>3, <3>1, PublicationFrame DEF Kept
  <2>8. Progress'
    <3>1. taken' <= r + window /\ error = "none"
      BY <1>0, <1>4, <2>1, <2>2, PublicationBasics DEF Progress, Looping
    <3>2. CASE phase = "filling" /\ then = "filling"
      BY <1>0, <1>4, <2>1, <3>1, <3>2, PublicationBasics DEF Progress, Looping
    <3>3. CASE phase = "refilling" /\ then = "collecting"
      BY <1>0, <1>4, <2>1, <3>1, <3>3, PublicationBasics DEF Progress, Looping, Full
    <3> QED
      BY <3>2, <3>3
  <2>9. Settled'
    BY <2>1 DEF Settled, Looping
  <2>10. Pool'
    BY <1>0, <2>1, <2>3, RunningKept DEF Pool
  <2> QED
    BY <1>0, <1>1, <2>4, <2>5, <2>6, <2>7, <2>8, <2>9, <2>10
<1> QED
  BY <1>2, <1>3, <1>4

LEMMA FillStep ==
  ASSUME Publication!OptionsAreWellFormed, PInv, Publication!Fill
  PROVE  PInv'
<1> USE DEF PInv
<1>0. /\ Publication!TypeOK /\ phase = "filling" /\ Len(receipts) = 0 /\ ~exhausted
      /\ held = 1..taken /\ taken <= window
      /\ UNCHANGED <<Publication!options, plan, workers, window, limit, Publication!Bundles,
           receipts, aggregate>>
  BY PublicationFrame, PublicationBasics DEF Publication!Fill, Progress
<1>1. Cardinality(held) = taken
  BY <1>0, PublicationBasics, FS_Interval
<1>2. CASE Cardinality(held) < window
  BY <1>0, <1>1, <1>2, PublicationSizes, SubmitStep DEF Publication!Fill
<1>3. CASE ~(Cardinality(held) < window)
  <2>1. phase' = "collecting" /\ UNCHANGED <<exhausted, taken, call, held, error>>
    BY <1>3, PublicationSizes DEF Publication!Fill
  <2>2. Publication!TypeOK' /\ PublicationSound' /\ Calls' /\ Kept' /\ Counted'
    BY <1>0, <2>1, PublicationFrame DEF Publication!TypeOK, PublicationSound, Calls, Kept, Counted,
      Publication!ReceiptBytes
  <2>3. Progress'
    BY <1>0, <1>1, <1>3, <2>1, PublicationBasics DEF Progress, Looping, Full
  <2>4. Settled' /\ Pool'
    BY <1>0, <2>1, RunningKept DEF Settled, Looping, Pool
  <2> QED
    BY <1>0, <2>2, <2>3, <2>4
<1> QED
  BY <1>2, <1>3

LEMMA CollectStep ==
  ASSUME Publication!OptionsAreWellFormed, PInv, Publication!Collect
  PROVE  PInv'
<1> USE DEF PInv
<1> DEFINE r == Len(receipts)
<1>0. /\ Publication!TypeOK /\ phase = "collecting" /\ r \in Nat /\ r <= taken
      /\ held = (r + 1)..taken /\ (exhausted \/ Full) /\ error = "none"
      /\ UNCHANGED <<Publication!options, plan, workers, window, limit, Publication!Bundles,
                     exhausted, taken, call, receipts, aggregate>>
  BY PublicationFrame, PublicationBasics DEF Publication!Collect, Progress, Looping
<1>1. PublicationSound' /\ Calls' /\ Kept' /\ Counted'
  BY <1>0, PublicationFrame DEF PublicationSound, Calls, Kept, Counted, Publication!ReceiptBytes
<1>2. CASE held = {}
  <2>1. phase' = "cancelling" /\ UNCHANGED <<held, error>>
    BY <1>0, <1>2 DEF Publication!Collect
  <2>2. r = taken /\ taken = Len(plan)
    <3>1. r = taken
      BY <1>0, <1>2, PublicationBasics
    <3> QED
      BY <1>0, <3>1, PublicationBasics DEF Full, Progress
  <2>3. \A i \in 0..Len(plan) : i \notin Publication!Stops
    BY <2>2, PublicationBasics, Unstopped DEF Kept
  <2>4. Publication!Expected = [receipts |-> r, error |-> "none"]
    BY <2>2, <2>3, StopsNowhere
  <2>5. Publication!TypeOK' /\ Progress'
    BY <1>0, <2>1 DEF Publication!TypeOK, Progress, Looping
  <2>6. Settled' /\ Pool'
    BY <1>0, <2>1, <2>4, PublicationFrame, RunningKept DEF Settled, Pool
  <2> QED
    BY <1>0, <1>1, <2>5, <2>6
<1>3. CASE held # {}
  <2>1. Publication!Awaited \in held
    BY <1>0, <1>3, PublicationBasics DEF Publication!Awaited
  <2>2. held' = held \ {Publication!Awaited} /\ phase' = "waiting" /\ UNCHANGED error
    BY <1>0, <1>3, <2>1 DEF Publication!Collect
  <2>3. Publication!TypeOK'
    BY <1>0, <2>2 DEF Publication!TypeOK
  <2>4. Progress'
    <3>1. held' = (r + 2)..taken /\ r + 1 <= taken
      BY <1>0, <2>1, <2>2, PublicationBasics DEF Publication!Awaited
    <3> QED
      BY <1>0, <2>2, <3>1 DEF Progress, Looping, Full, Publication!Awaited
  <2>5. Settled' /\ Pool'
    BY <1>0, <2>2, RunningKept DEF Settled, Looping, Pool
  <2> QED
    BY <1>0, <1>1, <2>3, <2>4, <2>5
<1> QED
  BY <1>2, <1>3

(* A receipt is taken over, or it is the first that is refused.            *)
LEMMA ReceiveStep ==
  ASSUME Publication!OptionsAreWellFormed, PInv, Publication!Receive
  PROVE  PInv'
<1> USE DEF PInv
<1> DEFINE r == Len(receipts)
           kind == plan[r + 1]
<1>0. /\ Publication!TypeOK /\ phase = "waiting" /\ r \in Nat /\ r + 1 \in Publication!Bundles
      /\ (exhausted \/ Full) /\ r + 1 <= taken /\ held = (r + 2)..taken
      /\ error = "none" /\ call[r + 1] = "done"
      /\ UNCHANGED <<Publication!options, plan, workers, window, limit, Publication!Bundles,
                     exhausted, taken, call, held>>
  BY PublicationFrame, PublicationBasics DEF Publication!Receive, Progress, Looping, Publication!Awaited
<1>1. kind \in Publication!Receipted \cup Publication!Unreceipted
  BY <1>0, PublicationBasics DEF PublicationSound
<1>2. aggregate = Publication!ReceiptBytes(r)
  BY DEF Counted
<1>3. kind \in Publication!Receipted => Publication!ReceiptBytes(r + 1) = aggregate + Size[kind]
  BY <1>0, <1>2, PublicationBasics, BytesDef DEF Publication!ReceiptBytes
<1>4. kind \in Publication!Receipted => Size[kind] \in Nat /\ kind \notin Publication!Unreceipted
  BY DEF Publication!OptionsAreWellFormed, Publication!Receipted, Publication!Unreceipted
<1>5. PublicationSound' /\ Calls'
  BY <1>0 DEF PublicationSound, Calls
<1>6. CASE Publication!Refused(r + 1)
  <2>1. /\ error' = (IF kind \in Publication!Unreceipted THEN Publication!ErrorOf(kind) ELSE "bound")
        /\ phase' = "cancelling" /\ UNCHANGED <<receipts, aggregate>>
    BY <1>0, <1>1, <1>3, <1>4, <1>6 DEF Publication!Receive, Publication!Refused,
      Publication!Raise, Publication!Awaited
  <2>2. error' \in {"contract", "bound", "orchestration", "escapes"}
    BY <1>0, <1>4, <2>1, Errors
  <2>3. r + window <= taken \/ taken = Len(plan)
    BY <1>0, PublicationBasics DEF Full, Progress
  <2>4. \A i \in 0..r : i \notin Publication!Stops
    BY <1>0, <2>3, Unstopped DEF Kept
  <2>5. Publication!Expected = [receipts |-> r, error |-> error']
    BY <1>0, <1>6, <2>1, <2>4, PublicationBasics, StopsAtRefusal
  <2>6. Publication!TypeOK' /\ Progress' /\ Kept' /\ Counted'
    BY <1>0, <2>1, <2>2, PublicationFrame
       DEF Publication!TypeOK, Progress, Looping, Kept, Counted, Publication!ReceiptBytes
  <2>7. Settled' /\ Pool'
    BY <1>0, <2>1, <2>5, PublicationFrame, RunningKept DEF Settled, Pool
  <2> QED
    BY <1>0, <1>5, <2>6, <2>7
<1>7. CASE ~Publication!Refused(r + 1)
  <2>1. kind \in Publication!Receipted
    BY <1>1, <1>7 DEF Publication!Refused
  <2>2. /\ receipts' = Append(receipts, kind) /\ aggregate' = aggregate + Size[kind]
        /\ phase' = "refilling" /\ UNCHANGED error /\ aggregate' <= limit
    <3>1. kind \notin Publication!Unreceipted /\ Size[kind] \in Nat
      BY <1>4, <2>1
    <3>2. ~(aggregate + Size[kind] > limit)
      BY <1>0, <1>3, <1>7, <2>1 DEF Publication!Refused
    <3>3. /\ receipts' = Append(receipts, kind) /\ aggregate' = aggregate + Size[kind]
          /\ phase' = "refilling" /\ UNCHANGED error
      BY <1>0, <3>1, <3>2 DEF Publication!Receive, Publication!Awaited
    <3> QED
      BY <3>1, <3>2, <3>3, PublicationBasics DEF Publication!TypeOK
  <2>3. /\ receipts' \in Seq(Publication!Receipted) /\ Len(receipts') = r + 1
        /\ receipts'[r + 1] = kind /\ \A i \in 1..r : receipts'[i] = receipts[i]
    BY <2>1, <2>2, AppendProperties DEF Publication!TypeOK
  <2>4. Publication!TypeOK'
    <3>1. aggregate' \in Nat
      BY <1>4, <2>1, <2>2 DEF Publication!TypeOK
    <3> QED
      BY <1>0, <2>2, <2>3, <3>1 DEF Publication!TypeOK
  <2>5. Kept'
    <3>1. \A i \in 1..(r + 1) : i \in 1..r \/ i = r + 1
      BY <1>0
    <3> QED
      BY <1>0, <1>7, <2>3, <3>1, PublicationFrame DEF Kept
  <2>6. Counted'
    BY <1>0, <1>3, <2>1, <2>2, <2>3 DEF Counted, Publication!ReceiptBytes
  <2>7. Progress'
    BY <1>0, <2>2, <2>3, PublicationBasics DEF Progress, Looping, Full
  <2>8. Settled' /\ Pool'
    BY <1>0, <2>2, RunningKept DEF Settled, Looping, Pool
  <2> QED
    BY <1>0, <1>5, <2>4, <2>5, <2>6, <2>7, <2>8
<1> QED
  BY <1>6, <1>7

LEMMA RefillStep ==
  ASSUME Publication!OptionsAreWellFormed, PInv, Publication!Refill
  PROVE  PInv'
BY SubmitStep DEF Publication!Refill

LEMMA InterruptStep ==
  ASSUME Publication!OptionsAreWellFormed, PInv, Publication!Interrupt
  PROVE  PInv'
<1> USE DEF PInv
<1>0. /\ Publication!TypeOK /\ phase' = "cancelling" /\ error' = "interrupt"
      /\ UNCHANGED <<Publication!options, plan, workers, window, limit, Publication!Bundles,
                     exhausted, taken, call, held, receipts, aggregate>>
  BY PublicationFrame DEF Publication!Interrupt, Publication!Raise
<1>1. Publication!TypeOK' /\ Progress' /\ Settled'
  BY <1>0 DEF Publication!TypeOK, Progress, Looping, Settled
<1>2. PublicationSound' /\ Calls' /\ Kept' /\ Counted'
  BY <1>0, PublicationFrame DEF PublicationSound, Calls, Kept, Counted, Publication!ReceiptBytes
<1>3. Pool'
  BY <1>0, RunningKept DEF Pool
<1> QED
  BY <1>0, <1>1, <1>2, <1>3

(* Steps that change nothing but calls that are not done, when the loop is *)
(* left or by the threads: what the caller has counted stays true.         *)
LEMMA CallsStep ==
  ASSUME Publication!OptionsAreWellFormed, PInv,
         UNCHANGED <<Publication!options, exhausted, taken, receipts, aggregate, error>>,
         call' \in [1..Len(plan) -> {"none", "queued", "running", "done", "cancelled"}],
         \A j \in Publication!Bundles : /\ call[j] = "done" => call'[j] = "done"
                                        /\ call[j] = "none" <=> call'[j] = "none",
         \/ UNCHANGED <<phase, held>>
         \/ /\ {phase, phase'} \subseteq {"cancelling", "joining", "ended"}
            /\ held' \subseteq held
  PROVE  Pool' => PInv'
<1> USE DEF PInv
<1>0. /\ Publication!TypeOK /\ workers' <= window' /\ Len(receipts) <= taken /\ taken \in Nat
      /\ UNCHANGED <<Publication!options, plan, workers, window, limit, Publication!Bundles>>
  BY PublicationFrame, PublicationBasics
<1>1. Publication!TypeOK'
  BY <1>0 DEF Publication!TypeOK
<1>2. PublicationSound' /\ Counted'
  BY <1>0 DEF PublicationSound, Counted, Publication!ReceiptBytes
<1>3. Calls'
  BY <1>0 DEF Calls
<1>4. Kept'
  <2>1. \A i \in 1..Len(receipts) : i \in Publication!Bundles
    BY <1>0, PublicationBasics
  <2> QED
    BY <1>0, <2>1, PublicationFrame DEF Kept
<1>5. Progress' /\ Settled'
  BY <1>0, PublicationFrame DEF Progress, Settled, Looping, Full, Publication!Awaited
<1> QED
  BY <1>0, <1>1, <1>2, <1>3, <1>4, <1>5

LEMMA CancelStep ==
  ASSUME Publication!OptionsAreWellFormed, PInv, Publication!Cancel
  PROVE  PInv'
<1> USE DEF PInv
<1>0. Publication!TypeOK /\ phase = "cancelling" /\ phase' = "cancelling"
  BY DEF Publication!Cancel
<1>1. held \subseteq Publication!Bundles /\ held \subseteq Nat /\ held # {}
  BY <1>0, PublicationBasics DEF Publication!Cancel, Publication!TypeOK
<1> DEFINE Least(i) == \A j \in held : i <= j
           first == CHOOSE i \in held : Least(i)
<1>2. first \in held
  <2>1. \E i \in held : \A j \in held : ~ (j < i)
    BY <1>1, LeastElement
  <2>2. \E i \in held : Least(i)
    BY <1>1, <2>1
  <2> QED
    BY <2>2
<1>3. /\ held' = held \ {first}
      /\ call' = IF call[first] = "queued" THEN [call EXCEPT ![first] = "cancelled"] ELSE call
      /\ UNCHANGED <<Publication!options, exhausted, taken, receipts, aggregate, error>>
  BY DEF Publication!Cancel
<1> HIDE DEF first
<1>4. /\ call' \in [1..Len(plan) -> {"none", "queued", "running", "done", "cancelled"}]
      /\ \A j \in Publication!Bundles : /\ call[j] = "done" => call'[j] = "done"
                                        /\ call[j] = "none" <=> call'[j] = "none"
                                        /\ call'[j] = "running" => call[j] = "running"
  BY <1>1, <1>2, <1>3, PublicationBasics DEF Publication!TypeOK
<1>5. Pool'
  BY <1>0, <1>3, <1>4, RunningKept DEF Pool
<1> QED
  BY <1>0, <1>3, <1>4, <1>5, CallsStep

LEMMA ShutdownStep ==
  ASSUME Publication!OptionsAreWellFormed, PInv, Publication!Shutdown
  PROVE  PInv'
<1> USE DEF PInv
<1>0. /\ Publication!TypeOK /\ phase = "cancelling" /\ phase' = "joining"
      /\ UNCHANGED <<Publication!options, exhausted, taken, held, receipts, aggregate, error>>
  BY DEF Publication!Shutdown
<1>1. \A j \in Publication!Bundles :
        /\ call[j] \in {"none", "queued", "running", "done", "cancelled"}
        /\ call'[j] = IF call[j] = "queued" THEN "cancelled" ELSE call[j]
  BY <1>0, PublicationBasics DEF Publication!Shutdown, Publication!TypeOK
<1>2. /\ call' \in [1..Len(plan) -> {"none", "queued", "running", "done", "cancelled"}]
      /\ \A j \in Publication!Bundles : /\ call[j] = "done" => call'[j] = "done"
                                        /\ call[j] = "none" <=> call'[j] = "none"
                                        /\ call'[j] = "running" => call[j] = "running"
                                        /\ call'[j] # "queued"
  BY <1>0, <1>1, PublicationBasics DEF Publication!Shutdown
<1>3. Pool'
  <2>1. Publication!In("queued")' = {}
    BY <1>0, <1>2, PublicationFrame DEF Publication!In
  <2> QED
    BY <1>0, <1>2, <2>1, RunningKept DEF Pool
<1> QED
  BY <1>0, <1>2, <1>3, CallsStep

LEMMA JoinStep ==
  ASSUME Publication!OptionsAreWellFormed, PInv, Publication!Join
  PROVE  PInv'
<1> USE DEF PInv
<1>0. /\ Publication!TypeOK /\ phase = "joining" /\ phase' = "ended" /\ Publication!In("running") = {}
      /\ UNCHANGED <<Publication!options, exhausted, taken, call, held, receipts, aggregate, error>>
  BY DEF Publication!Join
<1>1. \A s : Publication!In(s)' = Publication!In(s)
  BY <1>0, PublicationFrame DEF Publication!In
<1>2. Pool'
  BY <1>0, <1>1, PublicationFrame DEF Pool
<1> QED
  BY <1>0, <1>2, CallsStep DEF Publication!TypeOK

(* A thread takes up a call: there was a thread to spare, and the pool was *)
(* not shut down, or the call would have been cancelled.                   *)
LEMMA StartStep ==
  ASSUME Publication!OptionsAreWellFormed, PInv, NEW i \in Publication!Bundles, Publication!Start(i)
  PROVE  PInv'
<1> USE DEF PInv
<1>0. /\ Publication!TypeOK /\ call[i] = "queued" /\ call' = [call EXCEPT ![i] = "running"]
      /\ Cardinality(Publication!In("running")) < workers
      /\ UNCHANGED <<Publication!options, phase, exhausted, taken, held, receipts, aggregate, error>>
      /\ phase \notin {"joining", "ended"}
  BY PublicationSizes DEF Publication!Start, Publication!In, Pool
<1>1. /\ call' \in [1..Len(plan) -> {"none", "queued", "running", "done", "cancelled"}]
      /\ \A j \in Publication!Bundles : /\ call[j] = "done" => call'[j] = "done"
                                        /\ call[j] = "none" <=> call'[j] = "none"
                                        /\ call'[j] = "running" <=> (call[j] = "running" \/ j = i)
  BY <1>0, PublicationBasics DEF Publication!TypeOK
<1>2. Publication!In("running")' = Publication!In("running") \cup {i}
  BY <1>0, <1>1, PublicationFrame DEF Publication!In
<1>3. IsFiniteSet(Publication!In("running"))
  <2>1. IsFiniteSet(1..Len(plan))
    BY PublicationBasics, FS_Interval
  <2> QED
    BY <2>1, PublicationBasics, FS_Subset DEF Publication!In
<1>4. Cardinality(Publication!In("running")') <= Cardinality(Publication!In("running")) + 1
  <2>1. i \notin Publication!In("running")
    BY <1>0 DEF Publication!In
  <2>2. Cardinality(Publication!In("running") \cup {i}) = Cardinality(Publication!In("running")) + 1
    BY <1>3, <2>1, FS_AddElement
  <2>3. Cardinality(Publication!In("running")) \in Nat
    BY <1>3, FS_CardinalityType
  <2>4. Cardinality(Publication!In("running")') = Cardinality(Publication!In("running")) + 1
    BY <1>2, <2>2, Zenon
  <2> QED
    BY <2>3, <2>4
<1>5. Cardinality(Publication!In("running")) \in Nat /\ Cardinality(Publication!In("running")') \in Nat
  BY <1>2, <1>3, FS_AddElement, FS_CardinalityType
<1>6. Pool'
  BY <1>0, <1>4, <1>5, PublicationFrame, PublicationBasics DEF Pool
<1> QED
  BY <1>0, <1>1, <1>6, CallsStep

LEMMA FinishStep ==
  ASSUME Publication!OptionsAreWellFormed, PInv, NEW i \in Publication!Bundles, Publication!Finish(i)
  PROVE  PInv'
<1> USE DEF PInv
<1>0. /\ Publication!TypeOK /\ call[i] = "running" /\ call' = [call EXCEPT ![i] = "done"]
      /\ UNCHANGED <<Publication!options, phase, exhausted, taken, held, receipts, aggregate, error>>
      /\ phase # "ended"
  BY DEF Publication!Finish, Publication!In, Pool
<1>1. /\ call' \in [1..Len(plan) -> {"none", "queued", "running", "done", "cancelled"}]
      /\ \A j \in Publication!Bundles : /\ call[j] = "done" => call'[j] = "done"
                                        /\ call[j] = "none" <=> call'[j] = "none"
                                        /\ call'[j] = "running" => call[j] = "running"
                                        /\ call'[j] = "queued" => call[j] = "queued"
  BY <1>0, PublicationBasics DEF Publication!TypeOK
<1>2. Pool'
  <2>1. Publication!In("queued")' \subseteq Publication!In("queued")
    BY <1>1, PublicationFrame, <1>0 DEF Publication!In
  <2> QED
    BY <1>0, <1>1, <2>1, RunningKept DEF Pool
<1> QED
  BY <1>0, <1>1, <1>2, CallsStep

LEMMA PInvStep ==
  ASSUME Publication!OptionsAreWellFormed, PInv, [Publication!Next]_(Publication!vars)
  PROVE  PInv'
<1>1. CASE Publication!Caller
  BY <1>1, FillStep, CollectStep, ReceiveStep, RefillStep, CancelStep,
     ShutdownStep, JoinStep DEF Publication!Caller
<1>2. CASE Publication!Interrupt
  BY <1>2, InterruptStep
<1>3. CASE Publication!Threads
  BY <1>3, StartStep, FinishStep DEF Publication!Threads
<1>4. CASE UNCHANGED Publication!vars
  BY <1>4, PInvStutter
<1> QED
  BY <1>1, <1>2, <1>3, <1>4 DEF Publication!Next

LEMMA PInvImplies ==
  ASSUME Publication!OptionsAreWellFormed, PInv
  PROVE  Publication!PublicationIsOrdered
<1> USE DEF PInv
<1>1. Publication!TypeOK
  OBVIOUS
<1>2. ASSUME phase = "ended", error # "interrupt"
      PROVE  error = Publication!Expected.error /\ receipts = SubSeq(plan, 1, Publication!Expected.receipts)
  <2>1. error = Publication!Expected.error /\ Len(receipts) = Publication!Expected.receipts
    BY <1>2 DEF Settled, Looping
  <2>2. \A i \in 1..Len(receipts) : receipts[i] = plan[i]
    BY DEF Kept
  <2>3. /\ plan \in Seq(Publication!Receipted \cup Publication!Unreceipted \cup Publication!SourceFaults)
        /\ receipts \in Seq(Publication!Receipted) /\ Len(receipts) \in 0..Len(plan)
    BY <1>1, PublicationBasics DEF Publication!TypeOK, Publication!OptionsAreWellFormed
  <2>4. receipts = SubSeq(plan, 1, Len(receipts))
    BY <2>2, <2>3
  <2> QED
    BY <2>1, <2>4
<1>3. Publication!UnacknowledgedWithinWindow
  <2>1. \A i \in Publication!Bundles : call[i] # "none" => i <= Len(receipts) + window
    BY <1>1, PublicationBasics DEF Calls, Progress
  <2> QED
    BY <2>1, PublicationSizes DEF Publication!UnacknowledgedWithinWindow, Kept, Pool
<1>4. Publication!QuietAfterEnd
  BY DEF Publication!QuietAfterEnd, Pool
<1> QED
  BY <1>1, <1>2, <1>3, <1>4 DEF Publication!PublicationIsOrdered, Publication!OutcomeIsDeterministic

-----------------------------------------------------------------------------
(* An export.  The invariant follows an operation through its labels: how  *)
(* many files it has staged, that a migration's copy was verified, that    *)
(* everything staged was validated before the rename, and that the         *)
(* operation is at its destination exactly if the rename succeeded.  The   *)
(* edits of sources never enter it: what was read is judged by its digest  *)
(* alone.                                                                  *)
ExportLabels ==
  {"gate", "regate", "scratch", "copying", "verifying", "preflight", "staging",
   "opening", "reading", "closing", "writing", "validating", "renaming"}
  \cup Export!Cleaning \cup Export!Ended

(* The values of the variables, for files of such chunks.                  *)
ExportTyped(Parts) ==
  /\ cast \in Casts
  /\ source \in [Sources -> Contents] /\ stamp \in [Sources -> 0..MaxEdits]
  /\ edits \in 0..MaxEdits
  /\ dest \in [Paths -> {Absent, Empty, Occupied} \cup Export!Operations]
  /\ step \in [Export!Operations -> ExportLabels] /\ at \in [Export!Operations -> Nat]
  /\ preflight \in [Export!Operations -> Seq(Nat)]
  /\ got \in [Export!Operations -> Seq(Parts)] /\ scratch \in [Export!Operations -> Seq(Parts)]
  /\ staged \in [Export!Operations -> Seq(Seq(Parts))]
  /\ left \in [Export!Operations -> SUBSET {"scratch", "staging"}]

Copying == {"scratch", "copying", "verifying"}
Staging == {"opening", "reading", "closing", "writing"}

(* How far an operation is.                                                *)
InPlace(p) ==
  LET n == Len(cast[p].files)
  IN  /\ at[p] \in Export!Files(p) \cup {1}
      /\ Len(preflight[p]) <= n /\ Len(staged[p]) <= n
      /\ step[p] \in Copying => cast[p].kind = "migration"
      /\ step[p] \in Copying \cup {"gate", "regate"} =>
             at[p] = 1 /\ preflight[p] = <<>> /\ staged[p] = <<>>
      /\ step[p] = "preflight" =>
             at[p] \in Export!Files(p) /\ Len(preflight[p]) = at[p] - 1 /\ staged[p] = <<>>
      /\ step[p] = "staging" => at[p] = 1 /\ staged[p] = <<>>
      /\ step[p] \in Staging => at[p] \in Export!Files(p) /\ Len(staged[p]) = at[p] - 1
      /\ step[p] = "validating" => Len(staged[p]) = n

Complete(p) ==
  /\ Len(staged[p]) = Len(cast[p].files)
  /\ \A i \in Export!Files(p) :
       cast[p].declared[i] # NoDigest => staged[p][i] = cast[p].declared[i]

(* A migration goes on with a copy that matches its descriptor; a staged   *)
(* directory is renamed when it matches what the job declared.             *)
Checked(p) ==
  /\ step[p] \in Staging \cup {"regate", "preflight", "staging", "validating"}
         /\ cast[p].kind = "migration" /\ cast[p].declared[1] # NoDigest
     => scratch[p] = cast[p].declared[1]
  /\ step[p] = "renaming" => Complete(p)

IsThere(p) == dest[Export!Target(p)] = p

Outcome(p) ==
  /\ IsThere(p) =>
       Complete(p) /\ step[p] \in {"leaving", "returned", "interrupted", "stopped", "killed"}
  /\ step[p] \in {"leaving", "returned"} => IsThere(p)
  /\ step[p] = "raised" => left[p] = {}

Placed == \A path \in Paths : dest[path] \in Export!Operations => path = Export!Target(dest[path])

EInv(Parts) ==
  /\ ExportTyped(Parts) /\ Placed
  /\ \A p \in Export!Operations : InPlace(p) /\ Checked(p) /\ Outcome(p)

-----------------------------------------------------------------------------
(* What is known of a job.                                                 *)
LEMMA ExportJobs ==
  ASSUME NEW Parts, Export!JobsAreWellFormed(Parts), cast \in Casts, NEW p \in Export!Operations
  PROVE  /\ p \notin {Absent, Empty, Occupied}
         /\ cast[p].kind \in Export!Kinds /\ Export!Target(p) \in Paths
         /\ Len(cast[p].files) \in Nat /\ Export!Files(p) = 1..Len(cast[p].files)
         /\ Export!HasFiles(p) <=> 1 \in Export!Files(p)
         /\ cast[p].kind = "migration" => Export!Files(p) = {1} /\ Len(cast[p].files) = 1
         /\ \A i \in Export!Files(p) :
              IF cast[p].kind = "fixtures" THEN cast[p].files[i] \in Seq(Parts)
              ELSE cast[p].files[i] \in Sources
<1> DEFINE Elements == IF cast[p].kind = "fixtures" THEN Seq(Parts) ELSE Sources
           files_p == cast[p].files
<1>1. /\ files_p \in Seq(Elements)
      /\ p \notin {Absent, Empty, Occupied}
      /\ cast[p].kind \in Export!Kinds /\ cast[p].target \in Paths
      /\ cast[p].kind = "migration" => Len(files_p) = 1
  BY DEF Export!JobsAreWellFormed, Export!Operations
<1>2. /\ Len(files_p) \in Nat /\ DOMAIN files_p = 1..Len(files_p)
      /\ \A i \in DOMAIN files_p : files_p[i] \in Elements
      /\ files_p # <<>> <=> Len(files_p) # 0
  BY <1>1
<1>3. Export!HasFiles(p) <=> 1 \in Export!Files(p)
  BY <1>2 DEF Export!HasFiles, Export!Files
<1>4. Len(files_p) = 1 => 1..Len(files_p) = {1}
  BY <1>2
<1> QED
  BY <1>1, <1>2, <1>3, <1>4 DEF Export!Target, Export!Files

LEMMA EInvImplies ==
  ASSUME NEW Parts, Export!JobsAreWellFormed(Parts), EInv(Parts)
  PROVE  Export!ExportIsWhole
<1> USE ExportJobs DEF EInv
<1>1. Export!TypeOK
  <2>1. cast \in Casts /\ source \in [Sources -> Contents] /\ stamp \in [Sources -> 0..MaxEdits]
        /\ dest \in [Paths -> {Absent, Empty, Occupied} \cup Export!Operations] /\ edits \in 0..MaxEdits
    BY DEF ExportTyped
  <2>2. ASSUME NEW p \in Export!Operations
        PROVE  /\ at[p] \in Export!Files(p) \cup {1}
               /\ Len(preflight[p]) <= Len(cast[p].files)
               /\ Len(staged[p]) <= Len(cast[p].files)
               /\ left[p] \subseteq {"scratch", "staging"}
    BY DEF ExportTyped, InPlace
  <2> QED
    BY <2>1, <2>2 DEF Export!TypeOK
<1>2. Export!PublishedAsDeclared
  <2> SUFFICES ASSUME NEW path \in Paths, dest[path] \in Export!Operations
               PROVE  Complete(dest[path])
    BY DEF Export!PublishedAsDeclared, Complete
  <2> QED
    BY DEF Placed, Outcome, IsThere
<1>3. Export!ReturnedIsThere
  BY DEF Export!ReturnedIsThere, Outcome, IsThere
<1>4. Export!RaisedLeavesNothing
  BY DEF Export!RaisedLeavesNothing, Outcome, IsThere
<1> QED
  BY <1>1, <1>2, <1>3, <1>4 DEF Export!ExportIsWhole

LEMMA EInvInit ==
  ASSUME NEW Parts, Export!JobsAreWellFormed(Parts), Export!Init
  PROVE  EInv(Parts)
<1> USE DEF Export!Init
<1>1. ExportTyped(Parts)
  <2>1. MaxEdits \in Nat /\ Original \in Contents
    BY DEF Export!JobsAreWellFormed
  <2> QED
    BY <2>1 DEF ExportTyped, ExportLabels
<1>2. ASSUME NEW p \in Export!Operations PROVE InPlace(p) /\ Checked(p) /\ Outcome(p) /\ ~IsThere(p)
  <2>1. /\ Len(cast[p].files) \in Nat /\ Export!Target(p) \in Paths /\ p # Absent
    BY ExportJobs
  <2>2. step[p] = "gate" /\ at[p] = 1 /\ preflight[p] = <<>> /\ staged[p] = <<>> /\ Len(<<>>) = 0
    OBVIOUS
  <2>3. ~IsThere(p)
    BY <2>1 DEF IsThere
  <2> QED
    BY <2>1, <2>2, <2>3 DEF InPlace, Checked, Outcome, Copying, Staging
<1>3. Placed
  BY ExportJobs DEF Placed
<1> QED
  BY <1>1, <1>2, <1>3 DEF EInv

-----------------------------------------------------------------------------
(* What an operation reads is a file.                                      *)
LEMMA OwnFile ==
  ASSUME NEW Parts, Export!JobsAreWellFormed(Parts), ExportTyped(Parts),
         NEW p \in Export!Operations, InPlace(p),
         step[p] \in Staging \cup {"copying", "verifying", "preflight"}
  PROVE  Export!Current(p) \in Seq(Parts) /\ Export!Metadata(p) \in Nat
<1>1. /\ source \in [Sources -> Contents] /\ stamp \in [Sources -> 0..MaxEdits]
      /\ scratch[p] \in Seq(Parts) /\ cast \in Casts
      /\ Contents \subseteq Seq(Parts) /\ MaxEdits \in Nat
  BY DEF ExportTyped, Export!JobsAreWellFormed
<1>2. at[p] \in Export!Files(p)
  BY <1>1, ExportJobs DEF InPlace, Copying
<1>3. Export!External(p) => cast[p].kind # "fixtures"
  BY DEF Export!External, InPlace, Copying
<1>4. Export!External(p) => cast[p].files[at[p]] \in Sources
  BY <1>1, <1>2, <1>3, ExportJobs
<1>5. cast[p].kind = "fixtures" => cast[p].files[at[p]] \in Seq(Parts)
  BY <1>1, <1>2, ExportJobs
<1>6. Export!External(p) => /\ source[cast[p].files[at[p]]] \in Contents
                            /\ stamp[cast[p].files[at[p]]] \in 0..MaxEdits
  BY <1>1, <1>4
<1> QED
  BY <1>1, <1>5, <1>6 DEF Export!Current, Export!Metadata

(* A step changes what it says of one operation, and one destination.      *)
LEMMA OtherExportsStay ==
  ASSUME NEW Parts, ExportTyped(Parts), NEW p \in Export!Operations, Export!Step(p)
  PROVE  \A q \in Export!Operations \ {p} :
           /\ step'[q] = step[q] /\ at'[q] = at[q] /\ preflight'[q] = preflight[q]
           /\ scratch'[q] = scratch[q] /\ staged'[q] = staged[q] /\ left'[q] = left[q]
<1> DEFINE Same(f, g) == \A q \in Export!Operations \ {p} : g[q] = f[q]
<1>0. /\ DOMAIN step = Export!Operations /\ DOMAIN at = Export!Operations
           /\ DOMAIN preflight = Export!Operations
      /\ DOMAIN scratch = Export!Operations /\ DOMAIN staged = Export!Operations
           /\ DOMAIN left = Export!Operations
  BY DEF ExportTyped
<1>1. Same(step, step')
  BY <1>0 DEF Export!Step, Export!Gate, Export!MakeScratch, Export!Read, Export!VerifyCopy,
    Export!Preflight, Export!MakeStaging, Export!Open,
     Export!Close, Export!WriteFixture, Export!NextFile, Export!Validate, Export!Rename,
       Export!Clean, Export!Error, Export!Interrupt, Export!Kill, Export!Goto
<1>2. Same(at, at')
  BY <1>0 DEF Export!Step, Export!Gate, Export!MakeScratch, Export!Read, Export!VerifyCopy,
    Export!Preflight, Export!MakeStaging, Export!Open,
     Export!Close, Export!WriteFixture, Export!NextFile, Export!Validate, Export!Rename,
       Export!Clean, Export!Error, Export!Interrupt, Export!Kill, Export!Stay
<1>3. Same(preflight, preflight')
  BY <1>0 DEF Export!Step, Export!Gate, Export!MakeScratch, Export!Read, Export!VerifyCopy,
    Export!Preflight, Export!MakeStaging, Export!Open,
     Export!Close, Export!WriteFixture, Export!Validate, Export!Rename, Export!Clean, Export!Error,
       Export!Interrupt, Export!Kill, Export!Stay, Export!reading
<1>4. Same(scratch, scratch')
  BY <1>0 DEF Export!Step, Export!Gate, Export!MakeScratch, Export!Read, Export!VerifyCopy,
    Export!Preflight, Export!MakeStaging, Export!Open,
     Export!Close, Export!WriteFixture, Export!Validate, Export!Rename, Export!Clean, Export!Error,
       Export!Interrupt, Export!Kill, Export!Stay, Export!files
<1>5. Same(staged, staged')
  BY <1>0 DEF Export!Step, Export!Gate, Export!MakeScratch, Export!Read, Export!VerifyCopy,
    Export!Preflight, Export!MakeStaging, Export!Open,
     Export!Close, Export!WriteFixture, Export!NextFile, Export!Validate, Export!Rename,
       Export!Clean, Export!Error, Export!Interrupt, Export!Kill, Export!Stay, Export!files
<1>6. Same(left, left')
  BY <1>0 DEF Export!Step, Export!Gate, Export!MakeScratch, Export!Read, Export!VerifyCopy,
    Export!Preflight, Export!MakeStaging, Export!Open,
     Export!Close, Export!WriteFixture, Export!Validate, Export!Rename, Export!Clean, Export!Error,
       Export!Interrupt, Export!Kill, Export!Stay, Export!files
<1> QED
  BY <1>1, <1>2, <1>3, <1>4, <1>5, <1>6

(* Only a rename changes a destination, and only for its own operation.    *)
LEMMA DestinationStep ==
  ASSUME NEW Parts, Export!JobsAreWellFormed(Parts), ExportTyped(Parts),
           NEW p \in Export!Operations, Export!Step(p)
  PROVE  \/ dest' = dest /\ ~(step[p] = "renaming" /\ step'[p] = "leaving")
         \/ /\ step[p] = "renaming" /\ step'[p] = "leaving"
            /\ dest[Export!Target(p)] \in {Absent, Empty}
            /\ dest' = [dest EXCEPT ![Export!Target(p)] = p]
            /\ UNCHANGED <<at, preflight, staged, scratch>>
<1>0. step \in [Export!Operations -> ExportLabels]
  BY DEF ExportTyped
<1>1. CASE Export!Rename(p)
  BY <1>0, <1>1 DEF Export!Rename, Export!Goto, Export!reading
<1>2. CASE ~Export!Rename(p)
  <2>1. dest' = dest
    BY <1>2 DEF Export!Step, Export!Gate, Export!MakeScratch, Export!Read, Export!VerifyCopy,
      Export!Preflight, Export!MakeStaging, Export!Open,
       Export!Close, Export!WriteFixture, Export!Validate, Export!Clean, Export!Error,
         Export!Interrupt, Export!Kill, Export!Stay
  <2>2. ~(step[p] = "renaming" /\ step'[p] = "leaving")
    BY <1>0, <1>2 DEF Export!Step, Export!Gate, Export!MakeScratch, Export!Read, Export!VerifyCopy,
      Export!Preflight, Export!MakeStaging, Export!Open,
       Export!Close, Export!WriteFixture, Export!Validate, Export!Clean, Export!Error,
         Export!Interrupt, Export!Kill, Export!Goto, Export!Cleaning
  <2> QED
    BY <2>1, <2>2
<1> QED
  BY <1>1, <1>2

-----------------------------------------------------------------------------
(* A step of an operation keeps the types.                                 *)
LEMMA TypedStep ==
  ASSUME NEW Parts, Export!JobsAreWellFormed(Parts), ExportTyped(Parts),
         NEW p \in Export!Operations, InPlace(p), Export!Step(p), UNCHANGED <<cast, Export!world>>
  PROVE  ExportTyped(Parts)'
<1>0. /\ step \in [Export!Operations -> ExportLabels] /\ at \in [Export!Operations -> Nat]
      /\ preflight \in [Export!Operations -> Seq(Nat)]
      /\ got \in [Export!Operations -> Seq(Parts)] /\ scratch \in [Export!Operations -> Seq(Parts)]
      /\ staged \in [Export!Operations -> Seq(Seq(Parts))]
      /\ left \in [Export!Operations -> SUBSET {"scratch", "staging"}]
      /\ dest \in [Paths -> {Absent, Empty, Occupied} \cup Export!Operations]
      /\ UNCHANGED Export!Operations
  BY DEF ExportTyped, Export!Operations
<1>p. step' \in [Export!Operations -> ExportLabels]
  <2>1. ASSUME NEW label \in ExportLabels, Export!Goto(p, label)
                 PROVE step' \in [Export!Operations -> ExportLabels]
    BY <1>0, <2>1 DEF Export!Goto
  <2>2. CASE Export!Gate(p) \/ Export!MakeScratch(p)
    BY <1>0, <2>2 DEF Export!Gate, Export!MakeScratch, Export!Goto, ExportLabels, Export!Cleaning
  <2>3. CASE Export!Read(p) \/ Export!VerifyCopy(p)
    BY <1>0, <2>3 DEF Export!Read, Export!VerifyCopy, Export!Goto, ExportLabels, Export!Cleaning
  <2>4. CASE Export!Preflight(p) \/ Export!MakeStaging(p) \/ Export!Open(p) \/ Export!Close(p)
    <3>1. CASE Export!Preflight(p)
      BY <1>0, <3>1 DEF Export!Preflight, Export!Goto, ExportLabels, Export!Cleaning
    <3>2. CASE Export!MakeStaging(p) \/ Export!Open(p)
      BY <1>0, <3>2 DEF Export!MakeStaging, Export!Open, Export!Goto, ExportLabels, Export!Cleaning
    <3>3. CASE Export!Close(p)
      <4>1. \E label \in ExportLabels : Export!Goto(p, label)
        BY <3>3 DEF Export!Close, Export!NextFile, ExportLabels, Export!Cleaning
      <4> QED
        BY <2>1, <4>1
    <3> QED
      BY <2>4, <3>1, <3>2, <3>3
  <2>5. CASE Export!WriteFixture(p) \/ Export!Validate(p) \/ Export!Rename(p)
    <3>1. \E label \in ExportLabels : Export!Goto(p, label)
      BY <2>5 DEF Export!WriteFixture, Export!NextFile, Export!Validate, Export!Rename,
        ExportLabels, Export!Cleaning
    <3> QED
      BY <2>1, <3>1
  <2>6. CASE Export!Clean(p) \/ Export!Error(p) \/ Export!Interrupt(p) \/ Export!Kill(p)
    <3>1. \E label \in ExportLabels : Export!Goto(p, label)
      BY <2>6 DEF Export!Clean, Export!Error, Export!Interrupt, Export!Kill, ExportLabels,
        Export!Cleaning, Export!Ended
    <3> QED
      BY <2>1, <3>1
  <2> QED
    BY <2>2, <2>3, <2>4, <2>5, <2>6 DEF Export!Step
<1>a. at' \in [Export!Operations -> Nat]
  <2>1. at[p] + 1 \in Nat /\ 1 \in Nat
    BY <1>0
  <2>2. \/ at' = at \/ at' = [at EXCEPT ![p] = @ + 1] \/ at' = [at EXCEPT ![p] = 1]
    BY DEF Export!Step, Export!Gate, Export!MakeScratch, Export!Read, Export!VerifyCopy,
      Export!Preflight, Export!MakeStaging, Export!Open,
     Export!Close, Export!WriteFixture, Export!NextFile, Export!Validate, Export!Rename,
       Export!Clean, Export!Error, Export!Interrupt, Export!Kill, Export!Stay
  <2> QED
    BY <1>0, <2>1, <2>2
<1>f. preflight' \in [Export!Operations -> Seq(Nat)]
  <2>1. CASE Export!Preflight(p)
    <3>1. Export!Metadata(p) \in Nat
      BY <2>1, OwnFile DEF Export!Preflight
    <3>2. Append(preflight[p], Export!Metadata(p)) \in Seq(Nat)
      BY <1>0, <3>1
    <3> QED
      BY <1>0, <2>1, <3>2 DEF Export!Preflight
  <2>2. CASE ~Export!Preflight(p)
    <3>1. preflight' = preflight
      BY <2>2 DEF Export!Step, Export!Gate, Export!MakeScratch, Export!Read, Export!VerifyCopy,
        Export!MakeStaging, Export!Open,
       Export!Close, Export!WriteFixture, Export!Validate, Export!Rename, Export!Clean,
         Export!Error, Export!Interrupt, Export!Kill, Export!Stay, Export!reading
    <3> QED
      BY <1>0, <3>1
  <2> QED
    BY <2>1, <2>2
<1>g. got' \in [Export!Operations -> Seq(Parts)]
  <2>1. CASE Export!Read(p)
    <3> DEFINE n == Len(got[p])
    <3>1. Export!Current(p) \in Seq(Parts)
      BY <2>1, OwnFile DEF Export!Read, Staging
    <3>2. n \in Nat /\ (n < Len(Export!Current(p)) => Export!Current(p)[n + 1] \in Parts)
      BY <1>0, <3>1
    <3>3. n < Len(Export!Current(p)) => Append(got[p], Export!Current(p)[n + 1]) \in Seq(Parts)
      BY <1>0, <3>2
    <3>4. \/ n < Len(Export!Current(p)) /\ got' = [got EXCEPT ![p] = Append(@, Export!Current(p)[n + 1])]
          \/ got' = got
      BY <2>1 DEF Export!Read
    <3> QED
      BY <1>0, <3>3, <3>4
  <2>2. CASE ~Export!Read(p)
    <3>1. got' = got \/ got' = [got EXCEPT ![p] = <<>>]
      BY <2>2 DEF Export!Step, Export!Gate, Export!MakeScratch, Export!VerifyCopy,
        Export!Preflight, Export!MakeStaging, Export!Open,
       Export!Close, Export!WriteFixture, Export!Validate, Export!Rename, Export!Clean,
         Export!Error, Export!Interrupt, Export!Kill, Export!Stay, Export!reading
    <3>2. <<>> \in Seq(Parts)
      OBVIOUS
    <3> QED
      BY <1>0, <3>1, <3>2
  <2> QED
    BY <2>1, <2>2
<1>s. scratch' \in [Export!Operations -> Seq(Parts)]
  <2>1. scratch' = scratch \/ scratch' = [scratch EXCEPT ![p] = got[p]]
    BY DEF Export!Step, Export!Gate, Export!MakeScratch, Export!Read, Export!VerifyCopy,
      Export!Preflight, Export!MakeStaging, Export!Open,
     Export!Close, Export!WriteFixture, Export!Validate, Export!Rename, Export!Clean, Export!Error,
       Export!Interrupt, Export!Kill, Export!Stay, Export!files
  <2> QED
    BY <1>0, <2>1
<1>t. staged' \in [Export!Operations -> Seq(Seq(Parts))]
  <2>1. \/ staged' = staged
        \/ staged' = [staged EXCEPT ![p] = Append(staged[p], got[p])]
        \/ Export!WriteFixture(p) /\ staged' = [staged EXCEPT ![p] = Append(staged[p], Export!Current(p))]
    BY <1>0 DEF Export!Step, Export!Gate, Export!MakeScratch, Export!Read, Export!VerifyCopy,
      Export!Preflight, Export!MakeStaging, Export!Open,
     Export!Close, Export!WriteFixture, Export!NextFile, Export!Validate, Export!Rename,
       Export!Clean, Export!Error, Export!Interrupt, Export!Kill, Export!Stay, Export!files
  <2>2. Export!WriteFixture(p) => Export!Current(p) \in Seq(Parts)
    BY OwnFile DEF Export!WriteFixture, Staging
  <2>3. \A c \in Seq(Parts) : Append(staged[p], c) \in Seq(Seq(Parts))
    BY <1>0
  <2>4. \E c \in Seq(Parts) :
          staged' = staged \/ staged' = [staged EXCEPT ![p] = Append(staged[p], c)]
    BY <1>0, <2>1, <2>2
  <2>5. \E c \in Seq(Seq(Parts)) : staged' = staged \/ staged' = [staged EXCEPT ![p] = c]
    BY <2>3, <2>4
  <2> QED
    BY <1>0, <2>5
<1>l. left' \in [Export!Operations -> SUBSET {"scratch", "staging"}]
  <2>1. \E kept \in SUBSET {"scratch", "staging"} : left' = left \/ left' = [left EXCEPT ![p] = kept]
    <3>1. left[p] \in SUBSET {"scratch", "staging"}
      BY <1>0
    <3>2. /\ left[p] \cup {"scratch"} \in SUBSET {"scratch", "staging"}
          /\ left[p] \cup {"staging"} \in SUBSET {"scratch", "staging"}
          /\ left[p] \ {"staging"} \in SUBSET {"scratch", "staging"}
          /\ {} \in SUBSET {"scratch", "staging"}
      BY <3>1
    <3>3. \/ left' = left \/ left' = [left EXCEPT ![p] = left[p] \cup {"scratch"}]
          \/ left' = [left EXCEPT ![p] = left[p] \cup {"staging"}]
          \/ left' = [left EXCEPT ![p] = left[p] \ {"staging"}] \/ left' = [left EXCEPT ![p] = {}]
      BY <1>0 DEF Export!Step, Export!Gate, Export!MakeScratch, Export!Read, Export!VerifyCopy,
        Export!Preflight, Export!MakeStaging, Export!Open,
       Export!Close, Export!WriteFixture, Export!Validate, Export!Rename, Export!Clean,
         Export!Error, Export!Interrupt, Export!Kill, Export!Stay, Export!files
    <3> QED
      BY <3>2, <3>3
  <2>2. PICK kept \in SUBSET {"scratch", "staging"} :
          left' = left \/ left' = [left EXCEPT ![p] = kept]
    BY <2>1
  <2> QED
    BY <1>0, <2>2
<1>d. dest' \in [Paths -> {Absent, Empty, Occupied} \cup Export!Operations]
  <2>1. dest' = dest \/ dest' = [dest EXCEPT ![Export!Target(p)] = p]
    BY DestinationStep
  <2> QED
    BY <1>0, <2>1
<1>w. /\ cast \in Casts /\ source \in [Sources -> Contents] /\ stamp \in [Sources -> 0..MaxEdits]
      /\ edits \in 0..MaxEdits
  BY DEF ExportTyped
<1> QED
  BY <1>0, <1>p, <1>a, <1>f, <1>g, <1>s, <1>t, <1>l, <1>d, <1>w DEF ExportTyped, Export!world

(* ... and its place.                                                      *)
LEMMA InPlaceStep ==
  ASSUME NEW Parts, Export!JobsAreWellFormed(Parts), ExportTyped(Parts),
         NEW p \in Export!Operations, InPlace(p), Export!Step(p), UNCHANGED <<cast, Export!world>>
  PROVE  InPlace(p)'
<1> DEFINE n == Len(cast[p].files)
<1>0. /\ step \in [Export!Operations -> ExportLabels] /\ at \in [Export!Operations -> Nat] /\ at[p] \in Nat
      /\ preflight \in [Export!Operations -> Seq(Nat)] /\ preflight[p] \in Seq(Nat)
      /\ staged \in [Export!Operations -> Seq(Seq(Parts))] /\ staged[p] \in Seq(Seq(Parts))
      /\ cast \in Casts
  BY DEF ExportTyped
<1>n. /\ n \in Nat /\ Export!Files(p) = 1..n /\ (Export!HasFiles(p) <=> 1 \in 1..n)
      /\ cast[p].kind = "migration" => n = 1
      /\ Export!Files(p)' = Export!Files(p) /\ n' = n
  BY <1>0, ExportJobs DEF Export!Files
<1>i. /\ at[p] \in 1..n \cup {1} /\ Len(preflight[p]) <= n /\ Len(staged[p]) <= n
      /\ step[p] \in Copying => cast[p].kind = "migration"
      /\ step[p] \in Copying \cup {"gate", "regate"} =>
             at[p] = 1 /\ preflight[p] = <<>> /\ staged[p] = <<>>
      /\ step[p] = "preflight" =>
             at[p] \in 1..n /\ Len(preflight[p]) = at[p] - 1 /\ staged[p] = <<>>
      /\ step[p] = "staging" => at[p] = 1 /\ staged[p] = <<>>
      /\ step[p] \in Staging => at[p] \in 1..n /\ Len(staged[p]) = at[p] - 1
      /\ step[p] = "validating" => Len(staged[p]) = n
  BY <1>n DEF InPlace
<1> DEFINE Goal ==
      /\ at'[p] \in 1..n \cup {1} /\ Len(preflight'[p]) <= n /\ Len(staged'[p]) <= n
      /\ step'[p] \in Copying => cast[p].kind = "migration"
      /\ step'[p] \in Copying \cup {"gate", "regate"} =>
             at'[p] = 1 /\ preflight'[p] = <<>> /\ staged'[p] = <<>>
      /\ step'[p] = "preflight" =>
             at'[p] \in 1..n /\ Len(preflight'[p]) = at'[p] - 1 /\ staged'[p] = <<>>
      /\ step'[p] = "staging" => at'[p] = 1 /\ staged'[p] = <<>>
      /\ step'[p] \in Staging => at'[p] \in 1..n /\ Len(staged'[p]) = at'[p] - 1
      /\ step'[p] = "validating" => Len(staged'[p]) = n
<1> SUFFICES Goal
  BY <1>n DEF InPlace
<1>e. Len(<<>>) = 0
  OBVIOUS
(* Steps that leave the numbers alone.                                     *)
<1>1. CASE /\ UNCHANGED <<at, preflight, staged>>
           /\ step'[p] \in Export!Ended \cup Export!Cleaning \cup {"renaming"}
  BY <1>i, <1>1 DEF Export!Ended, Export!Cleaning, Copying, Staging
<1>2. CASE Export!Gate(p)
  <2>1. /\ UNCHANGED <<at, preflight, staged>> /\ step[p] \in {"gate", "regate"}
        /\ \/ step'[p] \in {"clean", "staging"}
           \/ step'[p] = "scratch" /\ cast[p].kind = "migration"
           \/ step'[p] = "preflight" /\ Export!HasFiles(p)
    BY <1>0, <1>2 DEF Export!Gate, Export!Goto, Export!Stay, Export!reading, Export!files
  <2> QED
    BY <1>n, <1>i, <1>e, <2>1 DEF Copying, Staging
<1>3. CASE Export!MakeScratch(p)
  BY <1>0, <1>i, <1>3 DEF Export!MakeScratch, Export!Goto, Export!reading, Copying, Staging
<1>4. CASE Export!Read(p)
  <2>1. /\ UNCHANGED <<at, preflight, staged>>
        /\ \/ step'[p] = step[p]
           \/ step[p] = "copying" /\ step'[p] = "verifying"
           \/ step[p] = "reading" /\ step'[p] = "closing"
    BY <1>0, <1>4 DEF Export!Read, Export!Goto, Export!files
  <2> QED
    BY <1>i, <2>1 DEF Copying, Staging
<1>5. CASE Export!VerifyCopy(p)
  <2>1. /\ UNCHANGED <<at, preflight, staged>> /\ step[p] = "verifying"
        /\ step'[p] \in {"clean", "regate"}
    BY <1>0, <1>5 DEF Export!VerifyCopy, Export!Goto
  <2> QED
    BY <1>i, <2>1 DEF Copying, Staging
<1>6. CASE Export!Preflight(p)
  <2>1. /\ step[p] = "preflight" /\ UNCHANGED staged
        /\ preflight' = [preflight EXCEPT ![p] = Append(@, Export!Metadata(p))]
        /\ \/ step'[p] = "clean" /\ at'[p] = at[p]
           \/ step'[p] = "staging" /\ at'[p] = 1
           \/ step'[p] = "preflight" /\ at'[p] = at[p] + 1 /\ at[p] # n
    BY <1>0, <1>6 DEF Export!Preflight, Export!Goto, Export!files, Export!AtEnd
  <2>2. Export!Metadata(p) \in Nat
    BY <2>1, OwnFile
  <2>3. Len(preflight'[p]) = Len(preflight[p]) + 1
    BY <1>0, <2>1, <2>2
  <2>4. /\ at[p] \in 1..n /\ Len(preflight'[p]) = at[p] /\ staged'[p] = <<>> /\ Len(staged'[p]) = 0
    BY <1>0, <1>i, <1>e, <2>1, <2>3
  <2>5. at'[p] = at[p] + 1 /\ at[p] # n => at'[p] \in 1..n /\ Len(preflight'[p]) = at'[p] - 1
    BY <1>n, <2>4
  <2> QED
    BY <1>n, <2>1, <2>4, <2>5 DEF Copying, Staging
<1>7. CASE Export!MakeStaging(p)
  <2>1. /\ UNCHANGED <<at, preflight, staged>> /\ step[p] = "staging"
        /\ \/ step'[p] = "validating" /\ ~Export!HasFiles(p)
           \/ step'[p] \in {"writing", "opening"} /\ Export!HasFiles(p)
    BY <1>0, <1>7 DEF Export!MakeStaging, Export!Goto, Export!reading
  <2>2. ~Export!HasFiles(p) => n = 0
    BY <1>n
  <2> QED
    BY <1>n, <1>i, <1>e, <2>1, <2>2 DEF Copying, Staging
<1>8. CASE Export!Open(p)
  <2>1. /\ UNCHANGED <<at, preflight, staged>> /\ step[p] = "opening"
        /\ step'[p] \in {"reading", "clean"}
    BY <1>0, <1>8 DEF Export!Open, Export!Goto, Export!files
  <2> QED
    BY <1>i, <2>1 DEF Copying, Staging
<1>9. ASSUME NEW c \in Seq(Parts), Export!NextFile(p, c), step[p] \in Staging, UNCHANGED preflight
      PROVE  Goal
  <2>1. Len(staged'[p]) = Len(staged[p]) + 1
    BY <1>0, <1>9 DEF Export!NextFile
  <2>2. \/ step'[p] = "validating" /\ at'[p] = at[p] /\ at[p] = n
        \/ step'[p] \in {"writing", "opening"} /\ at'[p] = at[p] + 1 /\ at[p] # n
    BY <1>0, <1>9 DEF Export!NextFile, Export!Goto, Export!AtEnd
  <2>3. Len(staged[p]) = at[p] - 1 /\ at[p] \in 1..n /\ preflight'[p] = preflight[p]
    BY <1>0, <1>i, <1>9
  <2>4. n \in Nat /\ Len(preflight[p]) <= n
    BY <1>n, <1>i
  <2>5. /\ at'[p] \in 1..n /\ Len(staged'[p]) <= n /\ Len(preflight'[p]) <= n
        /\ step'[p] = "validating" => Len(staged'[p]) = n
        /\ step'[p] \in {"writing", "opening"} => Len(staged'[p]) = at'[p] - 1
    <3>1. CASE step'[p] = "validating" /\ at'[p] = at[p] /\ at[p] = n
      BY <2>1, <2>3, <2>4, <3>1
    <3>2. CASE step'[p] \in {"writing", "opening"} /\ at'[p] = at[p] + 1 /\ at[p] # n
      <4>1. at'[p] \in 1..n /\ Len(staged'[p]) = at'[p] - 1 /\ Len(staged'[p]) <= n
        BY <2>1, <2>3, <2>4, <3>2
      <4> QED
        BY <2>3, <2>4, <3>2, <4>1
    <3> QED
      BY <2>2, <3>1, <3>2
  <2>6. step'[p] \in {"validating", "writing", "opening"}
    BY <2>2
  <2> QED
    BY <2>5, <2>6 DEF Copying, Staging
<1>10. CASE Export!Close(p)
  <2>1. got[p] \in Seq(Parts) /\ step[p] = "closing" /\ UNCHANGED preflight
    BY <1>10 DEF ExportTyped, Export!Close
  <2>2. \/ Export!NextFile(p, got[p])
        \/ step'[p] = "clean" /\ UNCHANGED <<at, staged>>
    BY <1>0, <1>10 DEF Export!Close, Export!Goto
  <2> QED
    BY <1>1, <1>9, <2>1, <2>2 DEF Staging, Export!Cleaning
<1>11. CASE Export!WriteFixture(p)
  <2>1. Export!Current(p) \in Seq(Parts)
    BY <1>11, OwnFile DEF Export!WriteFixture, Staging
  <2> QED
    BY <1>9, <1>11, <2>1 DEF Export!WriteFixture, Staging, Export!reading
<1>12. CASE Export!Validate(p) \/ Export!Rename(p) \/ Export!Clean(p) \/ Export!Error(p) \/ Export!Interrupt(p) \/ Export!Kill(p)
  <2>1. /\ UNCHANGED <<at, preflight, staged>>
        /\ step'[p] \in Export!Ended \cup Export!Cleaning \cup {"renaming"}
    BY <1>0, <1>12 DEF Export!Validate, Export!Rename, Export!Clean, Export!Error,
      Export!Interrupt, Export!Kill, Export!Goto, Export!Stay,
       Export!reading, Export!files, Export!Ended, Export!Cleaning
  <2> QED
    BY <1>1, <2>1
<1> QED
  BY <1>2, <1>3, <1>4, <1>5, <1>6, <1>7, <1>8, <1>10, <1>11, <1>12 DEF Export!Step

(* ... and what has been checked.                                          *)
LEMMA CheckedStep ==
  ASSUME NEW Parts, Export!JobsAreWellFormed(Parts), ExportTyped(Parts),
         NEW p \in Export!Operations, InPlace(p), Checked(p), Export!Step(p), UNCHANGED <<cast, Export!world>>
  PROVE  Checked(p)'
<1>0. /\ step \in [Export!Operations -> ExportLabels] /\ cast \in Casts
      /\ DOMAIN scratch = Export!Operations /\ DOMAIN staged = Export!Operations
      /\ cast[p].kind = "migration" => Export!Files(p) = {1}
      /\ UNCHANGED Export!Files(p)
  BY ExportJobs DEF ExportTyped, Export!Files
<1> DEFINE Verified ==
             cast[p].kind = "migration" /\ cast[p].declared[1] # NoDigest
               => scratch[p] = cast[p].declared[1]
           Later == Staging \cup {"regate", "preflight", "staging", "validating"}
<1>1. step'[p] \in Later => Verified'
  <2>1. CASE Export!VerifyCopy(p)
    <3>1. step'[p] \in {"clean", "regate"}
      BY <1>0, <2>1 DEF Export!VerifyCopy, Export!Goto
    <3>2. step'[p] = "regate" =>
              /\ scratch'[p] = got[p]
              /\ cast[p].declared[1] # NoDigest => got[p] = cast[p].declared[1]
      BY <1>0, <2>1 DEF Export!VerifyCopy, Export!Goto, Export!Matches
    <3> QED
      BY <3>1, <3>2 DEF Staging
  <2>2. CASE ~Export!VerifyCopy(p)
    <3>1. scratch' = scratch
      BY <2>2 DEF Export!Step, Export!Gate, Export!MakeScratch, Export!Read, Export!Preflight,
        Export!MakeStaging, Export!Open,
       Export!Close, Export!WriteFixture, Export!Validate, Export!Rename, Export!Clean,
         Export!Error, Export!Interrupt, Export!Kill, Export!Stay, Export!files
    <3>2. step'[p] \in Later => step[p] \in Later \/ (step[p] = "gate" /\ cast[p].kind # "migration")
      BY <1>0, <2>2 DEF Export!Step, Export!Gate, Export!MakeScratch, Export!Read,
        Export!Preflight, Export!MakeStaging, Export!Open,
       Export!Close, Export!WriteFixture, Export!NextFile, Export!Validate, Export!Rename,
         Export!Clean, Export!Error, Export!Interrupt, Export!Kill, Export!Goto,
       Staging, Export!Cleaning
    <3> QED
      BY <3>1, <3>2 DEF Checked
  <2> QED
    BY <2>1, <2>2
<1>2. step'[p] = "renaming" => Complete(p)'
  <2> SUFFICES ASSUME step'[p] = "renaming" PROVE Complete(p)'
    OBVIOUS
  <2>1. Export!Validate(p)
    BY <1>0 DEF Export!Step, Export!Gate, Export!MakeScratch, Export!Read, Export!VerifyCopy,
      Export!Preflight, Export!MakeStaging, Export!Open,
       Export!Close, Export!WriteFixture, Export!NextFile, Export!Rename, Export!Clean,
         Export!Error, Export!Interrupt, Export!Kill, Export!Goto, Export!Cleaning
  <2>2. /\ step[p] = "validating" /\ UNCHANGED <<staged, scratch>>
        /\ \A i \in Export!Files(p) : staged[p][i] = Export!Declared(p, i)
    BY <1>0, <2>1 DEF Export!Validate, Export!Goto, Export!Stay, Export!files, Export!Matches
  <2>3. Len(staged[p]) = Len(cast[p].files)
    BY <2>2 DEF InPlace
  <2>4. Verified
    BY <2>2 DEF Checked
  <2>5. ASSUME NEW i \in Export!Files(p), cast[p].declared[i] # NoDigest
        PROVE  staged[p][i] = cast[p].declared[i]
    BY <1>0, <2>2, <2>4, <2>5 DEF Export!Declared
  <2> QED
    BY <1>0, <2>2, <2>3, <2>5 DEF Complete
<1> QED
  BY <1>1, <1>2 DEF Checked

(* ... and what it leaves at its destination.                              *)
LEMMA OutcomeStep ==
  ASSUME NEW Parts, Export!JobsAreWellFormed(Parts), ExportTyped(Parts),
         NEW p \in Export!Operations, Checked(p), Outcome(p), Export!Step(p), UNCHANGED <<cast, Export!world>>
  PROVE  Outcome(p)'
<1>0. /\ step \in [Export!Operations -> ExportLabels] /\ DOMAIN left = Export!Operations
           /\ DOMAIN dest = Paths
      /\ Export!Target(p) \in Paths /\ p \notin {Absent, Empty} /\ Export!Target(p)' = Export!Target(p)
  BY ExportJobs DEF ExportTyped, Export!Target
<1>1. CASE /\ step[p] = "renaming" /\ step'[p] = "leaving"
           /\ dest' = [dest EXCEPT ![Export!Target(p)] = p] /\ UNCHANGED staged
  <2>1. IsThere(p)'
    BY <1>0, <1>1 DEF IsThere
  <2>2. Complete(p)'
    BY <1>1 DEF Checked, Complete, Export!Files
  <2> QED
    BY <1>1, <2>1, <2>2 DEF Outcome
<1>2. CASE dest' = dest /\ ~(step[p] = "renaming" /\ step'[p] = "leaving")
  <2>1. IsThere(p)' <=> IsThere(p)
    BY <1>0, <1>2 DEF IsThere
  <2>2. CASE IsThere(p)
    <3>1. /\ step[p] \in {"leaving", "interrupted"} /\ UNCHANGED staged
          /\ step'[p] \in {"returned", "interrupted", "stopped", "killed"}
      <4>1. step[p] \in {"leaving", "returned", "interrupted", "stopped", "killed"}
        BY <2>2 DEF Outcome
      <4> QED
        BY <1>0, <4>1 DEF Export!Step, Export!Gate, Export!MakeScratch, Export!Read,
          Export!VerifyCopy, Export!Preflight, Export!MakeStaging, Export!Open,
           Export!Close, Export!WriteFixture, Export!Validate, Export!Rename, Export!Clean,
             Export!Error, Export!Interrupt, Export!Kill, Export!Goto, Export!Stay,
           Export!Working, Export!Cleaning, Export!Ended, Export!files
    <3>2. Complete(p)'
      BY <2>2, <3>1 DEF Outcome, Complete, Export!Files
    <3> QED
      BY <2>1, <2>2, <3>1, <3>2 DEF Outcome
  <2>3. CASE ~IsThere(p)
    <3>1. step[p] \notin {"leaving", "returned"}
      BY <2>3 DEF Outcome
    <3>2. step'[p] \notin {"leaving", "returned"}
      BY <1>0, <1>2, <3>1 DEF Export!Step, Export!Gate, Export!MakeScratch, Export!Read,
        Export!VerifyCopy, Export!Preflight, Export!MakeStaging,
         Export!Open, Export!Close, Export!WriteFixture, Export!NextFile, Export!Validate,
           Export!Rename, Export!Clean, Export!Error, Export!Interrupt, Export!Kill, Export!Goto,
         Export!Cleaning
    <3>3. step'[p] = "raised" => Export!Clean(p)
      BY <1>0 DEF Export!Step, Export!Gate, Export!MakeScratch, Export!Read, Export!VerifyCopy,
        Export!Preflight, Export!MakeStaging,
         Export!Open, Export!Close, Export!WriteFixture, Export!NextFile, Export!Validate,
           Export!Rename, Export!Error, Export!Interrupt, Export!Kill, Export!Goto
    <3>4. Export!Clean(p) => left'[p] = {}
      BY <1>0 DEF Export!Clean
    <3> QED
      BY <2>1, <2>3, <3>2, <3>3, <3>4 DEF Outcome
  <2> QED
    BY <2>2, <2>3
<1> QED
  BY <1>1, <1>2, DestinationStep

-----------------------------------------------------------------------------
(* Other operations, whose destination may be the same.                    *)
LEMMA OtherExportsKept ==
  ASSUME NEW Parts, Export!JobsAreWellFormed(Parts), EInv(Parts), NEW p \in Export!Operations,
         Export!Step(p), UNCHANGED <<cast, Export!world>>, NEW q \in Export!Operations \ {p}
  PROVE  InPlace(q)' /\ Checked(q)' /\ Outcome(q)'
<1>0. /\ step'[q] = step[q] /\ at'[q] = at[q] /\ preflight'[q] = preflight[q]
      /\ scratch'[q] = scratch[q] /\ staged'[q] = staged[q] /\ left'[q] = left[q]
  BY OtherExportsStay DEF EInv
<1>1. InPlace(q) /\ Checked(q) /\ Outcome(q) /\ Export!Files(q)' = Export!Files(q)
        /\ Export!Target(q)' = Export!Target(q)
  BY DEF EInv, Export!Files, Export!Target
<1>2. InPlace(q)'
  BY <1>0, <1>1 DEF InPlace
<1>3. Complete(q)' <=> Complete(q)
  BY <1>0, <1>1 DEF Complete
<1>4. IsThere(q)' <=> IsThere(q)
  <2>1. /\ DOMAIN dest = Paths /\ Export!Target(q) \in Paths /\ Export!Target(p) \in Paths
        /\ q \notin {Absent, Empty} /\ p # q
    BY ExportJobs DEF EInv, ExportTyped
  <2> QED
    BY <1>1, <2>1, DestinationStep DEF IsThere, EInv
<1>5. Checked(q)' /\ Outcome(q)'
  BY <1>0, <1>1, <1>3, <1>4 DEF Checked, Outcome
<1> QED
  BY <1>2, <1>5

LEMMA PlacedStep ==
  ASSUME NEW Parts, Export!JobsAreWellFormed(Parts), ExportTyped(Parts), Placed,
         NEW p \in Export!Operations, Export!Step(p), UNCHANGED <<cast, Export!world>>
  PROVE  Placed'
<1>0. DOMAIN dest = Paths /\ UNCHANGED Export!Operations
        /\ \A q \in Export!Operations : Export!Target(q)' = Export!Target(q)
  BY DEF ExportTyped, Export!Operations, Export!Target
<1> SUFFICES ASSUME NEW path \in Paths, dest'[path] \in Export!Operations
             PROVE  path = Export!Target(dest'[path])
  BY <1>0 DEF Placed
<1>1. \/ dest'[path] = dest[path]
      \/ path = Export!Target(p) /\ dest'[path] = p
  BY <1>0, DestinationStep
<1> QED
  BY <1>0, <1>1 DEF Placed

(* What other programs do.                                                 *)
LEMMA Surroundings ==
  ASSUME NEW Parts, Export!JobsAreWellFormed(Parts), EInv(Parts), UNCHANGED cast,
         \/ \E f \in Sources, content \in Contents : Export!Edit(f, content)
         \/ \E path \in Paths : Export!Make(path)
  PROVE  EInv(Parts)'
<1>0. ExportTyped(Parts) /\ MaxEdits \in Nat /\ UNCHANGED Export!Operations
  BY DEF EInv, Export!JobsAreWellFormed, Export!Operations
<1>1. UNCHANGED <<step, at, preflight, got, scratch, staged, left>>
  BY DEF Export!Edit, Export!Make, Export!reading, Export!files
<1>2. ExportTyped(Parts)'
  <2>1. /\ source' \in [Sources -> Contents] /\ stamp' \in [Sources -> 0..MaxEdits]
        /\ edits' \in 0..MaxEdits
    <3>1. CASE \E f \in Sources, content \in Contents : Export!Edit(f, content)
      <4>1. PICK f \in Sources, content \in Contents : Export!Edit(f, content)
        BY <3>1
      <4>2. edits + 1 \in 0..MaxEdits
        BY <1>0, <4>1 DEF Export!Edit, ExportTyped
      <4> QED
        BY <1>0, <4>1, <4>2 DEF Export!Edit, ExportTyped
    <3>2. CASE \E path \in Paths : Export!Make(path)
      BY <1>0, <3>2 DEF Export!Make, ExportTyped, Export!world
    <3> QED
      BY <3>1, <3>2
  <2>2. dest' \in [Paths -> {Absent, Empty, Occupied} \cup Export!Operations]
    BY <1>0 DEF Export!Edit, Export!Make, ExportTyped
  <2> QED
    BY <1>0, <1>1, <2>1, <2>2 DEF ExportTyped
<1>3. \A path \in Paths :
        \/ dest'[path] = dest[path]
        \/ dest[path] \in {Absent, Empty} /\ dest'[path] \in {Empty, Occupied}
  BY <1>0 DEF Export!Edit, Export!Make, ExportTyped
<1>4. \A q \in Export!Operations : /\ q \notin {Absent, Empty, Occupied} /\ Export!Target(q) \in Paths
                                  /\ Export!Target(q)' = Export!Target(q)
                                       /\ Export!Files(q)' = Export!Files(q)
  BY <1>0, ExportJobs DEF ExportTyped, Export!Target, Export!Files
<1>5. Placed'
  <2> SUFFICES ASSUME NEW path \in Paths, dest'[path] \in Export!Operations
               PROVE  path = Export!Target(dest'[path])
    BY <1>0, <1>4 DEF Placed
  <2> QED
    BY <1>3, <1>4 DEF EInv, Placed
<1>6. ASSUME NEW q \in Export!Operations PROVE InPlace(q)' /\ Checked(q)' /\ Outcome(q)'
  <2>1. InPlace(q) /\ Checked(q) /\ Outcome(q)
    BY DEF EInv
  <2>2. IsThere(q)' <=> IsThere(q)
    BY <1>3, <1>4 DEF IsThere
  <2>3. Complete(q)' <=> Complete(q)
    BY <1>1, <1>4 DEF Complete
  <2> QED
    BY <1>1, <1>4, <2>1, <2>2, <2>3 DEF InPlace, Checked, Outcome
<1> QED
  BY <1>0, <1>2, <1>5, <1>6 DEF EInv

LEMMA EInvStep ==
  ASSUME NEW Parts, Export!JobsAreWellFormed(Parts), EInv(Parts), [Export!Next]_(Export!vars)
  PROVE  EInv(Parts)'
<1>1. CASE UNCHANGED Export!vars
  BY <1>1 DEF Export!vars, Export!world, Export!reading, Export!files, EInv, ExportTyped, Placed,
    InPlace, Checked, Outcome,
     IsThere, Complete, Export!Operations, Export!Files, Export!Target
<1>2. CASE UNCHANGED <<cast, Export!world>> /\ \E p \in Export!Operations : Export!Step(p)
  <2>1. PICK p \in Export!Operations : Export!Step(p)
    BY <1>2
  <2>2. ExportTyped(Parts) /\ Placed /\ InPlace(p) /\ Checked(p) /\ Outcome(p) /\ UNCHANGED Export!Operations
    BY <1>2 DEF EInv, Export!Operations
  <2>3. ExportTyped(Parts)'
    BY <1>2, <2>1, <2>2, TypedStep
  <2>4. Placed'
    BY <1>2, <2>1, <2>2, PlacedStep
  <2>5. InPlace(p)' /\ Checked(p)' /\ Outcome(p)'
    BY <1>2, <2>1, <2>2, InPlaceStep, CheckedStep, OutcomeStep
  <2>6. \A q \in Export!Operations \ {p} : InPlace(q)' /\ Checked(q)' /\ Outcome(q)'
    BY <1>2, <2>1, OtherExportsKept
  <2> QED
    BY <2>2, <2>3, <2>4, <2>5, <2>6 DEF EInv
<1> QED
  BY <1>1, <1>2, Surroundings DEF Export!Next

LEMMA EInvIsGentle ==
  ASSUME NEW Parts, Export!JobsAreWellFormed(Parts), EInv(Parts), Export!Next
  PROVE  Export!KeepsOccupied
<1> SUFFICES ASSUME NEW path \in Paths, dest[path] \notin {Absent, Empty}
             PROVE  dest'[path] = dest[path]
  BY DEF Export!KeepsOccupied
<1>1. ExportTyped(Parts) /\ DOMAIN dest = Paths
  BY DEF EInv, ExportTyped
<1>2. CASE UNCHANGED <<cast, Export!world>> /\ \E p \in Export!Operations : Export!Step(p)
  BY <1>1, <1>2, DestinationStep
<1>3. CASE \/ \E f \in Sources, content \in Contents : Export!Edit(f, content)
           \/ \E t \in Paths : Export!Make(t)
  BY <1>1, <1>3 DEF Export!Edit, Export!Make
<1> QED
  BY <1>2, <1>3 DEF Export!Next

-----------------------------------------------------------------------------
(* The components side by side.                                            *)
everything == <<component, rows, publications, exports, migrations>>

ComponentInv ==
  /\ IInv
  /\ component = "publication" => PInv
  /\ component = "export" => EInv(Chunks)
  /\ component = "migration" => MInv

LEMMA RowsRestInit ==
  ASSUME RowsRest PROVE IInv
BY InitEstablishes DEF RowsRest

LEMMA ComponentInit ==
  ASSUME EvidenceInit PROVE ComponentInv
<1>1. IInv
  BY InitEstablishes, RowsRestInit DEF EvidenceInit
<1>2. ASSUME component = "publication" PROVE PInv
  <2>1. Publication!Init
    BY <1>2 DEF EvidenceInit
  <2> QED
    BY <2>1, OptionsAssumption, PInvInit
<1>3. ASSUME component = "export" PROVE EInv(Chunks)
  <2>1. Export!Init
    BY <1>3 DEF EvidenceInit
  <2> QED
    BY <2>1, JobsAssumption, EInvInit
<1>4. ASSUME component = "migration" PROVE MInv
  <2>1. Migration!Init
    BY <1>4 DEF EvidenceInit
  <2> QED
    BY <2>1, KnowledgeAssumption, MInvInit
<1> QED
  BY <1>1, <1>2, <1>3, <1>4 DEF ComponentInv

LEMMA ComponentNext ==
  ASSUME ComponentInv, [EvidenceNext]_everything
  PROVE  ComponentInv' /\ UNCHANGED component
<1>1. UNCHANGED component
  BY DEF EvidenceNext, everything
<1>2. IInv'
  <2>1. [Next]_vars
    BY DEF EvidenceNext, everything, rows, vars
  <2> QED
    BY <2>1, NextPreserves DEF ComponentInv
<1>3. ASSUME component = "publication" PROVE PInv'
  <2>1. Publication!Next \/ UNCHANGED publications
    BY <1>3 DEF EvidenceNext, everything
  <2>2. [Publication!Next]_(Publication!vars)
    BY <2>1 DEF publications, Publication!vars, Publication!options
  <2>3. PInv
    BY <1>3 DEF ComponentInv
  <2> QED
    BY <2>2, <2>3, OptionsAssumption, PInvStep
<1>4. ASSUME component = "export" PROVE EInv(Chunks)'
  <2>1. Export!Next \/ UNCHANGED exports
    BY <1>4 DEF EvidenceNext, everything
  <2>2. [Export!Next]_(Export!vars)
    BY <2>1 DEF exports, Export!vars, Export!world, Export!reading, Export!files
  <2>3. EInv(Chunks)
    BY <1>4 DEF ComponentInv
  <2> QED
    BY <2>2, <2>3, JobsAssumption, EInvStep
<1>5. ASSUME component = "migration" PROVE MInv'
  <2>1. Migration!Next \/ UNCHANGED migrations
    BY <1>5 DEF EvidenceNext, everything
  <2>2. [Migration!Next]_(Migration!vars)
    BY <2>1 DEF migrations, Migration!vars
  <2>3. MInv
    BY <1>5 DEF ComponentInv
  <2> QED
    BY <2>2, <2>3, MInvStep
<1> QED
  BY <1>1, <1>2, <1>3, <1>4, <1>5 DEF ComponentInv

LEMMA ComponentImplies ==
  ASSUME ComponentInv
  PROVE  /\ RowsAreMaterializedOnce /\ PublicationIsOrdered
         /\ component = "export" => Export!ExportIsWhole
         /\ component = "migration" => Migration!PromisesAreKept
<1>1. RowsAreMaterializedOnce
  BY InvariantImplies DEF ComponentInv
<1>2. PublicationIsOrdered
  BY OptionsAssumption, PInvImplies DEF ComponentInv, PublicationIsOrdered
<1>3. component = "export" => Export!ExportIsWhole
  BY JobsAssumption, EInvImplies DEF ComponentInv
<1>4. component = "migration" => Migration!PromisesAreKept
  BY MInvImplies DEF ComponentInv
<1> QED
  BY <1>1, <1>2, <1>3, <1>4

LEMMA ComponentInvariance == EvidenceSpec => []ComponentInv
<1>1. EvidenceInit => ComponentInv
  BY ComponentInit
<1>2. ComponentInv /\ [EvidenceNext]_everything => ComponentInv'
  BY ComponentNext
<1> QED
  BY <1>1, <1>2, PTL DEF EvidenceSpec, everything

(* Whichever component runs, an attempt leaves all rows of its result or   *)
(* none, and a result that brings one of its keys is there once            *)
(* (RowsAreMaterializedOnce).                                              *)
THEOREM EvidenceMaterializedOnce == EvidenceSpec => []RowsAreMaterializedOnce
<1>1. ComponentInv => RowsAreMaterializedOnce
  BY ComponentImplies
<1> QED
  BY <1>1, ComponentInvariance, PTL

(* Whatever the iterable yields and however the calls of the adapter are   *)
(* interleaved: the receipts and the error are those of a publication one  *)
(* by one, within the window, and nothing happens afterwards               *)
(* (publish_evidence_bundles; PublicationIsOrdered).                       *)
THEOREM EvidencePublished == EvidenceSpec => []PublicationIsOrdered
<1>1. ComponentInv => PublicationIsOrdered
  BY ComponentImplies
<1> QED
  BY <1>1, ComponentInvariance, PTL

(* Whatever is edited while it is read, whichever export is interrupted or *)
(* killed and however many meet at one place: what is at a destination is  *)
(* whole and as declared, and only an empty directory is replaced          *)
(* (ExportIsWhole).                                                        *)
THEOREM EvidenceExported == EvidenceSpec => ExportIsWhole
<1>1. ComponentInv => (component = "export" => Export!ExportIsWhole)
  BY ComponentImplies
<1>2. ComponentInv /\ [EvidenceNext]_everything => [component = "export" => Export!KeepsOccupied]_exports
  <2> SUFFICES ASSUME ComponentInv, EvidenceNext, component = "export" PROVE Export!KeepsOccupied
    BY DEF everything
  <2>1. Export!Next /\ EInv(Chunks)
    BY DEF EvidenceNext, ComponentInv
  <2> QED
    BY <2>1, JobsAssumption, EInvIsGentle
<1> QED
  BY <1>1, <1>2, ComponentInvariance, PTL DEF EvidenceSpec, everything, ExportIsWhole

(* Whatever artifacts are described, whatever is known of them and         *)
(* whichever plans are built: what is planned is executed, for its         *)
(* artifact only, capabilities imply one another, and none is lost by      *)
(* learning (PromisesAreKept).                                             *)
THEOREM EvidenceMigrated == EvidenceSpec => PromisesAreKept
<1>1. ComponentInv => (component = "migration" => Migration!PromisesAreKept)
  BY ComponentImplies
<1>2. ComponentInv /\ [EvidenceNext]_everything => [component = "migration" => Migration!LosesNothing]_migrations
  <2> SUFFICES ASSUME ComponentInv, EvidenceNext, component = "migration" PROVE Migration!LosesNothing
    BY DEF everything
  <2>1. Migration!Next /\ MInv
    BY DEF EvidenceNext, ComponentInv
  <2> QED
    BY <2>1, MInvLosesNothing
<1> QED
  BY <1>1, <1>2, ComponentInvariance, PTL DEF EvidenceSpec, everything, PromisesAreKept
=============================================================================
