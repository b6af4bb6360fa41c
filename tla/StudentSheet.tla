---------------------------- MODULE StudentSheet ----------------------------
(***************************************************************************)
(* ParseStudentExcel: what students an uploaded sheet stands for.  A sheet *)
(* is the sequence of its rows, the header first; a cell is a number, Blank*)
(* if it is missing or all spaces, or Text.  Scores that are no numbers of *)
(* the interval, NaN and the infinities among them, are Text.              *)
(***************************************************************************)
EXTENDS Integers, Sequences

CONSTANTS
  Blank,   \* a cell without content
  Text     \* a cell that strconv refuses or parses to no finite number

\* Mutant: any number is a score.
MutScore(cell) == IF cell \in Int THEN cell ELSE 0

\* The second and third column, with their defaults.
Score(cell) == IF cell \in 0..100 THEN cell ELSE 0
ClassID(cell) == IF cell \in Nat THEN cell ELSE 0

\* A row without a name is skipped, one that is all empty among them.
Skipped(row) == row.name = Blank

Student(row) == [name |-> row.name, score |-> Score(row.score),
                 class_id |-> ClassID(row.class)]

\* The loop over the data rows.
ParseRows(rows) ==
  LET students[k \in 0..Len(rows)] ==
        IF k = 0 THEN <<>>
        ELSE IF Skipped(rows[k]) THEN students[k - 1]
        ELSE Append(students[k - 1], Student(rows[k]))
  IN students[Len(rows)]

\* No student, and an error, for a sheet without a data row or without a
\* student in it.
ParseStudentExcel(rows) == IF Len(rows) < 2 THEN <<>> ELSE ParseRows(Tail(rows))
=============================================================================
