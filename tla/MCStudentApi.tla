---------------------------- MODULE MCStudentApi ----------------------------
(* Model checking of the requests to the service.  The forms are those that *)
(* differ in what a handler does with them; student 1 exists at the start.  *)
EXTENDS StudentApi

CONSTANTS ip1, ip2, name1, name2

Row(name, score, class) == [name |-> name, score |-> score, class |-> class]
Header == Row(Text, Text, Text)

\* A row with cells out of range, and one without a name.
MCSheet == <<Header, Row(name1, 101, -1), Row(Blank, 50, 1)>>

Send(kind, id) == [ip |-> ip1, kind |-> kind, token |-> TRUE, valid |-> TRUE,
                   id |-> id, class |-> FALSE, sheet |-> <<>>]

MCForm ==
  {Send("get", 1), Send("list", 0), Send("add", 0), Send("update", 1),
   Send("delete", 1), Send("score", 1),
   [Send("add", 2) EXCEPT !.class = TRUE],
   [Send("delete", 1) EXCEPT !.token = FALSE],
   [Send("add", 1) EXCEPT !.valid = FALSE, !.ip = ip2],
   [Send("upload", 0) EXCEPT !.sheet = MCSheet]}
=============================================================================
