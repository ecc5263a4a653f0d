------------------------------- MODULE Workflow -------------------------------
(***************************************************************************)
(* What a table with a status column promises: a row appears in the first  *)
(* status, and a step takes rows only along the moves the workflow allows. *)
(* Components whose rows have such a life cycle are shown to implement     *)
(* this specification; it models no code of its own.                       *)
(***************************************************************************)
CONSTANTS
    Items,   \* ids of the rows
    Absent,  \* the status of a row that does not exist
    First,   \* the status a row is created with
    Moves    \* <<from, to>> pairs a single step may take a row along

VARIABLE status

Init == status = [x \in Items |-> Absent]

Allowed == Moves \cup {<<Absent, First>>}

\* One query may move several rows (updateMany), each along an allowed move.
Next ==
    /\ status' = [x \in Items |-> status'[x]]
    /\ \A x \in Items :
         status'[x] # status[x] => <<status[x], status'[x]>> \in Allowed

Spec == Init /\ [][Next]_status

=============================================================================
