------------------------------- MODULE Requests -------------------------------
(***************************************************************************)
(* The requests the API serves.  A handler does one query after another,   *)
(* each of which commits by itself; between two of them the queries of     *)
(* other requests happen, or the request dies.  A specification of a       *)
(* component says what a request at work holds, and which steps it takes.  *)
(***************************************************************************)

CONSTANTS
    Reqs,  \* requests the API may be serving at the same time
    Modes  \* conditions of service to consider, see mode

ASSUME RequestsAssumption == \A m \in Modes : m.overlap \in BOOLEAN /\ m.faults \in BOOLEAN

VARIABLES
    mode,  \* how requests are served: chosen by Init, never changed
    req    \* req[r]: the request r is serving

\* Deployed, requests overlap: the code serialises nothing.  The other mode, in
\* which requests about one thing take turns, tells the properties that only
\* overlap can break.
MayOverlap == mode.overlap
\* A request may die between two queries: the server stops, or a query fails.
Faults == mode.faults

Idle == [pc |-> "idle"]

At(r, label)  == req[r].pc = label
Goto(r, next) == req' = [req EXCEPT ![r] = next]
Done(r)       == Goto(r, Idle)

=============================================================================
