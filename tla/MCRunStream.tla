---------------------------- MODULE MCRunStream ----------------------------
(***************************************************************************)
(* One run seen from its three sides: what its actor records (RunRecords), *)
(* how its snapshots reach a console (RunStream) and how its rows are read *)
(* in pages while they are written (RunPages).  The last two only read,    *)
(* and take of the actor that it publishes or appends, at any time; no     *)
(* step of one side changes a variable of another.  A behaviour is an      *)
(* interleaving of one of each, and side says which is explored.           *)
(*                                                                         *)
(* A tenth stands for 10 000 basis points, and two units of time for a     *)
(* minute: a run starts on a minute or half way through it.  The grid has  *)
(* two orders of three units on each side, filled two at a time, so three  *)
(* trades carry the position from one side of zero to the other.           *)
(***************************************************************************)
EXTENDS RunRecords, RunStream, RunPages

VARIABLE side

vars == <<side, recordsVars, streamVars, pagesVars>>

MCGrid ==
  [anchor |-> "previous_close", fixed |-> 0, spacing |-> 1, levels |-> 2, quantity |-> 3]
\* Its second buy level is at zero: on_start refuses it.
MCSteepGrid ==
  [anchor |-> "fixed", fixed |-> 10, spacing |-> 5, levels |-> 2, quantity |-> 3]
MCConfigs == {MCGrid, MCSteepGrid}

\* Minutes unlike one another; the grid starts from the close at 10.
MCPriceOf ==
  [m \in {0, 2, 4, 6, 8, 10} |->
     [open |-> 10, high |-> 11 + (m % 3), low |-> 9 - (m % 4),
      close |-> IF m = 2 THEN 10 ELSE 9 + (m % 5), volume |-> m]]

Recording(A) == side = "records" /\ A /\ UNCHANGED <<side, streamVars, pagesVars>>
Streaming(A) == side = "stream" /\ A /\ UNCHANGED <<side, recordsVars, pagesVars>>
Paging(A) == side = "pages" /\ A /\ UNCHANGED <<side, recordsVars, streamVars>>

Init ==
  /\ side \in {"records", "stream", "pages"}
  /\ RecordsInit /\ StreamInit /\ PagesInit
Next == Recording(RecordsNext) \/ Streaming(StreamNext) \/ Paging(PagesNext)

\* The server's tasks run, the browser handles what arrives and its timer fires.  The
\* actor need not publish, nor a user do anything, sign in again included.
Fairness ==
  /\ WF_vars(Streaming(SendSnapshot))
  /\ WF_vars(Streaming(PageStep)) /\ WF_vars(Streaming(TimerFires))
  /\ \A s \in Sockets :
       WF_vars(Streaming(ServerStep(s))) /\ WF_vars(Streaming(BrowserStep(s)))
Spec == Init /\ [][Next]_vars /\ Fairness

TypeOK == RecordsTypeOK /\ StreamTypeOK /\ PagesTypeOK

\* The view of ViewMovesForward, at every step.
ViewGoesForward == [][ViewMovesForward]_vars

\* The view of CatchesUp and LearnsTheEnd, for every revision but the first, which any view
\* has reached, of a browser that has a session in the end.
ViewConverges ==
  <>[]session => (\A r \in 2..MaxRevision : CatchesUp(r)) /\ LearnsTheEnd
=============================================================================
