------------------------------ MODULE RunLedger ------------------------------
(***************************************************************************)
(* What the canonical record of one run promises, whoever writes it: the   *)
(* status lifecycle of valid_run_transition (src/storage/runs/write.rs),   *)
(* orders that are placed and closed once, fills that never exceed an      *)
(* order, and nothing written after a terminal status.  A stopped run has  *)
(* closed every order; a failed one may have left some open.               *)
(***************************************************************************)
EXTENDS Integers

CONSTANTS Orders, Qty

VARIABLES
  status,  \* "none", "created", "running", "stopped" or "failed"
  order,   \* order -> "absent", "open" or "closed"
  filled   \* order -> quantity of its recorded fills

ledgerVars == <<status, order, filled>>

LedgerInit ==
  /\ status = "none"
  /\ order = [o \in Orders |-> "absent"]
  /\ filled = [o \in Orders |-> 0]

CreateLedger ==
  /\ status = "none"
  /\ status' = "created"
  /\ UNCHANGED <<order, filled>>

Begin ==
  /\ status = "created"
  /\ status' = "running"
  /\ UNCHANGED <<order, filled>>

Place(o) ==
  /\ status = "running"
  /\ order[o] = "absent"
  /\ order' = [order EXCEPT ![o] = "open"]
  /\ UNCHANGED <<status, filled>>

Fill(o) ==
  /\ status = "running"
  /\ order[o] = "open"
  /\ \E q \in 1..(Qty - filled[o]) : filled' = [filled EXCEPT ![o] = @ + q]
  /\ UNCHANGED <<status, order>>

Close(o) ==
  /\ status = "running"
  /\ order[o] = "open"
  /\ order' = [order EXCEPT ![o] = "closed"]
  /\ UNCHANGED <<status, filled>>

Stop ==
  /\ status = "running"
  /\ \A o \in Orders : order[o] # "open"
  /\ status' = "stopped"
  /\ UNCHANGED <<order, filled>>

Fail ==
  /\ status \in {"created", "running"}
  /\ status' = "failed"
  /\ UNCHANGED <<order, filled>>

LedgerNext ==
  \/ CreateLedger \/ Begin \/ Stop \/ Fail
  \/ \E o \in Orders : Place(o) \/ Fill(o) \/ Close(o)

LedgerSpec == LedgerInit /\ [][LedgerNext]_ledgerVars
=============================================================================
