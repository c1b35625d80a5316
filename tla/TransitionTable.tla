-------------------------- MODULE TransitionTable --------------------------
(***************************************************************************)
(* The table-driven FSM engine of pwrseq-monitor                           *)
(* (include/fsm/transition_table.hpp).  A table is a set of rows; a row    *)
(* names the state it leaves, the event it answers, its guard, the state   *)
(* it enters and its action.  The engine walks the table and takes the     *)
(* first row whose state, event and guard match.  In each of the three     *)
(* tables of the daemon the guards of rows that share a state and an event *)
(* exclude each other, so that the order of the rows is immaterial and a   *)
(* table is a set.                                                         *)
(*                                                                         *)
(* The Bug* operators here and in the other modules are the project's      *)
(* mutants: plausible mistakes in the definition that follows them, which  *)
(* no specification uses.                                                  *)
(***************************************************************************)

TransitionRow(from, event, guard, to, action) ==
    [from |-> from, event |-> event, guard |-> guard, to |-> to,
     action |-> action]

(* The rows for a state and an event; each engine keeps those whose guard  *)
(* holds.                                                                  *)
Matching(table, state, event) ==
    {r \in table : r.from = state /\ r.event = event}

=============================================================================
