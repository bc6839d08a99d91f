---------------------------- MODULE MCCompletion ----------------------------
(* The instance of Completion for TLC: two commands, one a part of the other. *)
EXTENDS Completion, TLC

MCMoving == [progress : BOOLEAN, force : {FALSE}]
MCEndings ==
  {[outcome |-> "completed", force |-> FALSE], [outcome |-> "completed", force |-> TRUE],
   [outcome |-> "blocked", force |-> TRUE]}

Alike == Permutations(Tasks)

MCReports == {{}, {"test_one"}}
MCPartOf == {<<"test", "test">>, <<"test", "test_one">>, <<"test_one", "test_one">>}
=============================================================================
