------------------------- MODULE MCFilePublication -------------------------
(***************************************************************************)
(* Pairs of operations: a run that publishes a schedule and a result, and  *)
(* a writer that overwrites the result, beside operations of every kind.   *)
(* Replay artifacts and trace views are published where nothing is and     *)
(* nobody else publishes, which is what their clean-up takes for granted.  *)
(***************************************************************************)
EXTENDS FilePublication

Job(kind, targets) == [kind |-> kind, targets |-> targets]

Both == Job("outputs", <<"schedule", "result">>)
Overwrite == Job("replace", <<"result">>)

Rivals ==
  {Both, Job("outputs", <<"schedule">>), Job("guarded", <<"result">>), Overwrite}

Replay == Job("single", <<"replay">>)

MCCasts ==
  {<<Both, job>> : job \in Rivals \cup {Replay}} \cup
  {<<Overwrite, job>> : job \in Rivals \ {Both}}

(* One replay artifact, at a path that may exist.                          *)
OneReplay == {<<Replay>>}

ASSUME CastsCleanUp == Casts = OneReplay \/ CleanUpMeetsOwnFiles
=============================================================================
