------------------------- MODULE AbsentPublication -------------------------
(***************************************************************************)
(* What publishing at absent paths promises to everyone who looks at the   *)
(* paths: a publication appears at an absent path, is never replaced       *)
(* except by a writer that was asked to overwrite, and can be taken back   *)
(* only by the operation that made it, before that operation returns.      *)
(* Temporary files, system calls and checks do not appear.                 *)
(***************************************************************************)
EXTENDS Integers, Sequences

CONSTANTS
  Casts,     \* functions from operations to what they were asked to publish
  Paths,
  MayExist,  \* the paths that may be occupied at the start
  Absent,    \* nothing is at the path
  Other      \* what was there before

VARIABLES
  cast,      \* the operations of this behaviour
  entry,     \* what is at each path
  returned,  \* the operations that reported success
  crashed    \* the machine lost power

vars == <<cast, entry, returned, crashed>>

Operations == DOMAIN cast
Publication(p, i) == <<p, i>>
Overwrites(p) == cast[p].kind = "replace"

Init ==
  /\ cast \in Casts
  /\ entry \in [Paths -> {Absent, Other}]
  /\ \A path \in Paths \ MayExist : entry[path] = Absent
  /\ returned = {} /\ crashed = FALSE

Publish(p, i) ==
  /\ p \notin returned
  /\ entry[cast[p].targets[i]] = Absent \/ Overwrites(p)
  /\ entry' = [entry EXCEPT ![cast[p].targets[i]] = Publication(p, i)]
  /\ UNCHANGED returned

Withdraw(p, i) ==
  /\ p \notin returned
  /\ entry[cast[p].targets[i]] = Publication(p, i)
  /\ entry' = [entry EXCEPT ![cast[p].targets[i]] = Absent]
  /\ UNCHANGED returned

(* Success is reported when every target holds the publication, or that of *)
(* a later writer that overwrites.                                         *)
Return(p) ==
  /\ \A i \in 1..Len(cast[p].targets) :
       \/ entry[cast[p].targets[i]] = Publication(p, i)
       \/ \E q \in Operations \ {p} :
            Overwrites(q) /\ entry[cast[p].targets[i]] = Publication(q, 1)
  /\ returned' = returned \cup {p}
  /\ UNCHANGED entry

(* Directories are not forced to the disk: what is at a path after a loss  *)
(* of power is whatever was there at some earlier time.                    *)
LosePower ==
  /\ crashed' = TRUE
  /\ entry' \in [Paths -> {Absent, Other} \cup
       {Publication(p, i) : p \in Operations, i \in 1..2}]
  /\ UNCHANGED returned

Next ==
  /\ ~crashed
  /\ UNCHANGED cast
  /\ \/ /\ UNCHANGED crashed
        /\ \E p \in Operations :
             \/ \E i \in DOMAIN cast[p].targets : Publish(p, i) \/ Withdraw(p, i)
             \/ Return(p)
     \/ LosePower

Spec == Init /\ [][Next]_vars
=============================================================================
