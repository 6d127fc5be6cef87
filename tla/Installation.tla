---------------------------- MODULE Installation ----------------------------
(***************************************************************************)
(* What `alc update` promises of an install directory (src/README.md, the  *)
(* section on updates; src/src/update.rs): the build that a new invocation *)
(* runs is exchanged in one step, it only goes back when a rollback was    *)
(* asked for, and the build it replaces is kept for one.  What ran before  *)
(* the first activation was finished is kept too, but may have been newer. *)
(***************************************************************************)
EXTENDS Naturals

CONSTANTS Builds, Version, None

VARIABLES
  current,      \* the build a new invocation runs
  retained,     \* the builds kept on disk
  established,  \* whether an activation has been finished
  asked         \* whether a rollback is asked for

vars == <<current, retained, established, asked>>

Init ==
  /\ current \in Builds \cup {None}
  /\ retained \in {{}, {current} \ {None}}
  /\ established \in {FALSE, current # None}
  /\ asked = FALSE

Ask == asked' = ~asked /\ UNCHANGED <<current, retained, established>>

\* Builds are added, and nothing changes for a new invocation.
Publish ==
  /\ ~asked
  /\ retained' \in SUBSET Builds /\ retained \subseteq retained'
  /\ UNCHANGED <<current, established, asked>>

\* A retained build runs from now on, and what it replaces is retained too.
Exchange == current' \in retained /\ current \in retained \cup {None}

Install ==
  /\ ~asked /\ Exchange
  /\ established => Version[current'] >= Version[current]
  /\ established' \in {established, TRUE}
  /\ UNCHANGED <<retained, asked>>

\* Any retained build is brought back on request.
Rollback ==
  /\ asked /\ established /\ Exchange
  /\ asked' = FALSE
  /\ UNCHANGED <<retained, established>>

Next == Ask \/ Publish \/ Install \/ Rollback

Spec == Init /\ [][Next]_vars
=============================================================================
