------------------------------ MODULE TurnLife -----------------------------
(***************************************************************************)
(* What the turn session promises its caller, src/s2s-session.h 17 to 34:  *)
(* the life of a turn, without the audio windows that decide it.           *)
(*                                                                         *)
(* A turn is open while the user speaks or pauses.  Committed, it stays    *)
(* resumable until it is final, which takes its grace, counted in windows, *)
(* and the caller's release.  Once final it never comes back.              *)
(***************************************************************************)
EXTENDS Integers

VARIABLES
  turn, rev,   (* the latest turn and its revision                           *)
  stage,       (* closed (no turn in flight), open or committed              *)
  age,         (* windows since the commit, while the grace runs             *)
  due,         (* the grace the commit was given                             *)
  asked        (* the caller released the committed turn                     *)

vars == <<turn, rev, stage, age, due, asked>>

Cleared == age' = 0 /\ due' = 0 /\ asked' = FALSE

Init ==
  /\ turn = 0
  /\ rev = 0
  /\ stage = "closed"
  /\ age = 0
  /\ due = 0
  /\ asked = FALSE

(* The grace of the committed turn ends on the next window, and the caller *)
(* already released it.                                                    *)
Standing == stage = "committed" /\ asked /\ age + 1 = due

(* A new turn opens only once the latest stands, on that window at the     *)
(* earliest: a committed turn is never dropped.                            *)
Open ==
  /\ stage = "closed" \/ Standing
  /\ turn' = turn + 1
  /\ rev' = 0
  /\ stage' = "open"
  /\ Cleared

(* The user comes back before the commit.                                  *)
Revise ==
  /\ stage = "open"
  /\ rev' = rev + 1
  /\ UNCHANGED <<turn, stage, age, due, asked>>

Commit ==
  /\ stage = "open"
  /\ stage' = "committed"
  /\ age' = 0
  /\ due' \in Nat
  /\ asked' = FALSE
  /\ UNCHANGED <<turn, rev>>

(* The user comes back after the commit, before the turn is final.         *)
Resume ==
  /\ stage = "committed"
  /\ ~Standing
  /\ stage' = "open"
  /\ rev' = rev + 1
  /\ Cleared
  /\ UNCHANGED turn

(* One window of the grace.                                                *)
Age ==
  /\ stage = "committed"
  /\ ~Standing
  /\ age < due
  /\ age' = age + 1
  /\ UNCHANGED <<turn, rev, stage, due, asked>>

(* The caller releases the turn: final at once when the grace is over.     *)
Release ==
  /\ stage = "committed"
  /\ age < due
  /\ asked' = TRUE
  /\ UNCHANGED <<turn, rev, stage, age, due>>

Stand ==
  /\ stage = "committed"
  /\ Standing \/ age = due
  /\ stage' = "closed"
  /\ Cleared
  /\ UNCHANGED <<turn, rev>>

Next == Open \/ Revise \/ Commit \/ Resume \/ Age \/ Release \/ Stand

Spec == Init /\ [][Next]_vars
=============================================================================
