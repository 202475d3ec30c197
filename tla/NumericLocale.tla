---------------------------- MODULE NumericLocale ----------------------------
(***************************************************************************)
(* The locale numbers are formatted in, created by whichever thread formats*)
(* first while the others spin.  src/decision.inc:81-100.                  *)
(***************************************************************************)
EXTENDS Integers

CONSTANT Threads

VARIABLES
  state,             \* 0 unused, 1 being created, 2 created, -1 not to be had
  locale,            \* what the shared pointer holds: "none" or "numeric"
  at                 \* where each thread is in jb_numeric_locale

vars == <<state, locale, at>>

Init == state = 0 /\ locale = "none" /\ at = [t \in Threads |-> "out"]

Goto(t, where) == at' = [at EXCEPT ![t] = where]

Format(t) == at[t] = "out" /\ Goto(t, "claim") /\ UNCHANGED <<state, locale>>

(* The exchange from 0 to 1: one thread creates, *)
Claim(t) ==
  /\ at[t] = "claim" /\ state = 0
  /\ state' = 1 /\ Goto(t, "create")
  /\ UNCHANGED locale

(* the others spin. *)
Lose(t) ==
  /\ at[t] = "claim" /\ state # 0
  /\ Goto(t, "spin")
  /\ UNCHANGED <<state, locale>>

Create(t) ==
  /\ at[t] = "create"
  /\ locale' \in {"none", "numeric"}
  /\ Goto(t, "publish")
  /\ UNCHANGED state

(* Definitions called Faulty... are mistakes a run must tell from the code. *)

(* A locale that is not to be had leaves the state as it was. *)
FaultyPublish(t) ==
  /\ at[t] = "publish" /\ Goto(t, "check")
  /\ state' = IF locale = "none" THEN state ELSE 2
  /\ UNCHANGED locale

Publish(t) ==
  /\ at[t] = "publish" /\ Goto(t, "check")
  /\ state' = IF locale = "none" THEN -1 ELSE 2
  /\ UNCHANGED locale

(* Spinning goes on while the state is not 0. *)
FaultySpun == state # 0

Spun == state # 1

Leave(t) ==
  /\ at[t] = "spin" /\ Spun
  /\ Goto(t, "check")
  /\ UNCHANGED <<state, locale>>

(* The number is formatted, or the call fails. *)
Use(t) ==
  /\ at[t] = "check" /\ Goto(t, IF state = 2 THEN "use" ELSE "fail")
  /\ UNCHANGED <<state, locale>>

Return(t) == at[t] \in {"use", "fail"} /\ Goto(t, "out") /\ UNCHANGED <<state, locale>>

Step(t) == Claim(t) \/ Lose(t) \/ Create(t) \/ Publish(t) \/ Leave(t) \/ Use(t) \/ Return(t)

Next == \E t \in Threads : Format(t) \/ Step(t)

Spec == Init /\ [][Next]_vars

-----------------------------------------------------------------------------
(* A thread formats with a locale that is complete, and fails only when the  *)
(* locale is not to be had; nobody tries to create it a second time.         *)
LocaleIsComplete ==
  /\ \A t \in Threads : /\ at[t] = "use" => state = 2 /\ locale = "numeric"
                        /\ at[t] = "fail" => state = -1
  /\ \A t, u \in Threads :
       at[t] \in {"create", "publish"} /\ at[u] \in {"create", "publish"} => t = u
=============================================================================
