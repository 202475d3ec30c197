------------------------------- MODULE Startup -------------------------------
(***************************************************************************)
(* Threads of one process that load models and format numbers: what the    *)
(* library makes once for all of them, the accelerator and the numeric     *)
(* locale, is made by whichever thread needs it first.                     *)
(***************************************************************************)
EXTENDS ModelLoad

VARIABLES state, locale, at

Locale == INSTANCE NumericLocale

localevars == <<state, locale, at>>
all == <<vars, localevars>>

StartupInit == Init /\ Locale!Init

(* Loading and formatting share nothing: it is enough that threads that load   *)
(* interleave with each other, and those that format.                        *)
Loading(t) ==
  /\ \A u \in Threads : at[u] = "out"
  /\ Step(t) \/ Destroy(t) \/ \E nvfp4 \in BOOLEAN : Load(t, nvfp4)
  /\ UNCHANGED localevars

Formatting(t) ==
  /\ \A u \in Threads : ~Busy(u)
  /\ Locale!Format(t) \/ Locale!Step(t)
  /\ UNCHANGED vars

Faults == Fault /\ UNCHANGED localevars

StartupNext == Faults \/ \E t \in Threads : Loading(t) \/ Formatting(t)

(* A thread in a call is scheduled until the call returns. *)
StartupSpec ==
  /\ StartupInit /\ [][StartupNext]_all
  /\ \A t \in Threads :
       /\ WF_all(Step(t) /\ UNCHANGED localevars)
       /\ WF_all(Locale!Step(t) /\ UNCHANGED vars)

-----------------------------------------------------------------------------
(* NumericLocale's property, of the threads of this run: a thread formats    *)
(* with the whole locale and fails only when it is not to be had.            *)
LocaleIsComplete == Locale!LocaleIsComplete

(* Whoever loads a model or formats a number returns: those who wait for the *)
(* accelerator to be opened or spin for the locale are not left waiting,     *)
(* whatever fails on the thread they wait for.                               *)
EveryCallReturns ==
  \A t \in Threads : (Busy(t) ~> ~Busy(t)) /\ (at[t] # "out" ~> at[t] = "out")
=============================================================================
