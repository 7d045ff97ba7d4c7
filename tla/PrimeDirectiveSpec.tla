------------------------- MODULE PrimeDirectiveSpec -------------------------
(***************************************************************************)
(* What the clock filter of src/ntp-proto/src/filter.rs promises about the *)
(* samples it uses, stated without delays, dispersions or timestamps.      *)
(*                                                                         *)
(* Samples are numbered in order of arrival.  The filter keeps a window of *)
(* the last NSTAGE of them.  On each arrival it either ignores the         *)
(* arrival, which it may do only while the system is synchronized, or it   *)
(* uses one sample of the window.  While the system is synchronized, it    *)
(* uses only a sample newer than every sample it used before.              *)
(***************************************************************************)
EXTENDS Integers

CONSTANTS NSTAGE, MaxSamples, SyncStates

VARIABLES
  window,   \* window[i]: number of the sample in stage i, 0 = none yet
  used,     \* newest sample used so far, 0 = none
  synced,   \* the system is synchronized
  outcome,  \* what the last arrival led to
  count     \* samples arrived so far

vars == <<window, used, synced, outcome, count>>

Init ==
  /\ window = [i \in 1..NSTAGE |-> 0]
  /\ used = 0
  /\ synced \in SyncStates
  /\ outcome = "None"
  /\ count = 0

\* A new sample enters the window and the oldest leaves it.
Arrive ==
  LET w == [i \in 1..NSTAGE |-> IF i = 1 THEN count + 1 ELSE window[i - 1]]
  IN /\ count < MaxSamples
     /\ window' = w
     /\ count' = count + 1
     /\ UNCHANGED synced
     /\ \/ /\ synced
           /\ outcome' = "Ignore"
           /\ UNCHANGED used
        \/ \E k \in 1..NSTAGE :
             /\ w[k] # 0
             /\ synced => w[k] > used
             /\ outcome' = "Process"
             /\ used' = IF w[k] > used THEN w[k] ELSE used

\* The system gains or loses synchronization.
Resync ==
  /\ synced' \in SyncStates \ {synced}
  /\ UNCHANGED <<window, used, outcome, count>>

Next == Arrive \/ Resync

Spec == Init /\ [][Next]_vars
=============================================================================
