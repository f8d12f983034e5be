------------------------------ MODULE Processes ------------------------------
(***************************************************************************)
(* What the parts of a running session share: the compostbin processes,    *)
(* which project and Claude home each is for, where its main thread is,    *)
(* and the `stop` flag its other threads poll (session/lifecycle.rs).      *)
(***************************************************************************)
EXTENDS Naturals, FiniteSets

CONSTANTS
  Procs,      \* compostbin processes, one `run` each
  Homes,      \* Claude homes
  Setups      \* the situations looked at, one of which is the case: see Situation

VARIABLES
  with,       \* the situation
  pc,         \* where the main thread of a process is
  stop,       \* its threads are to end
  faults      \* errors and kills so far

\* Which processes run, which of them use the Keychain, forward ports and have a
\* terminal, and how many errors and kills there are in one behaviour.
Situation ==
  [procs : SUBSET Procs, home : [Procs -> Homes], project : [Procs -> Procs],
   keychain : SUBSET Procs, ports : SUBSET Procs, terminals : SUBSET Procs, faults : Nat]

ASSUME ProcsAssumption == IsFiniteSet(Procs)
ASSUME SetupsAssumption == \A s \in Setups : s \in Situation

Home(p) == with.home[p]

Booted == {"setting up", "executing", "ending"}
Ended == {"ended", "failed", "killed"}

\* The VM lives in the process that booted it, and dies with it.
HasVm(p) == pc[p] \in Booted

\* The process a client of p's project reaches.
Owners(p) == {q \in with.procs : HasVm(q) /\ with.project[q] = with.project[p]}

Fault == faults < with.faults /\ faults' = faults + 1
=============================================================================
