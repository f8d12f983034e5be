------------------------------ MODULE MCStore ------------------------------
(***************************************************************************)
(* The image store for TLC.  Three releases share it: the second and third *)
(* pin one version, spelled differently, newer than the first's.           *)
(***************************************************************************)
EXTENDS Library, TLC

CONSTANTS b1, b2, o1, r1, r2, r3

MCSituations == {[present |-> {b1, b2, o1}, faults |-> 0], [present |-> {b1, b2}, faults |-> 1],
                 [present |-> {b1, o1}, faults |-> 1]}

Key == INSTANCE BuildKeys WITH PathOrder <- <<"bin", "link">>

MCPin == (r1 :> [kernel |-> "3.9.0", initfs |-> "0.9.0"])
         @@ (r2 :> [kernel |-> "3.10", initfs |-> "0.10"])
         @@ (r3 :> [kernel |-> "3.10.0", initfs |-> "0.10.0"])
MCNumber == ("3.9.0" :> <<3, 9, 0>>) @@ ("3.10" :> <<3, 10>>) @@ ("3.10.0" :> <<3, 10, 0>>)
            @@ ("0.9.0" :> <<0, 9, 0>>) @@ ("0.10" :> <<0, 10>>) @@ ("0.10.0" :> <<0, 10, 0>>)

-----------------------------------------------------------------------------
(* The keys of small build plans.                                          *)
Context == "/mnt/context"
StepScripts == {[text |-> "apt", paths |-> {}], [text |-> "install", paths |-> {Context}]}
Entries == {[kind |-> "file", executable |-> x, text |-> t, now |-> t] : x \in BOOLEAN, t \in {"a", "bb"}}
           \cup {[kind |-> k, executable |-> FALSE, text |-> "a", now |-> "a"] : k \in {"link", "fifo"}}
Trees == UNION {[S -> Entries] : S \in SUBSET {"bin", "link"}}
Steps == {Key!Step(script, user) : script \in StepScripts, user \in {"", "claude"}}
BuildPlans ==
  {[environment |-> env, mounts |-> <<[destination |-> Context, source |-> tree]>>, steps |-> steps] :
     env \in {<<>>, <<"A=1">>, <<"A=1", "B=2">>}, tree \in Trees, steps \in SeqOf(Steps, 2)}

\* What the rootfs after a plan's steps comes of: a FIFO of the context is
\* never read, and the context not before a step that names it.
Made(plan) ==
  LET tree == plan.mounts[1].source
      seen == {path \in DOMAIN tree : tree[path].kind # "fifo"}
      reads == \E i \in DOMAIN plan.steps : Context \in plan.steps[i].script.paths
  IN <<plan.environment, plan.steps, IF reads THEN {<<path, tree[path]>> : path \in seen} ELSE {}>>

\* Two plans' last steps have one key exactly when the same makes their rootfs,
\* and a file that grew while it was read is an error, not a key.
ASSUME KeysTell ==
  LET key(plan) == Key!KeyAfter(plan, Len(plan.steps))
  IN Cardinality({<<key(plan), Made(plan)>> : plan \in BuildPlans})
     = Cardinality({key(plan) : plan \in BuildPlans})
     /\ Cardinality({key(plan) : plan \in BuildPlans}) = Cardinality({Made(plan) : plan \in BuildPlans})
ASSUME GrownIsUnreadable ==
  LET grown == [kind |-> "file", executable |-> FALSE, text |-> "a", now |-> "bb"]
      plan(script) == [environment |-> <<>>, steps |-> <<Key!Step(script, "")>>,
                       mounts |-> <<[destination |-> Context, source |-> ("bin" :> grown)]>>]
  IN \A script \in StepScripts : Key!Readable(plan(script)) <=> Context \notin script.paths
=============================================================================
