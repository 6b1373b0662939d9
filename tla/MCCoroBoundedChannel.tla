-------------------------- MODULE MCCoroBoundedChannel --------------------------
(***************************************************************************)
(* Instances of CoroBoundedChannel for TLC: which process calls what.      *)
(***************************************************************************)
EXTENDS CoroBoundedChannel, TLC

CONSTANTS a, b, c

(* Two pushers, two poppers (one is both), and everyone may end it.        *)
AnyUsage ==
  a :> {"Push", "CloseChannel"}
  @@ b :> {"TryPush", "Pop", "PoisenChannel"}
  @@ c :> {"Pop", "TryPop", "TryPopOnTrue", "GetSize"}

(* As in a pipeline: one stage pushes, the next one pops, and the runner   *)
(* ends the channel at any time.                                           *)
StageUsage ==
  a :> {"Push"}
  @@ b :> {"Pop"}
  @@ c :> {"CloseChannel", "PoisenChannel", "GetSize"}

(* A stage that keeps pushing and a stage that keeps popping never wait    *)
(* for one another for ever, on a full or an empty channel: every          *)
(* operation returns.                                                      *)
StagesNeverStuck ==
  WF_vars(Enter(a)) /\ WF_vars(Enter(b)) => \A p \in Procs : op[p] # NoOp ~> op[p] = NoOp

Symmetry == Permutations(Values)
================================================================================
