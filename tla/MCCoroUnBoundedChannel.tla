------------------------- MODULE MCCoroUnBoundedChannel -------------------------
(***************************************************************************)
(* Instances of CoroUnBoundedChannel for TLC: which process calls what.    *)
(***************************************************************************)
EXTENDS CoroUnBoundedChannel, TLC

CONSTANTS a, b, c

AnyUsage ==
  a :> {"Push", "CloseChannel"}
  @@ b :> {"TryPush", "Pop", "PoisenChannel"}
  @@ c :> {"Pop", "TryPop", "TryPopOnTrue", "GetSize"}
================================================================================
