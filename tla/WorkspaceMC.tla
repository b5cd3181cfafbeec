---------------------------- MODULE WorkspaceMC ----------------------------
(* Instances of Workspace for TLC: jobs that share inputs, of sizes that    *)
(* make each of them evict what another left.                              *)
EXTENDS Workspace

TwoKinds == ("b1" :> <<"archive", "in1", "in2">>) @@ ("b2" :> <<"archive", "in3">>)
                @@ ("p1" :> <<"in3", "script">>) @@ ("p2" :> <<"in1", "large">>)
Sizes == ("archive" :> 1) @@ ("in1" :> 2) @@ ("in2" :> 2) @@ ("in3" :> 2) @@ ("script" :> 2)
             @@ ("large" :> 3)
=============================================================================
