-------------------------------- MODULE FilesMC --------------------------------
(***************************************************************************)
(* What the coordinator stores, on a small instance: a member's Workspace, *)
(* the store of published results, and the releases it discovers.  The     *)
(* three share no state.  MaxDeeds bounds the requests to the first two    *)
(* together, and discovery runs in behaviours of its own.                  *)
(***************************************************************************)
EXTENDS MemberFiles, ArtifactStore, Discovery

SmallTree == (<<"d">> :> Directory) @@ (<<"d", "x">> :> Stored(0))
Paths == {<<"d">>, <<"e">>, <<"d", "x">>, <<"d", "y">>}

RunNames == [j \in Jobs |-> IF j = "a1" THEN "array" ELSE j]
Sizes == [f \in Files |-> IF f = "out" THEN 2 ELSE 1]

\* Discovery runs when the application is first registered with "moved".
Discovers == source = "moved" \/ moves > 0

InitFiles == InitTree /\ InitStore /\ InitDiscovery /\ (Discovers => running = {})

NextFiles ==
    /\ \/ NextTree /\ UNCHANGED storeVars
       \/ NextStore /\ UNCHANGED treeVars
    /\ Len(request') + deeds' <= MaxDeeds
    /\ UNCHANGED discoveryVars

NextAll ==
    \/ ~Discovers /\ NextFiles
    \/ Discovers /\ NextDiscovery /\ UNCHANGED <<treeVars, storeVars>>

SpecFiles == InitFiles /\ [][NextAll]_<<treeVars, storeVars, discoveryVars>>
===============================================================================
