----------------------------- MODULE PreviewsMC -----------------------------
(* An instance of Previews for TLC: two applications share one slot, and   *)
(* the first has two releases, which may change places.                    *)
EXTENDS Previews, TLC

CONSTANTS r1, r2, r3

TwoApps == {"p", "q"}
TwoAppsReleases == {r1, r2, r3}
TwoAppsOf == [r \in TwoAppsReleases |-> IF r = r3 THEN "q" ELSE "p"]
SameApp == Permutations({r1, r2})
=============================================================================
