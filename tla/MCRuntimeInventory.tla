------------------------- MODULE MCRuntimeInventory --------------------------
(* Values for the checks of RuntimeInventory.                              *)
EXTENDS RuntimeInventory, TLC

CONSTANTS a1, a2

\* Two Intercoms and two cameras; an unbound alias, and a bound one with the name that discovery
\* gives to the other device.
MCGenerated == (1 :> "intercom-1") @@ (2 :> "intercom-2")
MCConfigs == {"door" :> NoId, "intercom-2" :> 1}

Contents(i, c) == [intercoms |-> i, cameras |-> c]
MCInventories == {Contents({1}, {11}), Contents({2}, {12}), Contents({1, 2}, {11})}

\* At first the session is of the first account, or there is none; the other account
\* has the second Intercom, until that changes.
MCAtStart == {[account |-> x, holdings |-> (a1 :> i @@ a2 :> Contents({2}, {12}))] :
                  x \in {a1, NoAccount}, i \in MCInventories}
=============================================================================
