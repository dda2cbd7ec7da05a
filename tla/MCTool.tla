-------------------------------- MODULE MCTool --------------------------------
EXTENDS Tool

CONSTANTS system, bob, f1, f2, bad

Access(own, public) == [OWN |-> own, FRIEND |-> {}, PUBLIC |-> public]
AllTiers == {"OWN", "FRIEND", "PUBLIC"}
OpenAccess == Access({"R", "W"}, {"R"})

User(name, quota) ==
  [name |-> name, reserved |-> quota, password |-> TRUE, max |-> 1,
   friends |-> [s \in 1 .. MaxFriends |-> NoOne]]
File(u, name) == [owner |-> u, name |-> name, text |-> "old", access |-> OpenAccess]

\* Two users, each with a file of the same name.
Start ==
  [users |-> (0 :> User(system, 2) @@ 1 :> User(bob, 1)),
   files |-> <<File(0, f1), File(1, f1)>>]

Puts == {<<f2>>, <<f1, f2>>, <<f2, bad>>}
Grants == {"R"}
Specs == {[tiers |-> {"PUBLIC"}, op |-> "-", rights |-> {"R"}],
          [tiers |-> {"OWN"}, op |-> "=", rights |-> {"R"}]}
=============================================================================
