------------------------------- MODULE MCAccess -------------------------------
(* A small instance of Access for TLC.                                     *)
EXTENDS AccessInvariant, TLC

c1 == 1
c2 == 2
\* One block of two addresses.
MCProxies == {[addr |-> 4, prefix |-> 2]}

\* Two spellings of the user's e-mail, two of nobody's.
MCAccountOf == "Ana" :> "ana" @@ "ana" :> "ana" @@ "bob" :> "bob" @@ "eve" :> "eve"
MCClients == {c1, c2}
\* The client sends no header, names another client, or writes no address.
MCPrefixes == {<<>>, <<c2>>, <<8>>}

Empty == [ip |-> [i \in Ips |-> {}], account |-> [a \in Accounts |-> {}]]
\* Two failures for ana and one for bob: the table of accounts is full, its
\* oldest key is blocked, the other is not.
Tried == [ip |-> [Empty.ip EXCEPT ![c1] = {<<0, 1>>, <<0, 2>>}, ![c2] = {<<1, 1>>}],
          account |-> [Empty.account EXCEPT !["ana"] = {<<0, 1>>, <<0, 2>>},
                                            !["bob"] = {<<1, 1>>}]]
MCPast == {Empty, Tried}
\* The hypothesis of the theorem MintBudgetHolds is true of this instance.
ASSUME MintersFitAssumption == MintersFit

AccessSymmetry == Permutations(Requests)
==============================================================================
