-------------------------- MODULE MCLogicEntrance --------------------------
(***************************************************************************)
(* Two pools, the first with two slaves, behind one Redis Sentinel.        *)
(***************************************************************************)
EXTENDS LogicEntrance, TLC

MCPools == <<"pa", "pb">>
MCAddrs == {"a1", "a2", "a3", "b1", "b2", "b6"}
MCIPv4 == MCAddrs \ {"b6"}              \* b6 is an IPv6 address
MCOrders == {<<"pa", "pb">>, <<"pb", "pa">>, <<"pb">>}

LOCAL Up(addr) == [addr |-> addr, flags |-> "slave"]
LOCAL Down(addr) == [addr |-> addr, flags |-> "s_down"]
LOCAL View(order, sa, sb) ==
  [order  |-> order,
   master |-> ("pa" :> "a1" @@ "pb" :> "b1"),
   slaves |-> ("pa" :> sa @@ "pb" :> sb)]

\* All well; the first slave of pa down; an IPv6 slave.
MCViews ==
  {View(<<"pa", "pb">>, <<Up("a2"), Up("a3")>>, <<Up("b2")>>),
   View(<<"pb", "pa">>, <<Down("a2"), Up("a3")>>, <<Up("b2")>>),
   View(<<"pa", "pb">>, <<Up("a2")>>, <<Up("b6")>>)}

\* Characters are signed: a key in a multibyte encoding has negative ones.  The
\* hash of k1 is negative as an int of 16 bits, and odd.
MCKeyChars == "k1" :> <<107, 49, 50>> @@ "k2" :> <<-27, -92>>
MCCrc32 == "k1" :> 5 @@ "k2" :> 8

LOCAL Target(type, redisType) ==
  [type |-> type, ip |-> "ip", port |-> 26379, redistype |-> redisType]
LOCAL Hash(type, redisType, key) == [hashkey |-> key] @@ Target(type, redisType)
LOCAL Pool(given, pools) == [poolname |-> pools] @@ given

\* Requests that are answered without a call.
MCDirect ==
  {[type |-> 0], [type |-> 3, loglv |-> 1], [type |-> 5],
   [type |-> 4, loglv |-> 7], [type |-> 4, logtype |-> 1],
   [type |-> 4, loglv |-> 3, logtype |-> 2], [type |-> 4, loglv |-> 3, logtype |-> 9],
   [type |-> 4, loglv |-> 8, logtype |-> 2],
   Target(1, 0), Target(2, 1), Hash(2, 3, "k1"),
   [type |-> 1, port |-> 26379, redistype |-> 1]}

\* Requests for lists, and for instances by key.
MCLists ==
  {Target(1, 1), Target(1, 2), Target(1, 3),
   Pool(Target(1, 1), <<"none", "pb">>), Pool(Target(1, 3), <<"pb", "pa">>),
   [ip |-> "domain"] @@ Target(1, 2), [ip |-> "IPv6 domain"] @@ Target(1, 2)}
MCHashes ==
  {Hash(t, k, key) : t \in {2, 3}, k \in {1, 2}, key \in {"k1", "k2"}}
  \cup {Pool(Hash(2, 1, "k2"), <<"pb", "pa">>)}

MCRequests == MCDirect \cup MCLists \cup MCHashes

\* A request that leaves the port out.
MCNoPort == {[type |-> 1, ip |-> "ip", redistype |-> 1]}

\* The example of the help text.
MCHelpExample == {[type |-> 3, loglv |-> 1]}
=============================================================================
