---------------------------- MODULE MCBridgeEngine ---------------------------
(***************************************************************************)
(* The instance of BridgeEngine that TLC checks: two chains and two users; *)
(* two ways to lock under the same id, requests that the checks reject and *)
(* amounts that overflow a balance together.                               *)
(***************************************************************************)
EXTENDS BridgeEngine

Request(source, target, user, amount, tx) ==
  [source |-> source, target |-> target, user |-> user, amount |-> amount,
   tx |-> tx]

Lock(request, recipient) ==
  [source |-> request.source, target |-> request.target, user |-> request.user,
   amount |-> request.amount, tx |-> request.tx, recipient |-> recipient]

MCChainName == {"tiger", "eth", "base"}
MCChain == {"tiger", "eth"}
MCAccount == {"ann", "bob"}

MCLockRequest ==
  {Lock(Request("eth", "tiger", "ann", 1, "0x1"), "ann"),
   Lock(Request("eth", "tiger", "ann", 1, "0x1"), "bob"),
   Lock(Request("eth", "tiger", "ann", 2, "0x2"), "ann"),
   Lock(Request("tiger", "eth", "bob", 1, "0x8"), "bob"),
   Lock(Request("eth", "eth", "ann", 1, "0x3"), "ann"),
   Lock(Request("eth", "base", "ann", 1, "0x3"), "ann")}

MCBurnRequest ==
  {Request("eth", "tiger", "ann", 1, "0x4"),
   Request("eth", "tiger", "ann", 2, "0x5"),
   Request("eth", "tiger", "bob", 1, "0x6"),
   Request("tiger", "eth", "bob", 1, "0x9"),
   Request("eth", "tiger", "bob", 0, "0x7")}
=============================================================================
