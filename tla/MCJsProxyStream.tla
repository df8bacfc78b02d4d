-------------------------- MODULE MCJsProxyStream --------------------------
(* Peers that send chunks larger and smaller than arti's buffers, and an   *)
(* empty one, and end or reset; arti writes two chunks of different size.  *)
EXTENDS JsProxyStream

InputsHere ==
  [chunks : {<<>>, <<<<1, 2, 3>>, <<4>>>>, <<<<1>>, <<>>, <<2, 3>>>>}, end : {"fin", "reset"}]
OutputsHere == {<<>>, <<<<1, 2>>, <<3>>>>}
=============================================================================
