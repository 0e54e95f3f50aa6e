----------------------------- MODULE MCPushClient -----------------------------
(* Small instances of PushClient for TLC: a byte has one digit, tags are 0 to 3,  *)
(* and the body <<3>> does not decode.                                            *)
EXTENDS PushClient

MCUndecodable == {<<3>>}

MCMessages == {<<>>, <<1>>, <<2>>, <<2, 0>>, <<0, 2, 1>>}
===============================================================================
