-------------------------- MODULE MCChannelRegistry --------------------------
(* Instances of ChannelRegistry for TLC.                                   *)
EXTENDS ChannelRegistry

(* A content that is kept and one that is refused.                         *)
MCContent == {<<1, 2>>, <<3, 3, 3>>}
=============================================================================
