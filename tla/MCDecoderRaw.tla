---------------------------- MODULE MCDecoderRaw ----------------------------
(***************************************************************************)
(* Instances of DecoderRaw for TLC: every replica identity, with and       *)
(* without a key, and FULL alone.                                          *)
(***************************************************************************)
EXTENDS DecoderRaw, TLC

MCAll == {r \in [ident : Idents, key : KeyKinds] : r.ident = "index" => r.key # "none"}
MCSymmetry == Permutations(Keys)
MCFull == {[ident |-> "full", key |-> "none"]}
=============================================================================
