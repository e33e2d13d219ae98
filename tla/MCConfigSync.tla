---------------------------- MODULE MCConfigSync ----------------------------
(* Two settings; one number is another without its country code. *)
EXTENDS ConfigSync

CONSTANTS contact1, contact2, full, short, default

ContainsShort ==
  {<<v, v>> : v \in {full, short, default}} \union {<<full, short>>}
=============================================================================
