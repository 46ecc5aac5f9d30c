----------------------------- MODULE ConfigFile -----------------------------
(* internal/config, what the three loaders share.  A configuration file is a  *)
(* function from the fields it sets to their values.  A text is "" or a token *)
(* for what it says; a secret is its length after trimming, or Sample for one *)
(* of the placeholders in configs/.                                           *)
EXTENDS Integers

Sample == -1

\* readJSONFile: fields the struct does not have are refused
Decodes(doc, preset) == DOMAIN doc \subseteq DOMAIN preset

\* ... and the others are decoded over the presets
Decoded(doc, preset) ==
  [f \in DOMAIN preset |-> IF f \in DOMAIN doc THEN doc[f] ELSE preset[f]]

Filled(text, default) == IF text = "" THEN default ELSE text

Positive(n, default) == IF n <= 0 THEN default ELSE n

\* validateCredential, after the test for a missing field
Credential(secret, min) == secret # Sample /\ secret >= min

\* NFTConfig.validate; the puller and the receiver take no other table
TableName == "nft_auth_whitelist"

ValidNFT(table, ports) == table = TableName /\ ports \subseteq 1 .. 65535
=============================================================================
