--------------------------- MODULE MCClientCalls ----------------------------
(* Two gateways and their clients for TLC. *)
EXTENDS ClientCalls

CONSTANTS n1, n2

(* All discovery modes; a list of candidates with an entry that does not parse;
   clients without the right token, a pooled client and a misplaced one. *)
AllConfigs == {
  [mode |-> "direct", endpoints |-> <<n1>>,
   token |-> "secret", pooled |-> FALSE, style |-> "async", calls |-> 2],
  [mode |-> "candidates", endpoints |-> <<Bad, n1, n2>>,
   token |-> "secret", pooled |-> FALSE, style |-> "async", calls |-> 2],
  [mode |-> "candidates", endpoints |-> <<n1, n2>>,
   token |-> "secret", pooled |-> TRUE, style |-> "blocking", calls |-> 2],
  [mode |-> "candidates", endpoints |-> <<Bad>>,
   token |-> "other", pooled |-> FALSE, style |-> "blocking", calls |-> 1],
  [mode |-> "custom", endpoints |-> <<>>,
   token |-> "secret", pooled |-> FALSE, style |-> "async", calls |-> 1],
  [mode |-> "direct", endpoints |-> <<n1>>,
   token |-> NoToken, pooled |-> TRUE, style |-> "async", calls |-> 1],
  [mode |-> "direct", endpoints |-> <<n1>>,
   token |-> "secret", pooled |-> FALSE, style |-> "misplaced", calls |-> 1]}

PlainClient == {
  [mode |-> "candidates", endpoints |-> <<n1, n2>>,
   token |-> "secret", pooled |-> FALSE, style |-> "async", calls |-> 0]}
=============================================================================
