----------------------------- MODULE MCAlerting -----------------------------
(***************************************************************************)
(* Two members and three batches: alice's first one crosses a tokens rule  *)
(* by itself, bob's makes a share of hers.  One of hers is dated a day     *)
(* after the first: her second, or in MCAhead the one that crosses, which  *)
(* her exporter may send before its day has come.                          *)
(***************************************************************************)
EXTENDS Alerting, TLC

CONSTANTS alice, bob, a1, a2, b1

MCSender == [b \in Batch |-> IF b = b1 THEN bob ELSE alice]
MCTokensIn == [b \in Batch |-> IF b = a1 THEN 2 ELSE 1]
MCDateOf == [b \in Batch |-> IF b = a2 THEN 1 ELSE 0]
MCAhead == [b \in Batch |-> IF b = a1 THEN 1 ELSE 0]

Budget(w, n, hook) == [member |-> NULL, window |-> w, enabled |-> TRUE,
                       metric |-> "tokens", threshold |-> n, hook |-> hook]
Share == [member |-> alice, window |-> "day", enabled |-> TRUE,
          metric |-> "share", threshold |-> 50, hook |-> FALSE]
Off(c) == [c EXCEPT !.enabled = FALSE]
Refused == [Share EXCEPT !.threshold = 101]

(* A weekly budget of two tokens that posts; a daily share of a half that  *)
(* does not; the budget switched off; and a share that the routes refuse.  *)
Week2 == Budget("week", 2, TRUE)
MCContent == {Week2, Share, Off(Week2), Refused}
MCOne == {Week2}
MCTwo == {Week2, Off(Week2)}

(* A daily budget, with and without a webhook.                             *)
MCHooks == {Budget("day", 2, TRUE), Budget("day", 2, FALSE), Refused}

(* Nothing tells one server from another.                                  *)
MCServers == Permutations(Server)
=============================================================================
