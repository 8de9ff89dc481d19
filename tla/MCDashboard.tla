---------------------------- MODULE MCDashboard ----------------------------
(* Three members, of whom the first owns rows from before tokens; rows on  *)
(* both sides of a change of the clock, one of which arrives late; the     *)
(* last instant is a midnight.                                             *)
EXTENDS Dashboard

CONSTANTS legacy, ann, ben, side, repl, opus, haiku, s1, s2, home, h1

At(id, m, at, tokens, source, model, sid) ==
    [id |-> id, member |-> m, at |-> at, tokens |-> tokens, source |-> source, model |-> model,
     session |-> sid, profile |-> IF sid = NULL THEN NULL ELSE home, host |-> h1]
MCRow == {At(1, legacy, 3, 2, NULL, opus, NULL), At(2, ann, 4, 5, repl, opus, s1),
          At(3, ann, 7, 1, side, haiku, s2), At(4, ben, 5, 3, repl, haiku, NULL),
          At(5, ben, 9, 3, repl, opus, s2)}
MCEarly == {r \in MCRow : r.id < 4}
MCJoined == <<legacy, ann, ben>>
MCBefore(a, b) ==
    LET Place(x) == CHOOSE i \in 1..8 : <<NULL, legacy, ann, ben, opus, haiku, s1, s2>>[i] = x
    IN  Place(a) < Place(b)

(* Four units to a day, the clock set forward at 6.                        *)
MCOffsetHere(t) == IF t < 6 THEN 1 ELSE 2
MCPresetDays == [p \in {"today", "week"} |-> IF p = "today" THEN 0 ELSE 2]
MCDates == {NULL, <<2, 1>>, <<1, 1>>}
MCSelection == {[group |-> "work", source |-> NULL], [group |-> "all", source |-> side]}
(* The server's zone is another one: at 9 it is the second day of a week   *)
(* that has begun at 3 and ends at 11.                                     *)
MCServerOffset(t) == -3
MCRules == {[id |-> 1, member |-> NULL, metric |-> "tokens", window |-> "week", threshold |-> 3],
            [id |-> 2, member |-> ann, metric |-> "share_pct", window |-> "week", threshold |-> 50],
            [id |-> 3, member |-> NULL, metric |-> "share_pct", window |-> "day", threshold |-> 100]}
MCFireKeys == {<<1, ann, 3>>, <<1, ben, -5>>, <<2, ann, 7>>}
MCHash(m) == IF m = ben THEN 1 ELSE 0
=============================================================================
