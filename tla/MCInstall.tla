----------------------------- MODULE MCInstall ------------------------------
(* Two profiles: one without settings, one with an env of the user's own,  *)
(* whose settings or record somebody else gets at, or whose commands fail, *)
(* twice.                                                                  *)
EXTENDS Install, TLC

CONSTANTS p1, p2

Line(key, value) == [key |-> key, value |-> value, pre |-> "line", post |-> ""]
Object(members) ==
    WithEnv([members |-> [members EXCEPT ![Len(members)].post = "line"], inside |-> ""])

Mine == Line("other", {"mine"})
Bare == [kind |-> "bare", env |-> Empty]
Own == Object(<<Mine>>)
Labels == Object(<<Line("attributes", {"label", "untidy"}), Mine>>)

MCSettings == {p1 :> NoFile @@ p2 :> Labels}
MCEntries == {<<"exporter", {"theirs"}>>, <<"endpoint", {"theirs"}>>, <<"headers", {"bearer"}>>,
              <<"headers", {"member"}>>, <<"attributes", {"label"}>>}
MCMishaps == p1 :> 0 @@ p2 :> 2
NoMishaps == [p \in Profile |-> 0]
MCCodes == Permutations(Code)

(* For the run that looks for a code burned: a key with the value setup    *)
(* would write; a space in front of a comma, in the env or outside of it;  *)
(* an env that is no object.                                               *)
Equal == Object(<<Mine, Line("endpoint", {"ours"})>>)
Spaced == Object(<<[Mine EXCEPT !.post = " "], Line("attributes", {"label"})>>)
Loose == [kind |-> "loose", env |-> Empty]
Mixed == [kind |-> "mixed", env |-> Empty]
AllSettings == [Profile -> {NoFile, Own, Labels, Equal, Spaced, Loose, Mixed}]
=============================================================================
