------------------------------ MODULE Install -------------------------------
(***************************************************************************)
(* `ccledger setup' and `ccledger uninstall' on a teammate's machine.      *)
(*                                                                         *)
(* The machine has several Claude Code profiles, each with a settings.json *)
(* that is its owner's, edited by hand and by other programs at any time.  *)
(* Setup spends a join code (or takes over the token of another profile),  *)
(* writes five keys and a label into the `env' of the settings, and then   *)
(* a record of it; uninstall undoes what the record says, tells the        *)
(* server, and drops the record.  A command waits for prompts and for the  *)
(* server, and may end at any point.                                       *)
(*                                                                         *)
(* Of the five keys, the three whose value is the same for everybody are   *)
(* one key here ("exporter"): setup, uninstall and the doctor take each by *)
(* itself and all three alike.                                             *)
(*                                                                         *)
(* A value in `env' is a set of atoms: "ours" is what ccledger writes for  *)
(* the keys whose value it knows beforehand; "theirs" in the endpoint is   *)
(* the /v1/logs of another server; a token stands for the header that      *)
(* carries it, and is named for the code it was issued for; a profile      *)
(* stands for the pair claude_profile=<its name> in                        *)
(* OTEL_RESOURCE_ATTRIBUTES, "label" for any other pair, "untidy" for what *)
(* its parser drops, "number" for a value that is no string.  Two bearers  *)
(* in a header were issued by no join of this server: "member" has the     *)
(* form of a member token (it is of another ccledger), "bearer" has not.   *)
(***************************************************************************)
EXTENDS JsonEdit

CONSTANTS
    Profile,
    Code,        \* join codes, and the tokens they are exchanged for
    Settings,    \* the settings files there may be to begin with, by profile
    UserEntry,   \* the entries a user may set, <<key, value>>
    NULL,
    MaxMishaps   \* bound, by profile: edits of its settings or its record by
                 \* others, commands cut short, and replies lost

ASSUME InstallBounds == MaxMishaps \in [Profile -> Nat]
ASSUME InstallNames == "number" \notin Profile /\ {"bearer", "member"} \cap Code = {}
ASSUME InstallNull == NULL \notin Code \cup {"bearer", "member"}

VARIABLES
    file,       \* file[p]: settings.json
    state,      \* state[p]: the record in ~/.ccledger
    run,        \* run[p]: the command under way for p
    spent,      \* codes the server has exchanged
    revoked,    \* tokens given up with POST /leave
    before,     \* before[p]: the settings as setup last found them, until
                \* somebody else writes them or uninstall is through
    edited,     \* edited[p]: somebody else wrote the settings since setup did
    torn,       \* torn[p]: setup ended between the settings and the record
    leaving,    \* leaving[p]: uninstall has begun to remove, and not finished
    written_off,\* tokens nobody holds because of a fault or an edit, or that
                \* the user was told to have revoked
    burned,     \* codes spent by a setup that then refused settings which
                \* nobody had written since it checked them
    edits, faults  \* of each profile, so far

vars == <<file, state, run, spent, revoked, before, edited, torn, leaving, written_off,
          burned, edits, faults>>
server == <<spent, revoked>>
bounds == <<edits, faults>>

-----------------------------------------------------------------------------
(* A settings file: absent, blank, not JSON ("broken"), an object without  *)
(* `env' ("bare", or "loose" with whitespace in front of a comma), with    *)
(* one that is no object ("mixed"), or with one.                           *)
Kinds == {"absent", "blank", "broken", "bare", "loose", "mixed", "env"}
NoFile == [kind |-> "absent", env |-> Empty]
WithEnv(env) == [kind |-> "env", env |-> env]
Has(f, key) == key \in Keys(f.env)
Atoms(f, key) == IF Has(f, key) THEN ValueOf(f.env, key) ELSE {}

Owned == {"exporter", "endpoint", "headers"}
Key == Owned \cup {"attributes", "other"}
Foreign == {"bearer", "member"}
Token == Code \cup Foreign
MemberToken == Code \cup {"member"}
Atom == {"ours", "theirs", "mine", "label", "untidy", "number"} \cup Token \cup Profile
Gap == {"", " ", "line"}
Env == [members : Seq([key : Key, value : SUBSET Atom, pre : Gap, post : Gap]), inside : Gap]
File == {f \in [kind : Kinds, env : Env] : f.kind # "env" => f.env = Empty}

EntriesFor(token) == <<[key |-> "exporter", value |-> {"ours"}],
                       [key |-> "endpoint", value |-> {"ours"}],
                       [key |-> "headers", value |-> {token}]>>

(* tokenOfHeaders: any bearer, whoever issued it; baseUrlOfLogsEndpoint:   *)
(* any address that ends in /v1/logs.                                      *)
TokenIn(f) == Atoms(f, "headers") \cap Token
LogsEndpoint(f) == Atoms(f, "endpoint") \in {{"ours"}, {"theirs"}}

(* To begin with no settings hold a token of this server, and users do not *)
(* write any into them: those come from joins.                             *)
ASSUME InstallSettings ==
    /\ Settings \subseteq [Profile -> File]
    /\ \A f \in Settings, p \in Profile : TokenIn(f[p]) \cap Code = {}
ASSUME InstallEntries == UserEntry \subseteq Key \X SUBSET (Atom \ Code)

(* profileAttributeConflict, and conflictsBeforeJoin.                      *)
ProfileConflict(f, p) ==
    "number" \in Atoms(f, "attributes") \/ Atoms(f, "attributes") \cap (Profile \ {p}) # {}
Conflicting(f, p) ==
    \/ \E k \in Owned \ {"headers"} : Has(f, k) /\ Atoms(f, k) # {"ours"}
    \/ Has(f, "headers")
    \/ ProfileConflict(f, p)

NoRecord == [kind |-> "none", token |-> NULL, createdEnv |-> FALSE, createdKey |-> FALSE,
             backup |-> NULL]
Idle == [pc |-> "idle", token |-> NULL, invited |-> FALSE, rec |-> NoRecord, seen |-> NoFile,
         touched |-> FALSE]
Running(p) == run[p].pc # "idle"
Step(p, pc) == run' = [run EXCEPT ![p].pc = pc]
End(p) == run' = [run EXCEPT ![p] = Idle]
MayGoWrong(p) == edits[p] + faults[p] < MaxMishaps[p]

Held(t) == \E p \in Profile : t \in TokenIn(file[p]) \/ run[p].token = t

-----------------------------------------------------------------------------
Init ==
    /\ file \in Settings
    /\ state = [p \in Profile |-> NoRecord]
    /\ run = [p \in Profile |-> Idle]
    /\ spent = {} /\ revoked = {}
    /\ before = [p \in Profile |-> NoFile]
    /\ edited = [p \in Profile |-> TRUE]
    /\ torn = [p \in Profile |-> FALSE] /\ leaving = [p \in Profile |-> FALSE]
    /\ written_off = {} /\ burned = {}
    /\ edits = [p \in Profile |-> 0] /\ faults = [p \in Profile |-> 0]

-----------------------------------------------------------------------------
(* Setup, up to the prompts: an identity to write, and settings that can   *)
(* be read and hold nothing in the way.                                    *)
Clear(p) == file[p].kind # "broken" /\ ~Conflicting(file[p], p)

BeginSetup(p, t) ==
    /\ ~Running(p) /\ Clear(p)
    /\ UNCHANGED <<file, state, server, before, edited, torn, leaving, written_off, burned, bounds>>
    /\ run' = [run EXCEPT ![p] = [Idle EXCEPT !.pc = "joining", !.token = t, !.invited = TRUE]]

(* Without an invite: the bearer in the settings of another profile on     *)
(* this machine that has a record -- whatever bearer is there now.         *)
BeginSibling(p, q, t) ==
    /\ ~Running(p) /\ Clear(p)
    /\ q # p /\ state[q].kind = "record" /\ file[q].kind # "broken" /\ t \in TokenIn(file[q])
    /\ run' = [run EXCEPT ![p] = [Idle EXCEPT !.pc = "writing", !.token = t]]
    /\ UNCHANGED <<file, state, server, before, edited, torn, leaving, written_off, burned, bounds>>

(* POST /join. *)
Join(p) ==
    /\ run[p].pc = "joining" /\ run[p].token \notin spent
    /\ spent' = spent \cup {run[p].token}
    /\ Step(p, "writing")
    /\ UNCHANGED <<file, state, revoked, before, edited, torn, leaving, written_off, burned, bounds>>
JoinRefused(p) ==
    /\ run[p].pc = "joining" /\ run[p].token \in spent
    /\ End(p)
    /\ UNCHANGED <<file, state, server, before, edited, torn, leaving, written_off, burned, bounds>>
JoinReplyLost(p) ==
    /\ run[p].pc = "joining" /\ run[p].token \notin spent
    /\ MayGoWrong(p) /\ faults' = [faults EXCEPT ![p] = @ + 1]
    /\ spent' = spent \cup {run[p].token}
    /\ written_off' = written_off \cup {run[p].token}
    /\ End(p)
    /\ UNCHANGED <<file, state, revoked, before, edited, torn, leaving, burned, edits>>

(* writeEnvEntries. The text to write is checked by running the removal on *)
(* it: what comes back has to be the text that was there.  The removal of  *)
(* an env put into the root object drops whitespace in front of a comma    *)
(* there, and so the check fails for the "loose"; a file without a text to *)
(* give back is not checked.                                               *)
Fresh(f) == f.kind \in {"absent", "blank", "bare", "loose"}
Updated(f, token) ==
    IF Fresh(f) THEN Written(EntriesFor(token)) ELSE AppendMembers(f.env, EntriesFor(token))
RoundTrips(f, token) ==
    IF Fresh(f) THEN f.kind # "loose" ELSE RemoveMembers(Updated(f, token), Owned) = f.env
Writable(p) == Clear(p) /\ file[p].kind # "mixed" /\ RoundTrips(file[p], run[p].token)

(* The settings are read and checked again, and the five keys written.     *)
WriteEntries(p) ==
    LET f == file[p]
    IN  /\ run[p].pc = "writing" /\ Writable(p)
        /\ file' = [file EXCEPT ![p] = WithEnv(Updated(f, run[p].token))]
        /\ run' = [run EXCEPT ![p].pc = "label",
                     ![p].rec = [NoRecord EXCEPT !.kind = "record", !.token = run[p].token,
                                   !.createdEnv = Fresh(f),
                                   !.backup = IF f.kind \in {"absent", "blank"} THEN NULL ELSE f]]
        /\ before' = [before EXCEPT ![p] = f]
        /\ edited' = [edited EXCEPT ![p] = FALSE]
        /\ torn' = [torn EXCEPT ![p] = FALSE]
        /\ leaving' = [leaving EXCEPT ![p] = FALSE]
        /\ UNCHANGED <<state, server, written_off, burned, bounds>>

(* What the second look finds in the way, or the round trip: setup ends,   *)
(* and says which member the admin should revoke.                          *)
WriteRefused(p) ==
    /\ run[p].pc = "writing" /\ ~Writable(p)
    /\ written_off' = IF run[p].invited THEN written_off \cup {run[p].token} ELSE written_off
    /\ burned' = IF run[p].invited /\ ~run[p].touched THEN burned \cup {run[p].token} ELSE burned
    /\ End(p)
    /\ UNCHANGED <<file, state, server, before, edited, torn, leaving, bounds>>

\* mutant of Labelled: a new label is written as an env of its own
LabelledOver(f, p) ==
    IF Has(f, "attributes")
    THEN ReplaceMemberValue(f.env, "attributes", (Atoms(f, "attributes") \ {"untidy"}) \cup {p})
    ELSE Written(<<[key |-> "attributes", value |-> {p}]>>)

(* writeProfileAttribute: into the value that is there, or as a new key.   *)
Labelled(f, p) ==
    IF Has(f, "attributes")
    THEN ReplaceMemberValue(f.env, "attributes", (Atoms(f, "attributes") \ {"untidy"}) \cup {p})
    ELSE IF f.kind = "env" THEN AppendMembers(f.env, <<[key |-> "attributes", value |-> {p}]>>)
    ELSE Written(<<[key |-> "attributes", value |-> {p}]>>)
Labellable(p) == file[p].kind \in {"bare", "loose", "env"} /\ ~ProfileConflict(file[p], p)

WriteAttribute(p) ==
    /\ run[p].pc = "label" /\ Labellable(p)
    /\ file' = [file EXCEPT ![p] = WithEnv(Labelled(@, p))]
    /\ run' = [run EXCEPT ![p].pc = "record",
                          ![p].rec.createdKey = ~Has(file[p], "attributes")]
    /\ UNCHANGED <<state, server, before, edited, torn, leaving, written_off, burned, bounds>>
AttributeRefused(p) ==
    /\ run[p].pc = "label" /\ ~Labellable(p)
    /\ torn' = [torn EXCEPT ![p] = TRUE]
    /\ End(p)
    /\ UNCHANGED <<file, state, server, before, edited, leaving, written_off, burned, bounds>>

\* mutant of WriteState: a record that is there is kept
WriteStateOnce(p) ==
    /\ run[p].pc = "record"
    /\ state' = IF state[p].kind = "record" THEN state ELSE [state EXCEPT ![p] = run[p].rec]
    /\ End(p)
    /\ UNCHANGED <<file, server, before, edited, torn, leaving, written_off, burned, bounds>>

WriteState(p) ==
    /\ run[p].pc = "record"
    /\ state' = [state EXCEPT ![p] = run[p].rec]
    /\ End(p)
    /\ UNCHANGED <<file, server, before, edited, torn, leaving, written_off, burned, bounds>>

-----------------------------------------------------------------------------
(* Uninstall reads the record and the settings, then asks.                 *)
LooksLikeCcledger(f) == LogsEndpoint(f) /\ Atoms(f, "headers") \cap MemberToken # {}

\* mutant of Removable: the keys of the record, whatever their values are now
RemovableByKey(rec, f) ==
    IF rec.kind = "record" THEN {k \in Owned : Has(f, k)}
    ELSE IF LooksLikeCcledger(f) THEN {k \in Owned : Has(f, k)} ELSE {}

(* The keys that will go: those of the record with the values it has a     *)
(* digest of; without a record all that are there, whatever their values,  *)
(* if the endpoint and the header look like ccledger's.                    *)
Removable(rec, f) ==
    IF rec.kind = "record"
    THEN {k \in Owned : Has(f, k) /\ Atoms(f, k) = IF k = "headers" THEN {rec.token} ELSE {"ours"}}
    ELSE IF LooksLikeCcledger(f) THEN {k \in Owned : Has(f, k)} ELSE {}

BeginUninstall(p) ==
    /\ ~Running(p) /\ state[p].kind # "broken" /\ file[p].kind # "broken"
    /\ \E t \in TokenIn(file[p]) \cup (IF TokenIn(file[p]) = {} THEN {NULL} ELSE {}) :
           run' = [run EXCEPT ![p] = [Idle EXCEPT !.pc = "asking", !.token = t,
                                        !.rec = state[p], !.seen = file[p]]]
    /\ UNCHANGED <<file, state, server, before, edited, torn, leaving, written_off, burned, bounds>>

(* A prompt answered no. *)
Cancel(p) ==
    /\ \/ run[p].pc = "joining"
       \/ run[p].pc = "asking" /\ Removable(run[p].rec, run[p].seen) # {}
    /\ End(p)
    /\ UNCHANGED <<file, state, server, before, edited, torn, leaving, written_off, burned, bounds>>

(* removeEnvKeys, on the text read before the prompts; env goes too if     *)
(* setup made it and it ends up empty.                                     *)
Without(f, keys, createdEnv) ==
    LET env == RemoveMembers(f.env, keys)
    IN  IF createdEnv /\ env.members = <<>> THEN [kind |-> "bare", env |-> Empty] ELSE WithEnv(env)

RemoveKeys(p) ==
    LET keys == Removable(run[p].rec, run[p].seen)
    IN  /\ run[p].pc = "asking"
        /\ file' = IF keys = {} THEN file
                    ELSE [file EXCEPT ![p] = Without(run[p].seen, keys, run[p].rec.createdEnv)]
        /\ Step(p, IF run[p].rec.kind = "record" THEN "unlabel" ELSE "notify")
        /\ leaving' = [leaving EXCEPT ![p] = TRUE]
        /\ UNCHANGED <<state, server, before, edited, torn, written_off, burned, bounds>>

(* Or the backup of the record, over whatever is there.                    *)
Restore(p) ==
    /\ run[p].pc = "asking" /\ run[p].rec.backup # NULL
    /\ file' = [file EXCEPT ![p] = run[p].rec.backup]
    /\ Step(p, "notify")
    /\ leaving' = [leaving EXCEPT ![p] = TRUE]
    /\ UNCHANGED <<state, server, before, edited, torn, written_off, burned, bounds>>

(* removeProfileAttribute, on the settings read again.                     *)
Unlabelled(f, p, createdKey) ==
    LET pairs == Atoms(f, "attributes") \ {"untidy", p}
    IN  IF pairs = {} /\ createdKey THEN WithEnv(RemoveMembers(f.env, {"attributes"}))
        ELSE WithEnv(ReplaceMemberValue(f.env, "attributes", pairs))
HasLabel(f, p) == f.kind = "env" /\ Atoms(f, "attributes") \cap Profile = {p} /\ ~ProfileConflict(f, p)

RemoveAttribute(p) ==
    /\ run[p].pc = "unlabel"
    /\ file' = IF HasLabel(file[p], p)
                THEN [file EXCEPT ![p] = Unlabelled(@, p, run[p].rec.createdKey)] ELSE file
    /\ Step(p, "notify")
    /\ UNCHANGED <<state, server, before, edited, torn, leaving, written_off, burned, bounds>>

(* The server's address is the record's, else that of the endpoint key,    *)
(* which may be another server's.                                          *)
ServerKnown(p) == run[p].rec.kind = "record" \/ LogsEndpoint(run[p].seen)
ServerIsOurs(p) == run[p].rec.kind = "record" \/ Atoms(run[p].seen, "endpoint") = {"ours"}

\* mutant of Notify: the token is read from the settings, where it no longer is
NotifyLate(p) ==
    /\ run[p].pc = "notify" /\ run[p].token # NULL /\ ServerKnown(p)
    /\ \/ /\ ServerIsOurs(p) /\ UNCHANGED written_off
          /\ revoked' = revoked \cup (TokenIn(file[p]) \cap spent)
       \/ written_off' = written_off \cup (TokenIn(file[p]) \cap Code) /\ UNCHANGED revoked
    /\ Step(p, "forget")
    /\ UNCHANGED <<file, state, spent, before, edited, torn, leaving, burned, bounds>>

\* mutant of Notify: without looking whether there is a token
NotifyAnyway(p) ==
    /\ run[p].pc = "notify" /\ ServerKnown(p)
    /\ \/ /\ ServerIsOurs(p) /\ UNCHANGED written_off
          /\ revoked' = revoked \cup ({run[p].token} \cap spent)
       \/ written_off' = written_off \cup ({run[p].token} \ Foreign) /\ UNCHANGED revoked
    /\ Step(p, "forget")
    /\ UNCHANGED <<file, state, spent, before, edited, torn, leaving, burned, bounds>>

(* POST /leave with the token read before the removal; a token it did not  *)
(* issue the server does not know.  Declined, or unanswered: the user is   *)
(* told which member the admin should revoke.  Another server, of an       *)
(* endpoint somebody set, does not know our token: the user is told that   *)
(* there is nothing to revoke, and the token is lost by that edit.         *)
Notify(p) ==
    /\ run[p].pc = "notify" /\ run[p].token # NULL /\ ServerKnown(p)
    /\ \/ /\ ServerIsOurs(p) /\ UNCHANGED written_off
          /\ revoked' = revoked \cup ({run[p].token} \cap spent)
       \/ written_off' = written_off \cup ({run[p].token} \cap Code) /\ UNCHANGED revoked
    /\ Step(p, "forget")
    /\ UNCHANGED <<file, state, spent, before, edited, torn, leaving, burned, bounds>>
NothingToNotify(p) ==
    /\ run[p].pc = "notify" /\ ~(run[p].token # NULL /\ ServerKnown(p))
    /\ Step(p, "forget")
    /\ UNCHANGED <<file, state, server, before, edited, torn, leaving, written_off, burned, bounds>>

(* removeStateDirectory. *)
Forget(p) ==
    /\ run[p].pc = "forget"
    /\ state' = [state EXCEPT ![p] = NoRecord]
    /\ leaving' = [leaving EXCEPT ![p] = FALSE]
    /\ before' = [before EXCEPT ![p] = NoFile]
    /\ End(p)
    /\ UNCHANGED <<file, server, edited, torn, written_off, burned, bounds>>

-----------------------------------------------------------------------------
(* A command ends: a crash, a closed terminal.  Each write of the settings *)
(* is a rename; the record is not, and may be left half written.           *)
Crash(p) ==
    /\ Running(p) /\ MayGoWrong(p) /\ faults' = [faults EXCEPT ![p] = @ + 1]
    /\ End(p)
    /\ state' \in {state} \cup
          (IF run[p].pc = "record" THEN {[state EXCEPT ![p] = [NoRecord EXCEPT !.kind = "broken"]]}
           ELSE {})
    /\ torn' = [torn EXCEPT ![p] = @ \/ run[p].pc \in {"label", "record"}]
    /\ written_off' = written_off \cup (({run[p].token} \cap spent) \ TokenIn(file[p]))
    /\ UNCHANGED <<file, server, before, edited, leaving, burned, edits>>

(* The owner, or a program of theirs, writes the settings ...              *)
Edited(f, key, value) ==
    IF Has(f, key) THEN WithEnv(ReplaceMemberValue(f.env, key, value))
    ELSE IF f.kind = "env" THEN WithEnv(AppendMembers(f.env, <<[key |-> key, value |-> value]>>))
    ELSE WithEnv(Written(<<[key |-> key, value |-> value]>>))
Edits(f) ==
    {Edited(f, e[1], e[2]) : e \in UserEntry}
    \cup {WithEnv(RemoveMembers(f.env, {k})) : k \in Keys(f.env)}
    \cup {[kind |-> "broken", env |-> Empty]}

Edit(p) ==
    /\ MayGoWrong(p) /\ edits' = [edits EXCEPT ![p] = @ + 1]
    /\ file[p].kind # "broken"
    /\ \E f \in Edits(file[p]) : file' = [file EXCEPT ![p] = f]
    /\ edited' = [edited EXCEPT ![p] = TRUE] /\ before' = [before EXCEPT ![p] = NoFile]
    /\ run' = [run EXCEPT ![p].touched = Running(p)]
    /\ written_off' = written_off \cup ((TokenIn(file[p]) \ TokenIn(file'[p])) \cap Code)
    /\ UNCHANGED <<state, server, torn, leaving, burned, faults>>

(* ... or deletes ~/.ccledger.                                             *)
LoseRecord(p) ==
    /\ MayGoWrong(p) /\ edits' = [edits EXCEPT ![p] = @ + 1]
    /\ state[p].kind # "none"
    /\ state' = [state EXCEPT ![p] = NoRecord]
    /\ UNCHANGED <<file, run, server, before, edited, torn, leaving, written_off, burned, faults>>

Setup(p) ==
    \/ \E t \in Code : BeginSetup(p, t)
    \/ \E q \in Profile, t \in Token : BeginSibling(p, q, t)
    \/ Join(p) \/ JoinRefused(p) \/ JoinReplyLost(p)
    \/ WriteEntries(p) \/ WriteRefused(p)
    \/ WriteAttribute(p) \/ AttributeRefused(p) \/ WriteState(p)
Uninstall(p) ==
    \/ BeginUninstall(p) \/ RemoveKeys(p) \/ Restore(p) \/ RemoveAttribute(p)
    \/ Notify(p) \/ NothingToNotify(p) \/ Forget(p)

Next == \E p \in Profile : Setup(p) \/ Uninstall(p) \/ Cancel(p) \/ Crash(p) \/ Edit(p) \/ LoseRecord(p)

Spec == Init /\ [][Next]_vars

-----------------------------------------------------------------------------
(* The checks `ccledger doctor' makes of a profile's settings and token;   *)
(* the server is up, and the shell and the transcripts are not looked at.  *)
(* A file without keys fails the first check, and so a token that is not   *)
(* there is no question of its own.                                        *)
ConfigKeysOk(f) ==
    f.kind # "broken" /\ Owned \subseteq Keys(f.env) /\ Atoms(f, "exporter") = {"ours"}
TokenOk(f) == TokenIn(f) \subseteq spent \ revoked
DoctorOk(p) == ConfigKeysOk(file[p]) /\ TokenOk(file[p])

-----------------------------------------------------------------------------
(* Settings, records and commands have their form; in particular nothing   *)
(* ever writes a key into a file that has no env object.                   *)
Record == [kind : {"none", "broken", "record"}, token : Token \cup {NULL},
           createdEnv : BOOLEAN, createdKey : BOOLEAN, backup : File \cup {NULL}]
Command == [pc : {"idle", "joining", "writing", "label", "record", "asking", "unlabel",
                  "notify", "forget"},
            token : Token \cup {NULL}, invited : BOOLEAN, rec : Record, seen : File,
            touched : BOOLEAN]
TypeOK ==
    /\ file \in [Profile -> File] /\ before \in [Profile -> File]
    /\ state \in [Profile -> Record] /\ run \in [Profile -> Command]
    /\ edited \in [Profile -> BOOLEAN] /\ torn \in [Profile -> BOOLEAN]
    /\ leaving \in [Profile -> BOOLEAN]
    /\ spent \subseteq Code /\ revoked \subseteq spent
    /\ written_off \subseteq Code /\ burned \subseteq spent
    /\ edits \in [Profile -> Nat] /\ faults \in [Profile -> Nat]
    /\ \A p \in Profile : edits[p] + faults[p] <= MaxMishaps[p]

(* A token the server honours is in some settings or in a command's hands, *)
(* unless a fault or an edit lost it or the user was told to have it       *)
(* revoked: no path of setup or uninstall drops one silently.              *)
TokenAccountedFor ==
    \A t \in spent \ revoked : Held(t) \/ t \in written_off

(* What setup wrote and nobody else touched, uninstall will take out, with *)
(* or without a record, wherever an earlier command was cut short -- but   *)
(* for a record that an interrupted uninstall left and an interrupted      *)
(* setup did not replace.  An uninstall that goes by such a record takes   *)
(* out the endpoint, and leaves a header that is not the record's; without *)
(* its endpoint that one no longer looks like ccledger's.  Without a       *)
(* record what is recognised is a member token: a bearer of another form,  *)
(* taken over from a profile in whose settings somebody put it, is not.    *)
Outdated(p) == torn[p] /\ (state[p].kind = "record" \/ ~Has(file[p], "endpoint"))
Undoable ==
    \A p \in Profile :
        (/\ ~Running(p) /\ ~edited[p] /\ TokenIn(file[p]) # {} /\ state[p].kind # "broken"
         /\ state[p].kind = "record" \/ TokenIn(file[p]) \cap MemberToken # {}
         /\ ~Outdated(p))
        => Removable(state[p], file[p]) = Owned

(* The doctor finds a finished install well, unless its token was revoked  *)
(* -- or it was taken over from another profile after somebody had put a   *)
(* bearer of another collector into that one's settings: setup hands on    *)
(* the bearer that is there, and does not ask whether it is the one its    *)
(* record has a digest of.  The keys are in order even then.               *)
Finished(p) ==
    ~Running(p) /\ ~edited[p] /\ ~torn[p] /\ ~leaving[p] /\ state[p].kind = "record"
InstallIsHealthy ==
    \A p \in Profile :
        Finished(p) =>
            \/ DoctorOk(p)
            \/ /\ ConfigKeysOk(file[p])
               /\ \/ TokenIn(file[p]) \cap revoked # {}
                  \/ TokenIn(file[p]) \subseteq Foreign /\ \E q \in Profile : edits[q] > 0

(* Once uninstall is through with settings nobody else wrote, they are as  *)
(* setup found them, except that an env object setup made stays behind     *)
(* empty, and that of the labels the profile's own pair is gone and what   *)
(* does not parse is not kept.                                             *)
Left(f, p) ==
    IF Fresh(f) THEN [members |-> <<>>, inside |-> "line"]
    ELSE IF Has(f, "attributes")
         THEN ReplaceMemberValue(f.env, "attributes", Atoms(f, "attributes") \ {"untidy", p})
         ELSE f.env
UninstallRestores ==
    [][\A p \in Profile :
         (/\ run[p].pc = "forget" /\ ~(run'[p].pc = "forget") /\ state'[p].kind = "none"
          /\ state[p].kind = "record" /\ ~edited[p] /\ ~torn[p])
         => file[p] \in {before[p], WithEnv(Left(before[p], p))}]_vars

(* No command changes or loses an entry of the user's, nor repairs or      *)
(* replaces settings it cannot read; what it writes or takes out is ours,  *)
(* the token it has, and the label.  Of uninstall, which writes what it    *)
(* read before its prompts, three things are said instead.  A backup put   *)
(* back is the file that setup found.  With a record, an edit made during  *)
(* the prompts is undone, and nothing else is lost.  Without a record,     *)
(* settings with a member token and a logs endpoint lose the keys setup    *)
(* writes, whatever somebody has set them to since, and no other.          *)
UsersOwn(f, token) ==
    [kind |-> f.kind \in {"broken", "mixed"},
     entries |-> [k \in Key |-> Atoms(f, k) \ ({"ours", "untidy", token} \cup Code \cup Profile)]]
TokenWritten(p) == IF run[p].pc = "writing" THEN run[p].token ELSE run[p].rec.token
KeepsUserKeys ==
    edits' = edits =>
        \A p \in {q \in Profile : file'[q] # file[q]} :
            LET own(f) == UsersOwn(f, TokenWritten(p))
                seen == run[p].seen
            IN  \/ own(file'[p]) = own(file[p])
                \/ /\ run[p].pc = "asking"
                   /\ \/ file'[p] = run[p].rec.backup
                      \/ /\ run[p].rec.kind = "record" /\ run[p].touched
                         /\ own(file'[p]) = own(seen)
                      \/ /\ run[p].rec.kind = "none" /\ LooksLikeCcledger(seen)
                         /\ file'[p].kind = seen.kind
                         /\ \A k \in Key \ Owned : Atoms(file'[p], k) = Atoms(seen, k)
UserKeysKept == [][KeepsUserKeys]_vars

(* Setup refuses what it can see to refuse before it spends the code (the  *)
(* header of cli/setup.ts).                                                *)
EarlyRefusal == burned = {}
=============================================================================
