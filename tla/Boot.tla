-------------------------------- MODULE Boot --------------------------------
(***************************************************************************)
(* `ccledger serve': several server processes that boot on one database -- *)
(* a restart that overlaps, a second container that rotates the admin      *)
(* token, a newer build -- each of them through migrations, the socket,    *)
(* the mDNS name, the settings in server_config and the admin token.       *)
(*                                                                         *)
(* A process does not stop between its statements but for an await: in     *)
(* `binding' and `advertising' it serves signals, and in `advertising' and *)
(* `serving' requests.  Another process may come in between any two of its *)
(* statements, and its end between any two.                                *)
(***************************************************************************)
EXTENDS Calendar, FiniteSets

CONSTANTS
    Server,
    Build,        \* Build[s]: the highest migration the build of s knows
    SystemZone,   \* SystemZone[s]: the zone of the machine s runs on
    Hostname,     \* Hostname[s]: its name
    Option,       \* the command lines: [port, laptop, url, name, zone, rotate]
    Url(_, _),    \* Url(port, advertised): laptopPublicUrl, or NULL
    Token,        \* admin tokens
    NULL,
    Horizon,      \* instants at which batches arrive
    MaxFires,     \* bound: alerts fired
    MaxBoots,     \* bound: processes started
    MaxCrashes    \* bound: processes that die

ASSUME BootAssumption ==
    /\ MaxFires \in Nat /\ MaxBoots \in Nat /\ MaxCrashes \in Nat
    /\ NULL \notin Token /\ Build \in [Server -> Nat]
    /\ \E s \in Server : \A r \in Server : Build[r] <= Build[s]

(* The zones there may be, which where alerts come in are steady.          *)
Zone == {o.zone : o \in Option} \cup {SystemZone[s] : s \in Server} \cup {NULL}
ASSUME BootZones ==
    /\ 2 * Gap <= Day /\ Horizon \subseteq Int /\ \A s \in Server : SystemZone[s] # NULL
    /\ \A z \in Zone \ {NULL}, t \in Horizon, window \in {"day", "week"} :
          /\ Offset(z, t) \in (-Day) .. Day
          /\ Steady(FirstDay(window, t, z), z) /\ Steady(NextDay(window, t, z), z)

VARIABLES
    applied,     \* applied[v]: how often migration v was committed
    config,      \* server_config: [name, url, zone, admin]
    proc,        \* proc[s]: the process of server s
    shown,       \* admin tokens that were printed
    lost,        \* admin tokens whose process died before it printed them
    names,       \* servers whose mDNS name is out, without a goodbye
    orphans,     \* of them, those whose process died, or was told to stop
                 \* while it was still advertising
    raced,       \* a zone was written over one stored after it was read
    fires,       \* alerts fired: rule, zone, instant, and the window that is their key
    boots, crashes

vars == <<applied, config, proc, shown, lost, names, orphans, raced, fires, boots, crashes>>
tokens == <<shown, lost>>
mdns == <<names, orphans>>
bounds == <<boots, crashes>>

Newest == CHOOSE s \in Server : \A r \in Server : Build[r] <= Build[s]
Version == 1 .. Build[Newest]
Schema == {v \in Version : applied[v] > 0}
CurrentVersion == IF Schema = {} THEN 0 ELSE CHOOSE v \in Schema : \A w \in Schema : w <= v

Off == [pc |-> "off", o |-> NULL, from |-> 0, closing |-> FALSE, host |-> FALSE, read |-> NULL,
        token |-> NULL]
Awaiting == {"binding", "advertising", "serving"}
Bound == {"advertising", "name", "url", "readzone", "writezone", "admin", "show", "serving"}
Step(s, pc) == proc' = [proc EXCEPT ![s].pc = pc]
End(s) == proc' = [proc EXCEPT ![s] = Off]

Init ==
    /\ applied = [v \in Version |-> 0]
    /\ config = [name |-> NULL, url |-> NULL, zone |-> NULL, admin |-> NULL]
    /\ proc = [s \in Server |-> Off]
    /\ shown = {} /\ lost = {} /\ names = {} /\ orphans = {}
    /\ raced = FALSE
    /\ fires = {}
    /\ boots = 0 /\ crashes = 0

-----------------------------------------------------------------------------
(* The options are valid; the version is read, outside any transaction.    *)
Start(s, o) ==
    /\ proc[s].pc = "off" /\ boots < MaxBoots /\ boots' = boots + 1
    /\ proc' = [proc EXCEPT ![s] = [Off EXCEPT !.pc = "migrating", !.o = o, !.from = CurrentVersion]]
    /\ UNCHANGED <<applied, config, tokens, mdns, raced, fires, crashes>>

(* A database of a newer build, or a migration another process stamped     *)
(* since: the boot fails.                                                  *)
Next1(s) == proc[s].from + 1
BootFails(s) ==
    /\ proc[s].pc = "migrating"
    /\ proc[s].from > Build[s] \/ (proc[s].from < Build[s] /\ Next1(s) \in Schema)
    /\ End(s)
    /\ UNCHANGED <<applied, config, tokens, mdns, raced, fires, bounds>>

\* mutant of Migrate: the stamp is INSERT OR IGNORE
MigrateAgain(s) ==
    /\ proc[s].pc = "migrating" /\ proc[s].from < Build[s]
    /\ applied' = [applied EXCEPT ![Next1(s)] = @ + 1]
    /\ proc' = [proc EXCEPT ![s].from = @ + 1]
    /\ UNCHANGED <<config, tokens, mdns, raced, fires, bounds>>

(* One migration and its stamp, in one transaction.                        *)
Migrate(s) ==
    /\ proc[s].pc = "migrating" /\ proc[s].from < Build[s] /\ Next1(s) \notin Schema
    /\ applied' = [applied EXCEPT ![Next1(s)] = @ + 1]
    /\ proc' = [proc EXCEPT ![s].from = @ + 1]
    /\ UNCHANGED <<config, tokens, mdns, raced, fires, bounds>>

Migrated(s) ==
    /\ proc[s].pc = "migrating" /\ proc[s].from = Build[s]
    /\ Step(s, "binding")
    /\ UNCHANGED <<applied, config, tokens, mdns, raced, fires, bounds>>

PortFree(s) == \A r \in Server \ {s} : proc[r].pc \in Bound => proc[r].o.port # proc[s].o.port

(* app.listen; only laptop mode without a URL of its own advertises.       *)
Listen(s) ==
    /\ proc[s].pc = "binding" /\ PortFree(s)
    /\ Step(s, IF proc[s].o.laptop /\ proc[s].o.url = NULL THEN "advertising" ELSE "name")
    /\ UNCHANGED <<applied, config, tokens, mdns, raced, fires, bounds>>
ListenFails(s) ==
    /\ proc[s].pc = "binding" /\ ~PortFree(s)
    /\ End(s)
    /\ UNCHANGED <<applied, config, tokens, mdns, raced, fires, bounds>>

\* mutant of Advertise: waits for the announcement, which a name already out prevents
AdvertiseUp(s) ==
    /\ proc[s].pc = "advertising" /\ names \subseteq {s}
    /\ proc' = [proc EXCEPT ![s].pc = "name", ![s].host = TRUE]
    /\ names' = names \cup {s}
    /\ orphans' = IF proc[s].closing THEN orphans \cup {s} ELSE orphans \ {s}
    /\ UNCHANGED <<applied, config, tokens, raced, fires, bounds>>

(* advertise: the name is up, or an error or the time limit ends the wait. *)
(* A name that comes up after the signal has nobody to take it down.       *)
Advertise(s) ==
    /\ proc[s].pc = "advertising"
    /\ \/ /\ names' = names \cup {s}
          /\ orphans' = IF proc[s].closing THEN orphans \cup {s} ELSE orphans \ {s}
          /\ proc' = [proc EXCEPT ![s].pc = "name", ![s].host = TRUE]
       \/ Step(s, "name") /\ UNCHANGED mdns
    /\ UNCHANGED <<applied, config, tokens, raced, fires, bounds>>

\* mutant of SetName: the host's name is written on every boot
SetNameAlways(s) ==
    /\ proc[s].pc = "name"
    /\ config' = [config EXCEPT !.name =
           IF proc[s].o.name # NULL THEN proc[s].o.name ELSE Hostname[s]]
    /\ Step(s, "url")
    /\ UNCHANGED <<applied, tokens, mdns, raced, fires, bounds>>

(* A name given on the command line, else the host's if there is none yet, *)
(* in one statement.                                                       *)
SetName(s) ==
    /\ proc[s].pc = "name"
    /\ config' = [config EXCEPT !.name =
           IF proc[s].o.name # NULL THEN proc[s].o.name ELSE IF @ = NULL THEN Hostname[s] ELSE @]
    /\ Step(s, "url")
    /\ UNCHANGED <<applied, tokens, mdns, raced, fires, bounds>>

(* The URL for invites, if this boot has one.                              *)
PublicUrl(s) ==
    IF proc[s].o.laptop /\ proc[s].o.url = NULL THEN Url(proc[s].o.port, proc[s].host)
    ELSE proc[s].o.url
SetUrl(s) ==
    /\ proc[s].pc = "url"
    /\ config' = [config EXCEPT !.url = IF PublicUrl(s) = NULL THEN @ ELSE PublicUrl(s)]
    /\ Step(s, "readzone")
    /\ UNCHANGED <<applied, tokens, mdns, raced, fires, bounds>>

(* The zone, read and written in two statements: the flag's, else the one  *)
(* stored, else the machine's.                                             *)
ReadZone(s) ==
    /\ proc[s].pc = "readzone"
    /\ proc' = [proc EXCEPT ![s].pc = "writezone", ![s].read = config.zone]
    /\ UNCHANGED <<applied, config, tokens, mdns, raced, fires, bounds>>
ZoneChoice(s) ==
    IF proc[s].o.zone # NULL THEN proc[s].o.zone
    ELSE IF proc[s].read # NULL THEN proc[s].read ELSE SystemZone[s]
WriteZone(s) ==
    /\ proc[s].pc = "writezone"
    /\ config' = [config EXCEPT !.zone = ZoneChoice(s)]
    /\ raced' = (raced \/ config.zone # proc[s].read)
    /\ Step(s, "admin")
    /\ UNCHANGED <<applied, tokens, mdns, fires, bounds>>

Issued == shown \cup lost \cup {proc[s].token : s \in Server} \cup {config.admin}

\* mutant of EnsureAdmin: a new database is one that had no zone when this process looked
EnsureAdminAsRead(s) ==
    /\ proc[s].pc = "admin"
    /\ IF proc[s].read # NULL /\ ~proc[s].o.rotate THEN Step(s, "serving") /\ UNCHANGED config
       ELSE \E t \in Token \ Issued :
               /\ config' = [config EXCEPT !.admin = t]
               /\ proc' = [proc EXCEPT ![s].pc = "show", ![s].token = t]
    /\ UNCHANGED <<applied, tokens, mdns, raced, fires, bounds>>

(* ensureAdminToken, one immediate transaction.                            *)
EnsureAdmin(s) ==
    /\ proc[s].pc = "admin"
    /\ IF config.admin # NULL /\ ~proc[s].o.rotate THEN Step(s, "serving") /\ UNCHANGED config
       ELSE LET fresh == CHOOSE t \in Token : t \notin Issued
            IN  /\ Token \ Issued # {}
                /\ config' = [config EXCEPT !.admin = fresh]
                /\ proc' = [proc EXCEPT ![s].pc = "show", ![s].token = fresh]
    /\ UNCHANGED <<applied, tokens, mdns, raced, fires, bounds>>

\* mutant of ShowToken: the process keeps the token
ShowTokenKeep(s) ==
    /\ proc[s].pc = "show"
    /\ shown' = shown \cup {proc[s].token}
    /\ Step(s, "serving")
    /\ UNCHANGED <<applied, config, lost, mdns, raced, fires, bounds>>

\* mutant of ShowToken: nothing is printed once a signal has come
ShowTokenUnlessClosing(s) ==
    /\ proc[s].pc = "show"
    /\ shown' = IF proc[s].closing THEN shown ELSE shown \cup {proc[s].token}
    /\ proc' = [proc EXCEPT ![s].pc = "serving", ![s].token = NULL]
    /\ UNCHANGED <<applied, config, lost, mdns, raced, fires, bounds>>

ShowToken(s) ==
    /\ proc[s].pc = "show"
    /\ shown' = shown \cup {proc[s].token}
    /\ proc' = [proc EXCEPT ![s].pc = "serving", ![s].token = NULL]
    /\ UNCHANGED <<applied, config, lost, mdns, raced, fires, bounds>>

-----------------------------------------------------------------------------
\* mutant of Signal: the goodbye is left to the end of the process
SignalOnly(s) ==
    /\ proc[s].pc \in Awaiting /\ ~proc[s].closing
    /\ proc' = [proc EXCEPT ![s].closing = TRUE]
    /\ UNCHANGED <<applied, config, tokens, mdns, raced, fires, bounds>>

(* A signal: goodbye packets for the name there is by now, then the socket *)
(* and the database are closed.  Until that is done a boot goes on.        *)
Signal(s) ==
    /\ proc[s].pc \in Awaiting /\ ~proc[s].closing
    /\ proc' = [proc EXCEPT ![s].closing = TRUE]
    /\ names' = IF proc[s].host THEN names \ {s} ELSE names
    /\ UNCHANGED <<applied, config, tokens, orphans, raced, fires, bounds>>
Exit(s) ==
    /\ proc[s].pc \in Awaiting /\ proc[s].closing
    /\ End(s)
    /\ UNCHANGED <<applied, config, tokens, mdns, raced, fires, bounds>>

(* The process dies between two statements.                                *)
Crash(s) ==
    /\ proc[s].pc # "off" /\ crashes < MaxCrashes /\ crashes' = crashes + 1
    /\ End(s)
    /\ lost' = IF proc[s].token = NULL THEN lost ELSE lost \cup {proc[s].token}
    /\ orphans' = orphans \cup ({s} \cap names)
    /\ UNCHANGED <<applied, config, shown, names, raced, fires, boots>>

(* A batch crosses a threshold at instant t.  Rules are made with an admin *)
(* token; the zone is read anew by every evaluation, and the start of the  *)
(* window is the key by which the rule fires once.                         *)
ZoneInForce(s) == IF config.zone # NULL THEN config.zone ELSE SystemZone[s]
Evaluate(s, window, t) ==
    LET bounds_ == WindowBoundsAt(window, t, ZoneInForce(s))
        fire == [rule |-> window, zone |-> ZoneInForce(s), at |-> t, start |-> bounds_.start,
                 end |-> bounds_.end]
    IN  /\ proc[s].pc \in {"advertising", "serving"} /\ shown # {}
        /\ Cardinality(fires) < MaxFires
        /\ ~\E f \in fires : f.rule = window /\ f.start = fire.start
        /\ fires' = fires \cup {fire}
        /\ UNCHANGED <<applied, config, proc, tokens, mdns, raced, bounds>>

Advance(s) ==
    \/ BootFails(s) \/ Migrate(s) \/ Migrated(s) \/ Listen(s) \/ ListenFails(s) \/ Advertise(s)
    \/ SetName(s) \/ SetUrl(s) \/ ReadZone(s) \/ WriteZone(s) \/ EnsureAdmin(s) \/ ShowToken(s)
Next ==
    \E s \in Server :
        \/ \E o \in Option : Start(s, o)
        \/ Advance(s) \/ Signal(s) \/ Exit(s) \/ Crash(s)
        \/ \E window \in {"day", "week"}, t \in Horizon : Evaluate(s, window, t)

(* A process that runs goes on.                                            *)
Fairness == \A s \in Server : WF_vars(Advance(s))
Spec == Init /\ [][Next]_vars /\ Fairness

-----------------------------------------------------------------------------
Config == [name : {o.name : o \in Option} \cup {Hostname[s] : s \in Server} \cup {NULL},
           url : {o.url : o \in Option} \cup {Url(o.port, up) : o \in Option, up \in BOOLEAN} \cup {NULL},
           zone : Zone, admin : Token \cup {NULL}]
Process == [pc : {"off", "migrating", "binding"} \cup Bound, o : Option \cup {NULL}, from : Nat,
            closing : BOOLEAN, host : BOOLEAN, read : Zone, token : Token \cup {NULL}]

(* Every variable has its type; a process has a token in clear only until  *)
(* it has printed it.                                                      *)
TypeOK ==
    /\ applied \in [Version -> Nat] /\ config \in Config
    /\ proc \in [Server -> Process]
    /\ \A s \in Server : proc[s].token # NULL <=> proc[s].pc = "show"
    /\ shown \subseteq Token /\ lost \subseteq Token
    /\ names \subseteq Server /\ orphans \subseteq names
    /\ raced \in BOOLEAN /\ Cardinality(fires) <= MaxFires
    /\ boots \in 0..MaxBoots /\ crashes \in 0..MaxCrashes

(* Whatever boots at once, and wherever boots were cut short: migrations   *)
(* were committed once each and without a gap, and no process gets to its  *)
(* socket on a database older than its build.                              *)
SchemaIsSound ==
    /\ \A v \in Version : applied[v] <= 1 /\ (applied[v] = 1 => \A w \in 1..v : applied[w] = 1)
    /\ \A s \in Server : proc[s].pc \notin {"off", "migrating"} => 1..Build[s] \subseteq Schema

(* A name or a zone that is stored is replaced only by one that was asked  *)
(* for: a boot without the flag keeps what is there, on whatever machine   *)
(* it runs.  Not so for the zone when two boots overlap, which is read and *)
(* written in two statements.                                              *)
ChoiceStands ==
    [][\A s \in Server :
         /\ config.name # NULL /\ config'.name # config.name /\ proc'[s] # proc[s]
              => proc[s].o.name = config'.name
         /\ config.zone # NULL /\ config'.zone # config.zone /\ ~raced' /\ proc'[s] # proc[s]
              => proc[s].o.zone = config'.zone]_vars

(* Only --rotate-admin-token takes the admin token in force away: however  *)
(* many servers boot on a new database, one of them prints a token.        *)
AdminStands ==
    [][config.admin # NULL /\ config'.admin # config.admin =>
         \E s \in Server : proc[s].pc = "admin" /\ proc[s].o.rotate]_vars

(* The admin token in force was printed, or is about to be, or died with   *)
(* the process that issued it: a server whose token nobody has seen comes  *)
(* from a crash only, never from a signal or a failed boot.                *)
TokenIsKnown ==
    config.admin # NULL =>
        config.admin \in shown \cup lost \/ \E s \in Server : proc[s].token = config.admin

(* A rule fires once in a window: two fires of a rule are keyed by windows *)
(* that do not overlap, and each fire lies in its own, across              *)
(* daylight-saving transitions and whatever boots in between, unless the   *)
(* zone in force was changed.  A day whose midnight the clock shows twice  *)
(* is the exception: its first hour may lie before its window.  And every  *)
(* fire is keyed by a zone that was in force by decision, never by the     *)
(* machine's for want of a stored one.                                     *)
FiresAreKeyed ==
    /\ fires # {} => config.zone # NULL
    /\ \A f \in fires :
          (f.start <= f.at /\ f.at < f.end) \/ MidnightRepeated(f.at, f.zone)
    /\ \A f, g \in fires : f.rule = g.rule /\ f.zone = g.zone =>
          f = g \/ f.end <= g.start \/ g.end <= f.start

(* The name on the network goes with its server, unless the server died or *)
(* was told to stop while it was still advertising.                        *)
NameIsWithdrawn == \A s \in names : (proc[s].host /\ ~proc[s].closing) \/ s \in orphans

(* A boot ends: it serves, or it gives up.  It waits for no announcement   *)
(* that never comes.                                                       *)
BootSettles ==
    \A s \in Server : proc[s].pc = "binding" ~> proc[s].pc \in {"off", "serving"}
=============================================================================
