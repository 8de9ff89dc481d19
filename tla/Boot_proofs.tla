----------------------------- MODULE Boot_proofs -----------------------------
(***************************************************************************)
(* What Boot promises, for every number of servers, of their builds and    *)
(* zones, every set of command lines, and every bound on boots, crashes    *)
(* and alerts.                                                             *)
(***************************************************************************)
EXTENDS Boot, Calendar_proofs, FiniteSetTheorems

(* Which migrations are there: those up to some version, once each.        *)
Gapless ==
    \E k \in 0 .. Build[Newest] : \A v \in Version : applied[v] = IF v <= k THEN 1 ELSE 0

(* A process that runs has its options; what it has migrated is there; it  *)
(* is past its migrations only when they are done.                         *)
Sound(s) ==
    /\ proc[s].pc # "off" => proc[s].o \in Option
    /\ proc[s].pc # "off" => 1 .. proc[s].from \subseteq Schema
    /\ proc[s].pc \notin {"off", "migrating"} => proc[s].from = Build[s]

(* A process that holds its name is past advertising, and unless it was    *)
(* told to stop its name is no orphan.                                     *)
Holds(s) ==
    /\ proc[s].host => proc[s].pc \in Bound \ {"advertising"}
    /\ proc[s].host /\ ~proc[s].closing => s \notin orphans

Types ==
    /\ applied \in [Version -> Nat] /\ config \in Config /\ proc \in [Server -> Process]
    /\ shown \subseteq Token /\ lost \subseteq Token
    /\ raced \in BOOLEAN /\ boots \in 0..MaxBoots /\ crashes \in 0..MaxCrashes
    /\ IsFiniteSet(fires) /\ Cardinality(fires) <= MaxFires
Schemas == Gapless /\ \A s \in Server : Sound(s)
Names == /\ names \subseteq Server /\ orphans \subseteq names
         /\ NameIsWithdrawn /\ \A s \in Server : Holds(s)
Tokens == /\ \A s \in Server : proc[s].token # NULL <=> proc[s].pc = "show"
          /\ TokenIsKnown
BootInv == Types /\ Schemas /\ Names /\ Tokens

LEMMA NewestIsServer == Newest \in Server /\ \A r \in Server : Build[r] <= Build[Newest]
BY BootAssumption DEF Newest

LEMMA NewestIsNat == Build[Newest] \in Nat /\ \A r \in Server : Build[r] \in Nat
BY BootAssumption, NewestIsServer

(* The version of a database whose migrations have no gap.                 *)
LEMMA VersionIsLast ==
    ASSUME NEW k \in 0 .. Build[Newest],
           \A v \in Version : applied[v] = IF v <= k THEN 1 ELSE 0
    PROVE  Schema = 1 .. k /\ CurrentVersion = k
<1>1. Schema = 1 .. k
  BY NewestIsNat DEF Schema, Version
<1>2. CASE k = 0
  BY <1>1, <1>2 DEF CurrentVersion
<1>3. CASE k # 0
  <2>1. k \in Schema /\ \A w \in Schema : w <= k
    BY <1>1, <1>3
  <2>2. CurrentVersion \in Schema /\ \A w \in Schema : w <= CurrentVersion
    BY <2>1 DEF CurrentVersion
  <2> QED  BY <1>1, <2>1, <2>2
<1> QED  BY <1>1, <1>2, <1>3

LEMMA BootInit == Init => BootInv
<1> SUFFICES ASSUME Init PROVE BootInv
  OBVIOUS
<1> USE DEF Init
<1>1. Types
  <2>1. Off \in Process
    BY DEF Off, Process, Zone
  <2>2. config \in Config
    BY DEF Config, Zone
  <2>3. IsFiniteSet(fires) /\ Cardinality(fires) = 0
    BY FS_EmptySet
  <2>4. applied \in [Version -> Nat] /\ proc \in [Server -> Process]
    BY <2>1
  <2>5. boots \in 0..MaxBoots /\ crashes \in 0..MaxCrashes /\ Cardinality(fires) <= MaxFires
    BY <2>3, BootAssumption
  <2> QED  BY <2>2, <2>3, <2>4, <2>5 DEF Types
<1>2. Schemas
  BY NewestIsNat DEF Schemas, Gapless, Sound, Off, Version
<1>3. Names
  BY DEF Names, NameIsWithdrawn, Holds, Off
<1>4. Tokens
  BY DEF Tokens, TokenIsKnown, Off
<1> QED  BY <1>1, <1>2, <1>3, <1>4 DEF BootInv

-----------------------------------------------------------------------------
LEMMA TypesStep == ASSUME BootInv, [Next]_vars PROVE Types'
<1> USE DEF BootInv, Types, tokens, mdns, bounds
<1>1. \A s \in Server, pc \in {"off", "migrating", "binding"} \cup Bound :
         Step(s, pc) => proc' \in [Server -> Process]
  BY DEF Step, Process
<1>2. \A s \in Server : End(s) => proc' \in [Server -> Process]
  BY DEF End, Process, Off, Zone
<1>3. ASSUME NEW s \in Server, NEW o \in Option, Start(s, o) PROVE Types'
  <2>1. CurrentVersion \in Nat
    BY VersionIsLast DEF Schemas, Gapless
  <2>2. [Off EXCEPT !.pc = "migrating", !.o = o, !.from = CurrentVersion] \in Process
    BY <2>1 DEF Off, Process, Zone
  <2> QED  BY <1>3, <2>2, BootAssumption DEF Start
<1>4. ASSUME NEW s \in Server, BootFails(s) \/ ListenFails(s) \/ Exit(s) PROVE Types'
  BY <1>2, <1>4 DEF BootFails, ListenFails, Exit
<1>5. ASSUME NEW s \in Server, Migrate(s) PROVE Types'
  <2>1. applied' \in [Version -> Nat]
    <3> DEFINE next == Next1(s)
    <3> HIDE DEF next
    <3>1. applied' = [applied EXCEPT ![next] = applied[next] + 1]
      BY <1>5 DEF Migrate, next
    <3>2. \A v \in Version : applied'[v] \in Nat
      BY <3>1
    <3> QED  BY <3>1, <3>2
  <2>2. proc' \in [Server -> Process]
    BY <1>5 DEF Migrate, Process
  <2> QED  BY <1>5, <2>1, <2>2 DEF Migrate
<1>6. ASSUME NEW s \in Server, Migrated(s) \/ Listen(s) PROVE Types'
  <2>1. proc' \in [Server -> Process]
    BY <1>1, <1>6 DEF Migrated, Listen, Bound
  <2> QED  BY <1>6, <2>1 DEF Migrated, Listen
<1>7. ASSUME NEW s \in Server, Advertise(s) PROVE Types'
  <2>1. proc' \in [Server -> Process]
    BY <1>1, <1>7 DEF Advertise, Bound, Process
  <2> QED  BY <1>7, <2>1 DEF Advertise
<1>8. ASSUME NEW s \in Server, SetName(s) PROVE Types'
  <2>1. proc[s].o \in Option
    BY <1>8 DEF SetName, Schemas, Sound
  <2>2. config' \in Config
    BY <1>8, <2>1 DEF SetName, Config
  <2>3. proc' \in [Server -> Process]
    BY <1>1, <1>8 DEF SetName, Bound
  <2> QED  BY <1>8, <2>2, <2>3 DEF SetName
<1>9. ASSUME NEW s \in Server, SetUrl(s) PROVE Types'
  <2>1. proc[s].o \in Option /\ proc[s].host \in BOOLEAN
    BY <1>9 DEF SetUrl, Schemas, Sound, Process
  <2>2. PublicUrl(s) \in {o.url : o \in Option} \cup {Url(o.port, up) : o \in Option, up \in BOOLEAN}
    BY <2>1 DEF PublicUrl
  <2>3. config' \in Config
    BY <1>9, <2>2 DEF SetUrl, Config
  <2>4. proc' \in [Server -> Process]
    BY <1>1, <1>9 DEF SetUrl, Bound
  <2> QED  BY <1>9, <2>3, <2>4 DEF SetUrl
<1>10. ASSUME NEW s \in Server, ReadZone(s) PROVE Types'
  <2>1. config.zone \in Zone
    BY DEF Config
  <2>2. proc' = [proc EXCEPT ![s].pc = "writezone", ![s].read = config.zone]
    BY <1>10 DEF ReadZone
  <2>3. proc' \in [Server -> Process]
    <3>1. [proc[s] EXCEPT !.pc = "writezone", !.read = config.zone] \in Process
      BY <2>1 DEF Process, Bound
    <3>2. proc' = [proc EXCEPT ![s] = [proc[s] EXCEPT !.pc = "writezone", !.read = config.zone]]
      BY <2>2
    <3> QED  BY <3>1, <3>2
  <2> QED  BY <1>10, <2>3 DEF ReadZone
<1>11. ASSUME NEW s \in Server, WriteZone(s) PROVE Types'
  <2>1. ZoneChoice(s) \in Zone
    BY <1>11 DEF WriteZone, ZoneChoice, Schemas, Sound, Process, Zone
  <2>2. config' \in Config
    BY <1>11, <2>1 DEF WriteZone, Config
  <2>3. proc' \in [Server -> Process]
    BY <1>1, <1>11 DEF WriteZone, Bound
  <2> QED  BY <1>11, <2>2, <2>3 DEF WriteZone
<1>12. ASSUME NEW s \in Server, EnsureAdmin(s) PROVE Types'
  <2>1. CASE config.admin # NULL /\ ~proc[s].o.rotate
    <3>1. proc' \in [Server -> Process]
      BY <1>1, <1>12, <2>1 DEF EnsureAdmin, Bound
    <3> QED  BY <1>12, <2>1, <3>1 DEF EnsureAdmin
  <2>2. CASE ~(config.admin # NULL /\ ~proc[s].o.rotate)
    <3> DEFINE fresh == CHOOSE t \in Token : t \notin Issued
    <3>1. fresh \in Token
      BY <1>12, <2>2 DEF EnsureAdmin
    <3> HIDE DEF fresh
    <3>2. config' = [config EXCEPT !.admin = fresh]
          /\ proc' = [proc EXCEPT ![s].pc = "show", ![s].token = fresh]
      BY <1>12, <2>2 DEF EnsureAdmin, fresh
    <3>3. config' \in Config
      BY <3>1, <3>2 DEF Config
    <3>4. [proc[s] EXCEPT !.pc = "show", !.token = fresh] \in Process
      BY <3>1 DEF Process, Bound
    <3>5. proc' = [proc EXCEPT ![s] = [proc[s] EXCEPT !.pc = "show", !.token = fresh]]
      BY <3>2
    <3>6. proc' \in [Server -> Process]
      BY <3>4, <3>5
    <3> QED  BY <1>12, <3>3, <3>6 DEF EnsureAdmin
  <2> QED  BY <2>1, <2>2
<1>13. ASSUME NEW s \in Server, ShowToken(s) PROVE Types'
  <2>1. proc[s].token \in Token
    BY <1>13 DEF ShowToken, Tokens, Process
  <2>2. proc' \in [Server -> Process]
    BY <1>13 DEF ShowToken, Process, Bound
  <2> QED  BY <1>13, <2>1, <2>2 DEF ShowToken
<1>14. ASSUME NEW s \in Server, Signal(s) PROVE Types'
  <2>1. proc' \in [Server -> Process]
    BY <1>14 DEF Signal, Process
  <2> QED  BY <1>14, <2>1 DEF Signal
<1>15. ASSUME NEW s \in Server, Crash(s) PROVE Types'
  <2>1. proc[s].token # NULL => proc[s].token \in Token
    BY DEF Process
  <2> QED  BY <1>2, <1>15, <2>1, BootAssumption DEF Crash
<1>16. ASSUME NEW s \in Server, NEW w, NEW t, Evaluate(s, w, t) PROVE Types'
  <2>1. PICK fire : fires' = fires \cup {fire} /\ Cardinality(fires) < MaxFires
    BY <1>16 DEF Evaluate
  <2>2. Cardinality(fires) \in Nat
    BY FS_CardinalityType
  <2>3. /\ IsFiniteSet(fires')
        /\ Cardinality(fires') = Cardinality(fires) \/ Cardinality(fires') = Cardinality(fires) + 1
    BY <2>1, FS_AddElement
  <2>4. Cardinality(fires') <= MaxFires
    BY <2>1, <2>2, <2>3, BootAssumption
  <2> QED  BY <1>16, <2>3, <2>4 DEF Evaluate
<1>17. CASE UNCHANGED vars
  BY <1>17 DEF vars
<1> QED
  BY <1>3, <1>4, <1>5, <1>6, <1>7, <1>8, <1>9, <1>10, <1>11, <1>12, <1>13, <1>14, <1>15, <1>16, <1>17
  DEF Next, Advance

-----------------------------------------------------------------------------
(* A step that commits no migration and starts no process keeps what is    *)
(* known of the database.                                                  *)
LEMMA SchemasKept ==
    ASSUME BootInv, proc' \in [Server -> Process], applied' = applied,
           NEW s \in Server, \A r \in Server \ {s} : proc'[r] = proc[r],
           \/ proc'[s].pc = "off"
           \/ /\ proc[s].pc # "off"
              /\ proc'[s].o = proc[s].o /\ proc'[s].from = proc[s].from
              /\ proc'[s].pc \in {"off", "migrating"} \/ proc[s].from = Build[s]
    PROVE  Schemas'
<1>1. Schema' = Schema
  BY DEF Schema
<1>2. Gapless'
  BY DEF BootInv, Schemas, Gapless
<1>3. ASSUME NEW r \in Server PROVE Sound(r)'
  <2>1. Sound(r)
    BY DEF BootInv, Schemas
  <2>2. CASE r # s
    BY <1>1, <2>1, <2>2 DEF Sound
  <2>3. CASE r = s
    BY <1>1, <2>1, <2>3 DEF Sound
  <2> QED  BY <2>2, <2>3
<1> QED  BY <1>2, <1>3 DEF Schemas

LEMMA SchemasStep == ASSUME BootInv, [Next]_vars PROVE Schemas'
<1>1. Types'
  BY TypesStep
<1>2. proc \in [Server -> Process] /\ proc' \in [Server -> Process]
  BY <1>1 DEF BootInv, Types
<1>3. \A r \in Server : Sound(r)
  BY DEF BootInv, Schemas
<1>4. ASSUME NEW s \in Server, NEW o \in Option, Start(s, o) PROVE Schemas'
  <2>1. PICK k \in 0 .. Build[Newest] : \A v \in Version : applied[v] = IF v <= k THEN 1 ELSE 0
    BY DEF BootInv, Schemas, Gapless
  <2>2. Schema = 1 .. k /\ CurrentVersion = k
    BY <2>1, VersionIsLast
  <2>3. /\ applied' = applied /\ \A r \in Server \ {s} : proc'[r] = proc[r]
        /\ proc'[s].pc = "migrating" /\ proc'[s].o = o /\ proc'[s].from = k
    BY <1>2, <1>4, <2>2 DEF Start, Off
  <2>4. Schema' = Schema
    BY <2>3 DEF Schema
  <2>5. \A r \in Server : Sound(r)'
    BY <1>3, <2>2, <2>3, <2>4 DEF Sound
  <2>6. Gapless'
    BY <2>1, <2>3 DEF Gapless
  <2> QED  BY <2>5, <2>6 DEF Schemas
<1>5. ASSUME NEW s \in Server, Migrate(s) PROVE Schemas'
  <2>1. PICK k \in 0 .. Build[Newest] : \A v \in Version : applied[v] = IF v <= k THEN 1 ELSE 0
    BY DEF BootInv, Schemas, Gapless
  <2>2. Schema = 1 .. k
    BY <2>1, VersionIsLast
  <2>3. proc[s].from \in Nat /\ 1 .. proc[s].from \subseteq 1 .. k /\ proc[s].from < Build[s]
        /\ proc[s].from + 1 \notin 1 .. k
    BY <1>2, <1>3, <1>5, <2>2 DEF Migrate, Sound, Process, Next1
  <2>4. k = proc[s].from /\ k + 1 \in 0 .. Build[Newest]
    BY <2>3, NewestIsServer, NewestIsNat
  <2>5. applied' = [applied EXCEPT ![k + 1] = applied[k + 1] + 1]
    BY <1>5, <2>4 DEF Migrate, Next1
  <2>6. applied[k + 1] = 0 /\ applied \in [Version -> Nat]
    BY <2>1, <2>4, NewestIsNat DEF Version, BootInv, Types
  <2>7. \A v \in Version : applied'[v] = IF v <= k + 1 THEN 1 ELSE 0
    BY <2>1, <2>5, <2>6, NewestIsNat DEF Version
  <2>8. Schema' = 1 .. k + 1
    BY <2>4, <2>7, NewestIsNat DEF Schema, Version
  <2>9. /\ \A r \in Server \ {s} : proc'[r] = proc[r]
        /\ proc'[s].pc = proc[s].pc /\ proc'[s].o = proc[s].o /\ proc'[s].from = k + 1
        /\ proc[s].pc = "migrating"
    BY <1>2, <1>5, <2>4 DEF Migrate
  <2>10. \A r \in Server : Sound(r)'
    BY <1>3, <2>2, <2>8, <2>9 DEF Sound
  <2>11. Gapless'
    BY <2>4, <2>7 DEF Gapless
  <2> QED  BY <2>10, <2>11 DEF Schemas
<1>6. ASSUME NEW s \in Server, Migrated(s) PROVE Schemas'
  <2>1. /\ applied' = applied /\ \A r \in Server \ {s} : proc'[r] = proc[r]
        /\ proc[s].pc # "off" /\ proc'[s].o = proc[s].o /\ proc'[s].from = proc[s].from
        /\ proc[s].from = Build[s]
    BY <1>2, <1>6 DEF Migrated, Step
  <2> QED  BY <1>2, <2>1, SchemasKept
<1>7. ASSUME NEW s \in Server, BootFails(s) \/ ListenFails(s) \/ Exit(s) \/ Crash(s) PROVE Schemas'
  <2>1. /\ applied' = applied /\ \A r \in Server \ {s} : proc'[r] = proc[r]
        /\ proc'[s].pc = "off"
    BY <1>2, <1>7 DEF BootFails, ListenFails, Exit, Crash, End, Off
  <2> QED  BY <1>2, <2>1, SchemasKept
<1>8. ASSUME NEW s \in Server,
             \/ Listen(s) \/ Advertise(s) \/ SetName(s) \/ SetUrl(s) \/ ReadZone(s) \/ WriteZone(s)
             \/ EnsureAdmin(s) \/ ShowToken(s) \/ Signal(s)
      PROVE  Schemas'
  <2>1. /\ applied' = applied /\ proc[s].pc \notin {"off", "migrating"}
    BY <1>8 DEF Listen, Advertise, SetName, SetUrl, ReadZone, WriteZone, EnsureAdmin, ShowToken, Signal,
                Awaiting
  <2> DEFINE Kept == /\ \A r \in Server \ {s} : proc'[r] = proc[r]
                     /\ proc'[s].o = proc[s].o /\ proc'[s].from = proc[s].from
  <2>2. \A pc : Step(s, pc) => Kept
    BY <1>2 DEF Step, Process
  <2>3. Kept
    <3>1. CASE \/ Listen(s) \/ SetName(s) \/ SetUrl(s) \/ WriteZone(s)
      BY <2>2, <3>1 DEF Listen, SetName, SetUrl, WriteZone
    <3>2. CASE Advertise(s)
      BY <1>2, <2>2, <3>2 DEF Advertise, Process
    <3>3. CASE ReadZone(s) \/ ShowToken(s) \/ Signal(s)
      BY <1>2, <3>3 DEF ReadZone, ShowToken, Signal, Process
    <3>4. CASE EnsureAdmin(s)
      <4>1. CASE Step(s, "serving")
        BY <2>2, <4>1
      <4>2. CASE ~Step(s, "serving")
        <5>1. PICK t : proc' = [proc EXCEPT ![s].pc = "show", ![s].token = t]
          BY <3>4, <4>2 DEF EnsureAdmin
        <5> QED  BY <1>2, <5>1 DEF Process
      <4> QED  BY <4>1, <4>2
    <3> QED  BY <1>8, <3>1, <3>2, <3>3, <3>4
  <2>4. proc[s].from = Build[s]
    BY <1>3, <2>1 DEF Sound
  <2> QED  BY <1>2, <2>1, <2>3, <2>4, SchemasKept
<1>9. CASE UNCHANGED <<applied, proc>>
  BY <1>9 DEF BootInv, Schemas, Gapless, Sound, Schema
<1> QED
  <2>1. \A s \in Server : \A w, t : Evaluate(s, w, t) => UNCHANGED <<applied, proc>>
    BY DEF Evaluate
  <2> QED  BY <1>4, <1>5, <1>6, <1>7, <1>8, <1>9, <2>1 DEF Next, Advance, vars

-----------------------------------------------------------------------------
(* What a step does to names and orphans is about its own server only.     *)
LEMMA NamesKept ==
    ASSUME BootInv, NEW s \in Server, \A r \in Server \ {s} : proc'[r] = proc[r],
           names' \subseteq Server, orphans' \subseteq names',
           \A r \in Server \ {s} : (r \in names' <=> r \in names) /\ (r \in orphans' <=> r \in orphans),
           Holds(s)',
           s \in names' => (proc'[s].host /\ ~proc'[s].closing) \/ s \in orphans'
    PROVE  Names'
<1>1. \A r \in names : r \in Server /\ ((proc[r].host /\ ~proc[r].closing) \/ r \in orphans)
  BY DEF BootInv, Names, NameIsWithdrawn
<1>2. ASSUME NEW r \in Server PROVE Holds(r)'
  <2>1. CASE r = s
    BY <2>1
  <2>2. CASE r # s
    BY <2>2 DEF Holds, BootInv, Names
  <2> QED  BY <2>1, <2>2
<1>3. NameIsWithdrawn'
  BY <1>1 DEF NameIsWithdrawn
<1> QED  BY <1>2, <1>3 DEF Names

LEMMA NamesStep == ASSUME BootInv, [Next]_vars PROVE Names'
<1>1. proc \in [Server -> Process] /\ names \subseteq Server /\ orphans \subseteq names
  BY DEF BootInv, Types, Names
<1>2. \A r \in Server : Holds(r) /\ (r \in names => (proc[r].host /\ ~proc[r].closing) \/ r \in orphans)
  BY DEF BootInv, Names, NameIsWithdrawn
<1>3. ASSUME NEW s \in Server, NEW o \in Option, Start(s, o) PROVE Names'
  <2>1. proc[s].pc = "off" /\ UNCHANGED <<names, orphans>>
        /\ \A r \in Server \ {s} : proc'[r] = proc[r]
    BY <1>1, <1>3 DEF Start, mdns
  <2>2. proc'[s].host = FALSE /\ ~proc[s].host
    BY <1>1, <1>2, <1>3, <2>1 DEF Start, Off, Holds, Bound
  <2> QED  BY <1>1, <1>2, <2>1, <2>2, NamesKept DEF Holds
<1>4. ASSUME NEW s \in Server, BootFails(s) \/ ListenFails(s) PROVE Names'
  <2>1. proc[s].pc \notin Bound /\ UNCHANGED <<names, orphans>>
        /\ \A r \in Server \ {s} : proc'[r] = proc[r]
    BY <1>1, <1>4 DEF BootFails, ListenFails, End, Bound, mdns
  <2>2. proc'[s].host = FALSE /\ ~proc[s].host
    BY <1>1, <1>2, <1>4, <2>1 DEF BootFails, ListenFails, End, Off, Holds
  <2> QED  BY <1>1, <1>2, <2>1, <2>2, NamesKept DEF Holds
<1>5. ASSUME NEW s \in Server, Exit(s) PROVE Names'
  <2>1. proc[s].closing /\ UNCHANGED <<names, orphans>> /\ proc'[s].host = FALSE
        /\ \A r \in Server \ {s} : proc'[r] = proc[r]
    BY <1>1, <1>5 DEF Exit, End, Off, mdns
  <2> QED  BY <1>1, <1>2, <2>1, NamesKept DEF Holds
<1>6. ASSUME NEW s \in Server, Crash(s) PROVE Names'
  <2>1. names' = names /\ orphans' = orphans \cup ({s} \cap names) /\ proc'[s].host = FALSE
        /\ \A r \in Server \ {s} : proc'[r] = proc[r]
    BY <1>1, <1>6 DEF Crash, End, Off
  <2>2. s \in names' => s \in orphans'
    BY <2>1
  <2>3. orphans' \subseteq names' /\ names' \subseteq Server
    BY <1>1, <2>1
  <2>4. \A r \in Server \ {s} : (r \in names' <=> r \in names) /\ (r \in orphans' <=> r \in orphans)
    BY <2>1
  <2>5. Holds(s)'
    BY <2>1 DEF Holds
  <2> QED  BY <2>1, <2>2, <2>3, <2>4, <2>5, NamesKept
<1>7. ASSUME NEW s \in Server, Signal(s) PROVE Names'
  <2>1. /\ names' = IF proc[s].host THEN names \ {s} ELSE names
        /\ orphans' = orphans /\ ~proc[s].closing
        /\ proc'[s].host = proc[s].host /\ proc'[s].closing = TRUE /\ proc'[s].pc = proc[s].pc
        /\ \A r \in Server \ {s} : proc'[r] = proc[r]
    BY <1>1, <1>7 DEF Signal, Process
  <2>2. proc[s].host => s \notin orphans
    BY <1>2, <2>1 DEF Holds
  <2>3. Holds(s)'
    BY <1>2, <2>1 DEF Holds
  <2>4. s \in names' => s \in orphans'
    BY <1>2, <2>1
  <2>5. names' \subseteq Server /\ orphans' \subseteq names'
    BY <1>1, <2>1, <2>2
  <2>6. \A r \in Server \ {s} : (r \in names' <=> r \in names) /\ (r \in orphans' <=> r \in orphans)
    BY <2>1
  <2> QED  BY <2>1, <2>3, <2>4, <2>5, <2>6, NamesKept
<1>8. ASSUME NEW s \in Server, Advertise(s) PROVE Names'
  <2>1. proc[s].pc = "advertising" /\ ~proc[s].host /\ proc[s].closing \in BOOLEAN
    BY <1>1, <1>2, <1>8 DEF Advertise, Holds, Process
  <2>2. CASE Step(s, "name") /\ UNCHANGED mdns
    <3>1. UNCHANGED <<names, orphans>> /\ \A r \in Server \ {s} : proc'[r] = proc[r]
      BY <1>1, <2>2 DEF Step, mdns
    <3>2. ~proc'[s].host
      BY <1>1, <2>1, <2>2 DEF Step, Process
    <3> QED  BY <1>1, <1>2, <2>1, <3>1, <3>2, NamesKept DEF Holds
  <2>3. CASE ~(Step(s, "name") /\ UNCHANGED mdns)
    <3>1. /\ names' = names \cup {s}
          /\ orphans' = IF proc[s].closing THEN orphans \cup {s} ELSE orphans \ {s}
          /\ proc' = [proc EXCEPT ![s].pc = "name", ![s].host = TRUE]
      BY <1>8, <2>3 DEF Advertise
    <3>2. proc'[s].host = TRUE /\ proc'[s].closing = proc[s].closing /\ proc'[s].pc = "name"
          /\ \A r \in Server \ {s} : proc'[r] = proc[r]
      BY <1>1, <3>1 DEF Process
    <3>3. Holds(s)' /\ (~proc'[s].closing \/ s \in orphans')
      BY <2>1, <3>1, <3>2 DEF Holds, Bound
    <3>4. names' \subseteq Server /\ orphans' \subseteq names'
      BY <1>1, <3>1
    <3>5. \A r \in Server \ {s} : (r \in names' <=> r \in names) /\ (r \in orphans' <=> r \in orphans)
      BY <3>1
    <3> QED  BY <3>2, <3>3, <3>4, <3>5, NamesKept
  <2> QED  BY <2>2, <2>3
<1>9. ASSUME NEW s \in Server,
             \/ Migrate(s) \/ Migrated(s) \/ Listen(s) \/ SetName(s) \/ SetUrl(s)
             \/ ReadZone(s) \/ WriteZone(s) \/ EnsureAdmin(s) \/ ShowToken(s)
      PROVE  Names'
  <2> DEFINE Kept == /\ \A r \in Server \ {s} : proc'[r] = proc[r]
                     /\ proc'[s].host = proc[s].host /\ proc'[s].closing = proc[s].closing
                     /\ proc[s].host => proc'[s].pc \in Bound \ {"advertising"}
  <2>1. UNCHANGED <<names, orphans>>
    BY <1>9 DEF Migrate, Migrated, Listen, SetName, SetUrl, ReadZone, WriteZone, EnsureAdmin, ShowToken, mdns
  <2>2. Holds(s)
    BY <1>2
  <2>3. ASSUME Migrate(s) PROVE Kept
    BY <1>1, <2>2, <2>3 DEF Migrate, Process, Holds, Bound
  <2>4. ASSUME Migrated(s) \/ Listen(s) PROVE Kept
    BY <1>1, <2>2, <2>4 DEF Migrated, Listen, Step, Process, Holds, Bound
  <2>5. ASSUME SetName(s) \/ SetUrl(s) \/ WriteZone(s) PROVE Kept
    BY <1>1, <2>2, <2>5 DEF SetName, SetUrl, WriteZone, Step, Process, Holds, Bound
  <2>6. ASSUME ReadZone(s) \/ ShowToken(s) PROVE Kept
    BY <1>1, <2>2, <2>6 DEF ReadZone, ShowToken, Process, Holds, Bound
  <2>7. ASSUME EnsureAdmin(s) PROVE Kept
    <3>1. CASE Step(s, "serving")
      BY <1>1, <2>2, <3>1 DEF Step, Process, Holds, Bound
    <3>2. CASE ~Step(s, "serving")
      <4>1. PICK t : proc' = [proc EXCEPT ![s].pc = "show", ![s].token = t]
        BY <2>7, <3>2 DEF EnsureAdmin
      <4> QED  BY <1>1, <2>2, <4>1 DEF Process, Holds, Bound
    <3> QED  BY <3>1, <3>2
  <2>8. Kept => Holds(s)'
    BY <2>1, <2>2 DEF Holds
  <2>9. Kept
    BY <1>9, <2>3, <2>4, <2>5, <2>6, <2>7
  <2> QED  BY <1>1, <1>2, <2>1, <2>8, <2>9, NamesKept
<1>10. CASE UNCHANGED <<names, orphans, proc>>
  BY <1>10 DEF BootInv, Names, NameIsWithdrawn, Holds
<1> QED
  <2>1. \A s \in Server : \A w, t : Evaluate(s, w, t) => UNCHANGED <<names, orphans, proc>>
    BY DEF Evaluate, mdns
  <2> QED
    BY <1>3, <1>4, <1>5, <1>6, <1>7, <1>8, <1>9, <1>10, <2>1 DEF Next, Advance, vars, mdns

-----------------------------------------------------------------------------
(* What a step does to tokens: those recorded stay so, and its server's is *)
(* recorded before the process forgets it.                                 *)
LEMMA TokensKept ==
    ASSUME BootInv, NEW s \in Server, \A r \in Server \ {s} : proc'[r] = proc[r],
           proc'[s].token # NULL <=> proc'[s].pc = "show",
           shown \cup lost \subseteq shown' \cup lost',
           \/ proc'[s].token = config'.admin
           \/ /\ config'.admin = config.admin
              /\ proc[s].token \in {NULL, proc'[s].token} \cup shown' \cup lost'
    PROVE  Tokens'
<1>1. \A r \in Server : proc'[r].token # NULL <=> proc'[r].pc = "show"
  BY DEF BootInv, Tokens
<1>2. ASSUME config'.admin # NULL
      PROVE  config'.admin \in shown' \cup lost' \/ \E r \in Server : proc'[r].token = config'.admin
  <2>1. CASE proc'[s].token = config'.admin
    BY <2>1
  <2>2. CASE proc'[s].token # config'.admin
    <3>1. config'.admin = config.admin
      BY <2>2
    <3>2. CASE config.admin \in shown \cup lost
      BY <3>1, <3>2
    <3>3. CASE \E r \in Server : proc[r].token = config.admin
      <4>1. PICK r \in Server : proc[r].token = config.admin
        BY <3>3
      <4>2. CASE r = s
        BY <1>2, <2>2, <3>1, <4>1, <4>2
      <4>3. CASE r # s
        BY <3>1, <4>1, <4>3
      <4> QED  BY <4>2, <4>3
    <3> QED  BY <1>2, <3>1, <3>2, <3>3 DEF BootInv, Tokens, TokenIsKnown
  <2> QED  BY <2>1, <2>2
<1> QED  BY <1>1, <1>2 DEF Tokens, TokenIsKnown

LEMMA TokensStep == ASSUME BootInv, [Next]_vars PROVE Tokens'
<1>1. proc \in [Server -> Process] /\ config \in Config
  BY DEF BootInv, Types
<1>2. \A r \in Server : proc[r].token # NULL <=> proc[r].pc = "show"
  BY DEF BootInv, Tokens
<1>3. ASSUME NEW s \in Server,
             \/ \E o \in Option : Start(s, o)
             \/ BootFails(s) \/ ListenFails(s) \/ Exit(s)
      PROVE  Tokens'
  <2>1. /\ UNCHANGED <<shown, lost, config>> /\ proc[s].pc # "show"
        /\ \A r \in Server \ {s} : proc'[r] = proc[r]
    BY <1>1, <1>3 DEF Start, BootFails, ListenFails, Exit, End, Awaiting, tokens
  <2>2. proc'[s].token = NULL /\ proc'[s].pc # "show"
    <3>1. CASE \E o \in Option : Start(s, o)
      <4>1. PICK o \in Option : Start(s, o)
        BY <3>1
      <4>2. proc'[s] = [Off EXCEPT !.pc = "migrating", !.o = o, !.from = CurrentVersion]
        BY <1>1, <4>1 DEF Start
      <4> QED  BY <4>2 DEF Off
    <3>2. CASE BootFails(s) \/ ListenFails(s) \/ Exit(s)
      BY <1>1, <3>2 DEF BootFails, ListenFails, Exit, End, Off
    <3> QED  BY <1>3, <3>1, <3>2
  <2> QED  BY <1>2, <2>1, <2>2, TokensKept
<1>4. ASSUME NEW s \in Server, Crash(s) PROVE Tokens'
  <2>1. /\ config' = config /\ shown' = shown
        /\ lost' = IF proc[s].token = NULL THEN lost ELSE lost \cup {proc[s].token}
        /\ \A r \in Server \ {s} : proc'[r] = proc[r]
        /\ proc'[s].token = NULL /\ proc'[s].pc # "show"
    BY <1>1, <1>4 DEF Crash, End, Off
  <2> QED  BY <2>1, TokensKept
<1>5. ASSUME NEW s \in Server,
             \/ Migrate(s) \/ Migrated(s) \/ Listen(s) \/ Advertise(s) \/ SetName(s) \/ SetUrl(s)
             \/ ReadZone(s) \/ WriteZone(s) \/ Signal(s)
      PROVE  Tokens'
  <2> DEFINE Kept == /\ \A r \in Server \ {s} : proc'[r] = proc[r]
                     /\ proc'[s].token = proc[s].token
                     /\ proc'[s].pc = "show" <=> proc[s].pc = "show"
  <2>1. UNCHANGED <<shown, lost>>
    BY <1>5 DEF Migrate, Migrated, Listen, Advertise, SetName, SetUrl, ReadZone, WriteZone, Signal, tokens
  <2>2. config'.admin = config.admin
    <3>1. CASE UNCHANGED config
      BY <3>1
    <3>2. CASE SetName(s) \/ SetUrl(s) \/ WriteZone(s)
      BY <1>1, <3>2 DEF SetName, SetUrl, WriteZone, Config
    <3> QED
      BY <1>5, <3>1, <3>2 DEF Migrate, Migrated, Listen, Advertise, ReadZone, Signal
  <2>3. ASSUME Migrate(s) \/ ReadZone(s) \/ Signal(s) PROVE Kept
    BY <1>1, <2>3 DEF Migrate, ReadZone, Signal, Process
  <2>4. ASSUME Migrated(s) \/ Listen(s) \/ SetName(s) \/ SetUrl(s) \/ WriteZone(s) PROVE Kept
    BY <1>1, <2>4 DEF Migrated, Listen, SetName, SetUrl, WriteZone, Step, Process
  <2>5. ASSUME Advertise(s) PROVE Kept
    BY <1>1, <2>5 DEF Advertise, Step, Process
  <2>6. Kept
    BY <1>5, <2>3, <2>4, <2>5
  <2> QED  BY <1>2, <2>1, <2>2, <2>6, TokensKept
<1>6. ASSUME NEW s \in Server, ShowToken(s) PROVE Tokens'
  <2>1. /\ config' = config /\ lost' = lost /\ shown' = shown \cup {proc[s].token}
        /\ \A r \in Server \ {s} : proc'[r] = proc[r]
        /\ proc'[s].token = NULL /\ proc'[s].pc = "serving"
    BY <1>1, <1>6 DEF ShowToken, Process
  <2> QED  BY <2>1, TokensKept
<1>7. ASSUME NEW s \in Server, EnsureAdmin(s) PROVE Tokens'
  <2>1. UNCHANGED <<shown, lost>> /\ proc[s].pc = "admin"
    BY <1>7 DEF EnsureAdmin, tokens
  <2>2. CASE Step(s, "serving") /\ UNCHANGED config
    <3>1. /\ \A r \in Server \ {s} : proc'[r] = proc[r]
          /\ proc'[s].token = proc[s].token /\ proc'[s].pc = "serving"
      BY <1>1, <2>2 DEF Step, Process
    <3> QED  BY <1>2, <2>1, <2>2, <3>1, TokensKept
  <2>3. CASE ~(Step(s, "serving") /\ UNCHANGED config)
    <3> DEFINE fresh == CHOOSE t \in Token : t \notin Issued
    <3>1. fresh \in Token
      BY <1>7, <2>3 DEF EnsureAdmin
    <3>2. config' = [config EXCEPT !.admin = fresh]
          /\ proc' = [proc EXCEPT ![s].pc = "show", ![s].token = fresh]
      BY <1>7, <2>3 DEF EnsureAdmin
    <3> HIDE DEF fresh
    <3>3. fresh # NULL
      BY <3>1, BootAssumption
    <3>4. config'.admin = fresh
      BY <1>1, <3>2 DEF Config
    <3>5. /\ \A r \in Server \ {s} : proc'[r] = proc[r]
          /\ proc'[s].token = fresh /\ proc'[s].pc = "show"
      BY <1>1, <3>2 DEF Process
    <3> QED  BY <2>1, <3>3, <3>4, <3>5, TokensKept
  <2> QED  BY <2>2, <2>3
<1>8. CASE UNCHANGED <<shown, lost, config, proc>>
  BY <1>8 DEF BootInv, Tokens, TokenIsKnown
<1> QED
  <2>1. \A s \in Server : \A w, t : Evaluate(s, w, t) => UNCHANGED <<shown, lost, config, proc>>
    BY DEF Evaluate, tokens
  <2> QED  BY <1>3, <1>4, <1>5, <1>6, <1>7, <1>8, <2>1 DEF Next, Advance, vars, tokens

-----------------------------------------------------------------------------
LEMMA BootNext == BootInv /\ [Next]_vars => BootInv'
BY TypesStep, SchemasStep, NamesStep, TokensStep DEF BootInv

LEMMA BootInvariance == Spec => []BootInv
BY BootInit, BootNext, PTL DEF Spec

(* Every variable keeps its type, and a token is held in clear only until  *)
(* it is printed.                                                          *)
THEOREM TypeCorrect == Spec => []TypeOK
<1>1. BootInv => TypeOK
  BY DEF BootInv, Types, Names, Tokens, TypeOK
<1> QED  BY <1>1, BootInvariance, PTL

(* However many processes of whatever builds boot at once or die half-way, *)
(* each migration is committed once and none is passed over, and none of   *)
(* them opens its socket on a database older than its build.               *)
THEOREM SchemaSound == Spec => []SchemaIsSound
<1>1. BootInv => SchemaIsSound
  <2> SUFFICES ASSUME BootInv PROVE SchemaIsSound
    OBVIOUS
  <2>1. \A v \in Version : applied[v] <= 1 /\ (applied[v] = 1 => \A w \in 1..v : applied[w] = 1)
    <3>1. PICK k \in 0 .. Build[Newest] : \A v \in Version : applied[v] = IF v <= k THEN 1 ELSE 0
      BY DEF BootInv, Schemas, Gapless
    <3> QED  BY <3>1, NewestIsNat DEF Version
  <2>2. \A s \in Server : proc[s].pc \notin {"off", "migrating"} => 1..Build[s] \subseteq Schema
    BY DEF BootInv, Schemas, Sound
  <2> QED  BY <2>1, <2>2 DEF SchemaIsSound
<1> QED  BY <1>1, BootInvariance, PTL

(* A name that is out is held by its server or is a known orphan.          *)
THEOREM NamesWithdrawn == Spec => []NameIsWithdrawn
<1>1. BootInv => NameIsWithdrawn
  BY DEF BootInv, Names
<1> QED  BY <1>1, BootInvariance, PTL

(* The admin token in force is known to somebody, or died in a crash.      *)
THEOREM TokenKnown == Spec => []TokenIsKnown
<1>1. BootInv => TokenIsKnown
  BY DEF BootInv, Tokens
<1> QED  BY <1>1, BootInvariance, PTL

-----------------------------------------------------------------------------
(* What each step does to the settings: all but three leave them alone.    *)
LEMMA SettingsStep ==
    ASSUME [Next]_vars, config' # config
    PROVE  \E s \in Server : SetName(s) \/ SetUrl(s) \/ WriteZone(s) \/ EnsureAdmin(s)
<1>1. \A s \in Server, o \in Option : ~Start(s, o)
  BY DEF Start
<1>2. \A s \in Server, window \in {"day", "week"}, t \in Horizon : ~Evaluate(s, window, t)
  BY DEF Evaluate
<1>3. \A s \in Server :
         /\ ~BootFails(s) /\ ~Migrate(s) /\ ~Migrated(s) /\ ~Listen(s) /\ ~ListenFails(s)
         /\ ~Advertise(s) /\ ~ReadZone(s) /\ ~ShowToken(s) /\ ~Signal(s) /\ ~Exit(s) /\ ~Crash(s)
  BY DEF BootFails, Migrate, Migrated, Listen, ListenFails, Advertise, ReadZone, ShowToken, Signal, Exit, Crash
<1>4. Next
  BY DEF vars
<1> QED  BY <1>1, <1>2, <1>3, <1>4 DEF Next, Advance

(* The admin token in force is replaced only by a boot asked to rotate it. *)
THEOREM AdminKept == Spec => AdminStands
<1> DEFINE A == config.admin # NULL /\ config'.admin # config.admin =>
                    \E s \in Server : proc[s].pc = "admin" /\ proc[s].o.rotate
<1>1. ASSUME BootInv, [Next]_vars PROVE [A]_vars
  <2> SUFFICES ASSUME config.admin # NULL, config'.admin # config.admin
               PROVE  \E s \in Server : proc[s].pc = "admin" /\ proc[s].o.rotate
    OBVIOUS
  <2>1. config \in Config
    BY <1>1 DEF BootInv, Types
  <2>2. PICK s \in Server : SetName(s) \/ SetUrl(s) \/ WriteZone(s) \/ EnsureAdmin(s)
    BY <1>1, SettingsStep
  <2>3. ~(SetName(s) \/ SetUrl(s) \/ WriteZone(s))
    BY <2>1 DEF SetName, SetUrl, WriteZone, Config
  <2>4. EnsureAdmin(s)
    BY <2>2, <2>3
  <2>5. proc[s].pc = "admin" /\ proc[s].o.rotate
    BY <2>4 DEF EnsureAdmin
  <2> QED  BY <2>5
<1> QED  BY <1>1, BootInvariance, PTL DEF Spec, AdminStands

(* A stored name or zone is replaced only by one a boot was asked for; the *)
(* zone by overlapping boots excepted.                                     *)
THEOREM ChoicesStand == Spec => ChoiceStands
<1> DEFINE A == \A s \in Server :
         /\ config.name # NULL /\ config'.name # config.name /\ proc'[s] # proc[s]
              => proc[s].o.name = config'.name
         /\ config.zone # NULL /\ config'.zone # config.zone /\ ~raced' /\ proc'[s] # proc[s]
              => proc[s].o.zone = config'.zone
<1>1. ASSUME BootInv, [Next]_vars PROVE [A]_vars
  <2> SUFFICES ASSUME NEW s \in Server, proc'[s] # proc[s], config' # config
               PROVE  /\ config.name # NULL /\ config'.name # config.name
                            => proc[s].o.name = config'.name
                      /\ config.zone # NULL /\ config'.zone # config.zone /\ ~raced'
                            => proc[s].o.zone = config'.zone
    OBVIOUS
  <2>1. config \in Config /\ proc \in [Server -> Process] /\ raced \in BOOLEAN
    BY <1>1 DEF BootInv, Types
  <2>2. PICK r \in Server : SetName(r) \/ SetUrl(r) \/ WriteZone(r) \/ EnsureAdmin(r)
    BY <1>1, SettingsStep
  <2>3. r = s
    <3>1. \A pc : Step(r, pc) => \A q \in Server \ {r} : proc'[q] = proc[q]
      BY <2>1 DEF Step
    <3>2. CASE SetName(r) \/ SetUrl(r) \/ WriteZone(r)
      BY <3>1, <3>2 DEF SetName, SetUrl, WriteZone
    <3>3. CASE EnsureAdmin(r)
      <4>1. PICK t : proc' = [proc EXCEPT ![r].pc = "show", ![r].token = t]
        BY <3>3 DEF EnsureAdmin
      <4> QED  BY <2>1, <4>1
    <3> QED  BY <2>2, <3>2, <3>3
  <2>4. CASE SetName(s)
    BY <2>1, <2>4 DEF SetName, Config
  <2>5. CASE SetUrl(s)
    BY <2>1, <2>5 DEF SetUrl, Config
  <2>6. CASE WriteZone(s)
    <3>1. config' = [config EXCEPT !.zone = ZoneChoice(s)]
          /\ raced' = (raced \/ config.zone # proc[s].read)
      BY <2>6 DEF WriteZone
    <3>2. config'.name = config.name /\ config'.zone = ZoneChoice(s)
      BY <2>1, <3>1 DEF Config
    <3>3. ~raced' => config.zone = proc[s].read
      BY <3>1
    <3>4. config.zone # NULL /\ config.zone = proc[s].read /\ ZoneChoice(s) # config.zone
             => proc[s].o.zone = ZoneChoice(s)
      BY DEF ZoneChoice
    <3> QED  BY <3>2, <3>3, <3>4
  <2>7. CASE EnsureAdmin(s)
    BY <2>1, <2>7 DEF EnsureAdmin, Config
  <2> QED  BY <2>2, <2>3, <2>4, <2>5, <2>6, <2>7
<1> QED  BY <1>1, BootInvariance, PTL DEF Spec, ChoiceStands

-----------------------------------------------------------------------------
Windows == {"day", "week"}
(* What an evaluation may fire.                                            *)
FireOf(window, t, z) ==
    [rule |-> window, zone |-> z, at |-> t, start |-> WindowBoundsAt(window, t, z).start,
     end |-> WindowBoundsAt(window, t, z).end]
Fire == {FireOf(window, t, z) : window \in Windows, t \in Horizon, z \in Zone \ {NULL}}

(* The days of a window, for every batch and every zone there may be: both *)
(* are steady, the batch is dated between them, and they are a whole       *)
(* number of windows from the first day there is.                          *)
LEMMA WindowDays ==
    ASSUME NEW window \in Windows, NEW t \in Horizon, NEW z \in Zone \ {NULL}
    PROVE  LET today == CivilDateAt(t, z)
               first == FirstDay(window, t, z)
               next  == NextDay(window, t, z)
           IN  /\ today \in Int /\ first \in Int /\ next \in Int /\ t \in Int
               /\ first <= today /\ today < next
               /\ Steady(first, z) /\ Steady(next, z) /\ Offset(z, t) \in (-Day) .. Day
               /\ next = first + DaysOf(window) /\ first % DaysOf(window) = 0
               /\ DaysOf(window) \in Nat \ {0}
<1>1. /\ t \in Int /\ Offset(z, t) \in (-Day) .. Day
      /\ Steady(FirstDay(window, t, z), z) /\ Steady(NextDay(window, t, z), z)
  BY BootZones DEF Windows
<1> QED  BY <1>1, DaysOfAWindow

(* A fire lies in its own window.                                          *)
LEMMA FireIsInWindow ==
    ASSUME NEW f \in Fire
    PROVE  (f.start <= f.at /\ f.at < f.end) \/ MidnightRepeated(f.at, f.zone)
<1>1. PICK window \in Windows, t \in Horizon, z \in Zone \ {NULL} : f = FireOf(window, t, z)
  BY DEF Fire
<1> DEFINE w == WindowBoundsAt(window, t, z)
<1>2. f.at = t /\ f.zone = z /\ f.start = w.start /\ f.end = w.end
  BY <1>1 DEF FireOf
<1>3. (w.start <= t /\ t < w.end) \/ MidnightRepeated(t, z)
  BY WindowDays, InOwnWindow, BootZones
<1> QED  BY <1>2, <1>3

(* Windows of one rule and zone are one, or do not overlap.                *)
LEMMA WindowsApart ==
    ASSUME NEW f \in Fire, NEW g \in Fire, f.rule = g.rule, f.zone = g.zone, f.start # g.start
    PROVE  f.end <= g.start \/ g.end <= f.start
<1>1. PICK window \in Windows, t \in Horizon, z \in Zone \ {NULL} : f = FireOf(window, t, z)
  BY DEF Fire
<1>2. PICK u \in Horizon : g = FireOf(window, u, z)
  BY <1>1 DEF Fire, FireOf
<1> DEFINE n == DaysOf(window)
           d == FirstDay(window, t, z)
           e == FirstDay(window, u, z)
<1>3. /\ d \in Int /\ d + n \in Int /\ Steady(d, z) /\ Steady(d + n, z) /\ d % n = 0 /\ n \in Nat \ {0}
      /\ e \in Int /\ e + n \in Int /\ Steady(e, z) /\ Steady(e + n, z) /\ e % n = 0
  BY WindowDays
<1>4. /\ f.start = StartOfCivilDay(d, z) /\ f.end = StartOfCivilDay(d + n, z)
      /\ g.start = StartOfCivilDay(e, z) /\ g.end = StartOfCivilDay(e + n, z)
  <2>1. NextDay(window, t, z) = d + n /\ NextDay(window, u, z) = e + n
    BY DEF NextDay
  <2> QED  BY <1>1, <1>2, <2>1 DEF FireOf, WindowBoundsAt
<1> HIDE DEF n, d, e
<1>5. d # e /\ 2 * Gap <= Day
  BY <1>4, BootZones
<1>6. \A x, y \in Int : x % n = 0 /\ y % n = 0 /\ x < y => x + n <= y
  <2>1. SUFFICES ASSUME NEW x \in Int, NEW y \in Int, x % n = 0, y % n = 0, x < y PROVE x + n <= y
    OBVIOUS
  <2> DEFINE p == x \div n
             q == y \div n
  <2>2. p \in Int /\ q \in Int /\ x = n * p /\ y = n * q /\ n \in Nat /\ n > 0
    BY <1>3, <2>1
  <2> HIDE DEF p, q
  <2>3. ~(q <= p)
    <3>1. ASSUME q <= p PROVE FALSE
      <4>1. n * (p - q) >= 0 /\ n * (p - q) = n * p - n * q
        BY <2>2, <3>1
      <4> QED  BY <2>1, <2>2, <4>1
    <3> QED  BY <3>1
  <2>4. n * (q - p - 1) >= 0
    BY <2>2, <2>3
  <2>5. n * (q - p - 1) = n * q - n * p - n
    BY <2>2
  <2> QED  BY <2>2, <2>4, <2>5
<1>7. CASE d < e
  <2>1. d + n <= e
    BY <1>3, <1>6, <1>7
  <2> QED  BY <1>3, <1>4, <1>5, <2>1, StartOfDay, StartsInOrder
<1>8. CASE e < d
  <2>1. e + n <= d
    BY <1>3, <1>6, <1>8
  <2> QED  BY <1>3, <1>4, <1>5, <2>1, StartOfDay, StartsInOrder
<1> QED  BY <1>3, <1>5, <1>7, <1>8

-----------------------------------------------------------------------------
(* Where a zone is decided on there is one in server_config for good: a    *)
(* token is printed, and so a rule made, by a process past that point, and *)
(* hence every fire is keyed by a zone that was in force by decision, one  *)
(* fire for a rule and the start of a window.                              *)
Decided == {"admin", "show", "serving"}
Keyed ==
    /\ shown # {} \/ (\E s \in Server : proc[s].pc \in Decided) => config.zone # NULL
    /\ fires # {} => shown # {}
    /\ fires \subseteq Fire
    /\ \A f, g \in fires : f.rule = g.rule /\ f.start = g.start => f = g

LEMMA KeyedInit == Init => Keyed
BY DEF Init, Off, Decided, Keyed

(* The zone, once stored, is only ever replaced by another.                *)
LEMMA ZoneStays ==
    ASSUME BootInv, [Next]_vars, config.zone # NULL
    PROVE  config'.zone # NULL
<1>1. config \in Config
  BY DEF BootInv, Types
<1>2. CASE config' = config
  BY <1>2
<1>3. CASE config' # config
  <2>1. PICK s \in Server : SetName(s) \/ SetUrl(s) \/ WriteZone(s) \/ EnsureAdmin(s)
    BY <1>3, SettingsStep
  <2>2. CASE SetName(s) \/ SetUrl(s)
    BY <1>1, <2>2 DEF SetName, SetUrl, Config
  <2>3. CASE WriteZone(s)
    BY <1>1, <2>3, BootZones DEF WriteZone, ZoneChoice, Config
  <2>4. CASE EnsureAdmin(s)
    BY <1>1, <2>4 DEF EnsureAdmin, Config
  <2> QED  BY <2>1, <2>2, <2>3, <2>4
<1> QED  BY <1>2, <1>3

(* A step that neither fires, nor prints a token, nor passes the zone.     *)
LEMMA KeyedKept ==
    ASSUME BootInv, Keyed, [Next]_vars,
           fires' = fires, shown' = shown,
           \A r \in Server : proc'[r].pc \in Decided => \E q \in Server : proc[q].pc \in Decided
    PROVE  Keyed'
<1>1. shown' # {} \/ (\E s \in Server : proc'[s].pc \in Decided) => config'.zone # NULL
  BY ZoneStays DEF Keyed
<1> QED  BY <1>1 DEF Keyed, Fire

LEMMA KeyedStep == ASSUME BootInv, Keyed, [Next]_vars PROVE Keyed'
<1>1. config \in Config /\ proc \in [Server -> Process] /\ IsFiniteSet(fires)
  BY DEF BootInv, Types
<1>2. CASE UNCHANGED vars
  BY <1>2 DEF vars, tokens, Keyed
<1>3. ASSUME NEW s \in Server, NEW o \in Option, Start(s, o) PROVE Keyed'
  BY <1>1, <1>3, KeyedKept DEF Start, tokens, Off, Decided
<1>4. ASSUME NEW s \in Server, BootFails(s) \/ ListenFails(s) \/ Exit(s) PROVE Keyed'
  BY <1>1, <1>4, KeyedKept DEF BootFails, ListenFails, Exit, End, tokens, Off, Decided
<1>5. ASSUME NEW s \in Server, Crash(s) PROVE Keyed'
  BY <1>1, <1>5, KeyedKept DEF Crash, End, Off, Decided
<1>6. ASSUME NEW s \in Server, Migrate(s) \/ Signal(s) PROVE Keyed'
  <2>1. fires' = fires /\ shown' = shown
    BY <1>6 DEF Migrate, Signal, tokens
  <2>2. \A r \in Server : proc'[r].pc = proc[r].pc
    BY <1>1, <1>6 DEF Migrate, Signal, Process
  <2> QED  BY <2>1, <2>2, KeyedKept
<1>7. ASSUME NEW s \in Server,
             Migrated(s) \/ Listen(s) \/ SetName(s) \/ SetUrl(s) \/ ReadZone(s)
      PROVE  Keyed'
  <2>1. fires' = fires /\ shown' = shown
    BY <1>7 DEF Migrated, Listen, SetName, SetUrl, ReadZone, tokens
  <2>2. proc'[s].pc \in {"binding", "advertising", "name", "url", "readzone", "writezone"}
    BY <1>1, <1>7 DEF Migrated, Listen, SetName, SetUrl, ReadZone, Step, Process
  <2>3. \A r \in Server \ {s} : proc'[r] = proc[r]
    BY <1>1, <1>7 DEF Migrated, Listen, SetName, SetUrl, ReadZone, Step
  <2> QED  BY <2>1, <2>2, <2>3, KeyedKept DEF Decided
<1>8. ASSUME NEW s \in Server, Advertise(s) PROVE Keyed'
  <2>1. fires' = fires /\ shown' = shown
    BY <1>8 DEF Advertise, tokens
  <2>2. proc'[s].pc = "name" /\ \A r \in Server \ {s} : proc'[r] = proc[r]
    BY <1>1, <1>8 DEF Advertise, Step, Process
  <2> QED  BY <2>1, <2>2, KeyedKept DEF Decided
<1>9. ASSUME NEW s \in Server, WriteZone(s) PROVE Keyed'
  <2>1. config'.zone # NULL
    BY <1>1, <1>9, BootZones DEF WriteZone, ZoneChoice, Config
  <2>2. fires' = fires /\ shown' = shown
    BY <1>9 DEF WriteZone, tokens
  <2> QED  BY <2>1, <2>2 DEF Keyed, Fire
<1>10. ASSUME NEW s \in Server, EnsureAdmin(s) PROVE Keyed'
  <2>1. proc[s].pc \in Decided /\ fires' = fires /\ shown' = shown
    BY <1>10 DEF EnsureAdmin, tokens, Decided
  <2> QED  BY <2>1, KeyedKept
<1>11. ASSUME NEW s \in Server, ShowToken(s) PROVE Keyed'
  <2>1. proc[s].pc \in Decided /\ fires' = fires /\ shown' # {}
    BY <1>11 DEF ShowToken, Decided
  <2>2. config'.zone # NULL
    BY <2>1, ZoneStays DEF Keyed
  <2> QED  BY <2>1, <2>2 DEF Keyed, Fire
<1>12. ASSUME NEW s \in Server, NEW window \in Windows, NEW t \in Horizon, Evaluate(s, window, t)
       PROVE  Keyed'
  <2> DEFINE fire == FireOf(window, t, config.zone)
  <2>1. shown # {} /\ UNCHANGED <<config, proc, shown>>
    BY <1>12 DEF Evaluate, tokens
  <2>2. config.zone # NULL /\ config.zone \in Zone /\ ZoneInForce(s) = config.zone
    BY <1>1, <2>1 DEF Keyed, ZoneInForce, Config
  <2>3. fires' = fires \cup {fire} /\ ~\E f \in fires : f.rule = window /\ f.start = fire.start
    BY <1>12, <2>2 DEF Evaluate, FireOf
  <2>4. fire \in Fire /\ fire.rule = window
    BY <2>2 DEF Fire, FireOf
  <2> HIDE DEF fire
  <2>5. fires' \subseteq Fire
    BY <2>3, <2>4 DEF Keyed
  <2>6. \A f, g \in fires' : f.rule = g.rule /\ f.start = g.start => f = g
    BY <2>3, <2>4 DEF Keyed
  <2>7. Fire' = Fire
    BY DEF Fire, FireOf, Zone
  <2> QED  BY <2>1, <2>2, <2>5, <2>6, <2>7 DEF Keyed
<1> QED  BY <1>2, <1>3, <1>4, <1>5, <1>6, <1>7, <1>8, <1>9, <1>10, <1>11, <1>12 DEF Next, Advance, Windows

(* A rule fires once in a window, and in its own window: whichever zones   *)
(* there are, with whatever transitions, as long as they are steady where  *)
(* the windows begin and end, and whatever boots change the zone between   *)
(* two fires; and no rule fires before a zone was decided on.              *)
THEOREM FiresKeyed == Spec => []FiresAreKeyed
<1>1. Keyed => FiresAreKeyed
  <2> SUFFICES ASSUME Keyed PROVE FiresAreKeyed
    OBVIOUS
  <2>1. fires # {} => config.zone # NULL
    BY DEF Keyed
  <2>2. \A f \in fires : (f.start <= f.at /\ f.at < f.end) \/ MidnightRepeated(f.at, f.zone)
    BY FireIsInWindow DEF Keyed
  <2>3. \A f, g \in fires : f.rule = g.rule /\ f.zone = g.zone =>
            f = g \/ f.end <= g.start \/ g.end <= f.start
    BY WindowsApart DEF Keyed
  <2> QED  BY <2>1, <2>2, <2>3 DEF FiresAreKeyed
<1>2. BootInv /\ Keyed /\ [Next]_vars => Keyed'
  BY KeyedStep
<1> QED  BY <1>1, <1>2, KeyedInit, BootInvariance, PTL DEF Spec
=============================================================================
