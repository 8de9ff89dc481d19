-------------------------------- MODULE Otlp --------------------------------
(***************************************************************************)
(* The OTLP/HTTP JSON logs parser (server/otlp.ts): a payload in, the      *)
(* events of a batch out.  Unusable parts are set aside and counted.       *)
(*                                                                         *)
(* JSON: an object [is |-> "obj", fields], an array [is |-> "arr", items], *)
(* a scalar [is |-> "str" | "num" | "bool", v]; NULL is null or absent.  A *)
(* number is what truncation leaves of it, NULL when it is not finite.     *)
(***************************************************************************)
EXTENDS Integers, FiniteSets, FiniteSetsExt, SequencesExt

CONSTANTS
    NULL,
    Empty,            \* the empty string
    JsonText,         \* the text of a structure, which denotes nothing
    ApiRequest,       \* the name of the event that is stored
    DroppedKeys,      \* DROPPED_ATTRIBUTE_KEYS
    NanosPerMilli,
    MaxSafe,          \* Number.MAX_SAFE_INTEGER
    BodyLimit,        \* bytes on the wire of one request
    MaxInflation,     \* MAX_INFLATION_FACTOR
    ProtobufTypes,    \* PROTOBUF_MEDIA_TYPES
    NumberIn(_),      \* what a text denotes: [whole, value] truncated, or NULL
    DateIn(_),        \* the instant a text denotes, or NULL
    Rendered(_)       \* String, of a number or a boolean

Is(x, type) == x # NULL /\ x.is = type
Field(x, name) == IF name \in DOMAIN x.fields THEN x.fields[name] ELSE NULL
Items(x) == IF Is(x, "arr") THEN x.items ELSE <<>>
Objects(seq) == SelectSeq(seq, LAMBDA x : Is(x, "obj"))

(* How many parts of a place where an array of objects may stand are not.  *)
Amiss(x) ==
    IF x = NULL THEN 0
    ELSE IF ~Is(x, "arr") THEN 1 ELSE Len(x.items) - Len(Objects(x.items))

-----------------------------------------------------------------------------
(* Scalars                                                                 *)
ScalarKeys == <<"stringValue", "intValue", "doubleValue", "boolValue">>
UnwrapScalar(x) ==
    LET held == {i \in DOMAIN ScalarKeys : ScalarKeys[i] \in DOMAIN x.fields}
    IN  IF ~Is(x, "obj") THEN x ELSE IF held = {} THEN x ELSE x.fields[ScalarKeys[Min(held)]]

(* A run of digits has no lower bound; a decimal has both.                 *)
ToInt(x) ==
    LET raw == UnwrapScalar(x)
        n   == NumberIn(raw.v)
    IN  IF Is(raw, "num") THEN raw.v
        ELSE IF ~Is(raw, "str") THEN NULL
        ELSE IF n = NULL THEN NULL
        ELSE IF n.value > MaxSafe \/ (~n.whole /\ n.value < -MaxSafe) THEN NULL ELSE n.value

ToStr(x) ==
    LET raw == UnwrapScalar(x)
    IN  IF Is(raw, "str") THEN IF raw.v = Empty THEN NULL ELSE raw.v
        ELSE IF (Is(raw, "num") /\ raw.v # NULL) \/ Is(raw, "bool") THEN Rendered(raw.v) ELSE NULL

(* Digits are divided exactly, towards zero, and must fit; a number is     *)
(* divided towards the past.                                               *)
NanosToMillis(x) ==
    LET raw  == UnwrapScalar(x)
        n    == NumberIn(raw.v)
        some == ToInt(x)
    IN  IF Is(raw, "str") /\ n # NULL /\ n.whole
        THEN LET millis == IF n.value < 0 THEN -((-n.value) \div NanosPerMilli)
                           ELSE n.value \div NanosPerMilli
             IN  IF millis \in -MaxSafe .. MaxSafe THEN millis ELSE NULL
        ELSE IF some = NULL THEN NULL ELSE some \div NanosPerMilli

AttributeValue(x) ==
    LET Json == [is |-> "str", v |-> JsonText]
        int  == ToInt(Field(x, "intValue"))
    IN  CASE Is(x, "str") \/ Is(x, "bool") -> x
          [] Is(x, "num") -> IF x.v = NULL THEN NULL ELSE x
          [] ~Is(x, "obj") \/ DOMAIN x.fields = {} -> NULL
          [] Is(Field(x, "stringValue"), "str") -> Field(x, "stringValue")
          [] "intValue" \in DOMAIN x.fields -> IF int = NULL THEN Json ELSE [is |-> "num", v |-> int]
          [] "doubleValue" \in DOMAIN x.fields ->
                IF Is(Field(x, "doubleValue"), "num") /\ Field(x, "doubleValue").v # NULL
                THEN Field(x, "doubleValue") ELSE Json
          [] Is(Field(x, "boolValue"), "bool") -> Field(x, "boolValue")
          [] OTHER -> Json

-----------------------------------------------------------------------------
(* One attribute array merged into what is there: the last usable entry of *)
(* a key stands, a dropped key is never written.                           *)
KeyOf(entry) ==
    LET key == Field(entry, "key") IN IF Is(key, "str") /\ key.v # "" THEN key.v ELSE NULL
Usable(items) ==
    {i \in DOMAIN items : /\ Is(items[i], "obj") /\ KeyOf(items[i]) # NULL
                          /\ AttributeValue(Field(items[i], "value")) # NULL}
Keys(items) == {KeyOf(items[i]) : i \in Usable(items)}

\* mutant of Standing: the first entry of a key stands
FirstStanding(places) == Min(places)
Standing(places) == Max(places)

CollectAttributes(raw, target) ==
    LET items  == Items(raw)
        Of(k)  == {i \in Usable(items) : KeyOf(items[i]) = k}
        kept   == Keys(items) \ DroppedKeys
    IN  [attributes |-> [k \in DOMAIN target \cup kept |->
                            IF k \in kept THEN AttributeValue(Field(items[Standing(Of(k))], "value"))
                            ELSE target[k]],
         issues |-> (IF raw # NULL /\ ~Is(raw, "arr") THEN 1 ELSE 0)
                       + Len(items) - Cardinality(Keys(items))]

(* The same as the code does it, entry by entry.                           *)
SetAttribute(s, entry) ==
    LET key   == KeyOf(entry)
        value == AttributeValue(Field(entry, "value"))
    IN  IF ~Is(entry, "obj") THEN [s EXCEPT !.issues = @ + 1]
        ELSE IF key = NULL \/ value = NULL THEN [s EXCEPT !.issues = @ + 1]
        ELSE [attributes |-> IF key \in DroppedKeys THEN s.attributes
                             ELSE [k \in DOMAIN s.attributes \cup {key} |->
                                      IF k = key THEN value ELSE s.attributes[k]],
              seen |-> s.seen \cup {key},
              issues |-> s.issues + (IF key \in s.seen THEN 1 ELSE 0)]
CollectOneByOne(raw, target) ==
    LET items == Items(raw)
        after[n \in 0..Len(items)] ==
            IF n = 0 THEN [attributes |-> target, seen |-> {},
                           issues |-> IF raw # NULL /\ ~Is(raw, "arr") THEN 1 ELSE 0]
            ELSE SetAttribute(after[n - 1], items[n])
    IN  after[Len(items)]

Get(attributes, k) == IF k \in DOMAIN attributes THEN attributes[k] ELSE NULL
Or(x, y) == IF x = NULL THEN y ELSE x

ResolveTimestamp(record, attributes) ==
    LET iso == Get(attributes, "event.timestamp")
        at  == IF Is(iso, "str") THEN DateIn(iso.v) ELSE NULL
    IN  Or(at, Or(NanosToMillis(Field(record, "timeUnixNano")),
                  Or(NanosToMillis(Field(record, "observedTimeUnixNano")), 0)))

(* The fields of an event that Ingest tells apart.                         *)
BuildEvent(record, resource, attributes) ==
    LET api == ToStr(Get(attributes, "event.name")) = ApiRequest
        Own(k) == IF api THEN ToStr(Get(attributes, k)) ELSE NULL
    IN  [api |-> api, ts |-> ResolveTimestamp(record, attributes),
         install |-> ToStr(Get(attributes, "user.id")),
         sessionId |-> ToStr(Get(attributes, "session.id")),
         os |-> ToStr(Get(resource, "os.type")),
         requestId |-> Own("request_id"), clientRequestId |-> Own("client_request_id"),
         tokens |-> IF api THEN Or(ToInt(Get(attributes, "input_tokens")), 0) ELSE 0]

-----------------------------------------------------------------------------
(* A payload: resources, their scopes, their records.                      *)
ResourceOf(entry) ==
    LET raw == Field(entry, "resource")
    IN  CollectAttributes(IF Is(raw, "obj") THEN Field(raw, "attributes") ELSE NULL, <<>>)
Map(seq, Op(_)) == [i \in DOMAIN seq |-> Op(seq[i])]
Scopes(entry) == Objects(Items(Field(entry, "scopeLogs")))
Records(entry) == FlattenSeq(Map(Scopes(entry), LAMBDA s : Items(Field(s, "logRecords"))))

EventsOf(entry) ==
    LET resource == ResourceOf(entry).attributes
        Read(r) == BuildEvent(r, resource, CollectAttributes(Field(r, "attributes"), resource).attributes)
    IN  Map(Objects(Records(entry)), Read)
SumOver(seq, Op(_)) == MapThenSumSet(LAMBDA i : Op(seq[i]), DOMAIN seq)
IssuesOf(entry) ==
    ResourceOf(entry).issues
        + (IF Field(entry, "resource") # NULL /\ ~Is(Field(entry, "resource"), "obj") THEN 1 ELSE 0)
        + Amiss(Field(entry, "scopeLogs"))
        + SumOver(Scopes(entry), LAMBDA s : Amiss(Field(s, "logRecords")))
        + SumOver(Objects(Records(entry)), LAMBDA r : CollectAttributes(Field(r, "attributes"), <<>>).issues)

ParseOtlpLogsPayload(payload) ==
    IF ~Is(payload, "obj") THEN [ok |-> FALSE, events |-> <<>>, issues |-> 0, skipped |-> 0]
    ELSE IF ~Is(Field(payload, "resourceLogs"), "arr")
    THEN [ok |-> FALSE, events |-> <<>>, issues |-> 0, skipped |-> 0]
    ELSE LET entries == Objects(Field(payload, "resourceLogs").items)
         IN  [ok |-> TRUE, events |-> FlattenSeq(Map(entries, EventsOf)),
              issues |-> Amiss(Field(payload, "resourceLogs")) + SumOver(entries, IssuesOf),
              skipped |-> SumOver(entries, LAMBDA e : Len(Records(e)) - Len(Objects(Records(e))))]
-----------------------------------------------------------------------------
(* A request's bytes (server/app.ts): [size, coded, inflated, holds], with *)
(* the encoding they are compressed in, NULL if they are JSON as they are. *)
(* The headers are sequences of their parts.                               *)
MediaType(header) == IF header = <<>> THEN NULL ELSE header[1]

DecodeBody(bytes, encodings) ==
    LET work == SelectSeq(encodings, LAMBDA e : e # "identity")
    IN  IF work = <<>> THEN bytes
        ELSE IF /\ Len(work) = 1 /\ work[1] \in {"gzip", "deflate", "br"} /\ work[1] = bytes.coded
                /\ bytes.inflated <= BodyLimit * MaxInflation
        THEN [bytes EXCEPT !.coded = NULL] ELSE NULL

(* What POST /v1/logs makes of a request: 415, 400 (413), or a batch.      *)
BodyOf(request) ==
    LET decoded == DecodeBody(request.bytes, request.encodings)
    IN  IF MediaType(request.type) \in ProtobufTypes THEN "protobuf"
        ELSE IF /\ request.bytes.size \in 1..BodyLimit
                /\ decoded # NULL /\ decoded.coded = NULL
                /\ ParseOtlpLogsPayload(decoded.holds).ok
        THEN "otlp" ELSE "malformed"
=============================================================================
