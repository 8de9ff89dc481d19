------------------------------ MODULE MCIngest ------------------------------
(***************************************************************************)
(* Two members share one machine (x1 was rejoined under a second token)    *)
(* and an id: batch b1 is redelivered by the second member inside batch    *)
(* b2.  b1 holds a request without ids, a second copy of its own request   *)
(* with another count, and a request without a session; b2 a plugin event  *)
(* without a timestamp.  b3 is not an OTLP envelope, b4 is protobuf.       *)
(***************************************************************************)
EXTENDS Ingest, SequencesExt, TLC

CONSTANTS alice, bob, b1, b2, b3, b4, x1, u1, u2, s1, mac, lnx,
          api_request, plugin, garbled, iso1, empty, json, decimal

(* The texts of numbers are numbers here; `decimal' is 2.7.                *)
MCNumberIn(s) ==
    IF s = decimal THEN [whole |-> FALSE, value |-> 2]
    ELSE IF \E n \in -1..20 : n = s THEN [whole |-> TRUE, value |-> s] ELSE NULL
MCDateIn(s) == IF s = iso1 THEN 1 ELSE NULL
MCRendered(v) == json
Parser == INSTANCE Otlp WITH
    NULL <- NULL, Empty <- empty, JsonText <- json, ApiRequest <- api_request,
    DroppedKeys <- {"user.email"}, NanosPerMilli <- 10, MaxSafe <- 100,
    BodyLimit <- 4, MaxInflation <- 2, ProtobufTypes <- {"protobuf"},
    NumberIn <- MCNumberIn, DateIn <- MCDateIn, Rendered <- MCRendered

Str(v) == [is |-> "str", v |-> v]
Num(v) == [is |-> "num", v |-> v]
Obj(f) == [is |-> "obj", fields |-> f]
Arr(s) == [is |-> "arr", items |-> s]
Text(v) == Obj([stringValue |-> Str(v)])
Int_(x) == Obj([intValue |-> x])
At(k, x) == Obj([key |-> Str(k), value |-> x])
Record(attributes) == Obj([attributes |-> Arr(attributes)])
Timed(nano, attributes) == Obj([attributes |-> Arr(attributes), timeUnixNano |-> nano])
From(resource, records) ==
    Obj([resource |-> resource, scopeLogs |-> Arr(<<Obj([logRecords |-> Arr(records)]), Str(garbled)>>)])
Request_ == At("event.name", Text(api_request))

MCPayload == [b \in {b1, b2, b3, b4} |->
    CASE b = b1 -> Obj([resourceLogs |-> Arr(<<
            From(Record(<<At("os.type", Text(mac)), At("user.email", Text(garbled))>>), <<
                Timed(Str(20), <<Request_, At("client_request_id", Text(u1)), At("request_id", Text(u2)),
                    At("session.id", Text(s1)), At("user.id", Str(x1)), At("input_tokens", Int_(Str(3))),
                    At("event.timestamp", Text(garbled))>>)>>),
            From(Record(<<At("os.type", Text(lnx))>>), <<
                Str(garbled),
                Record(<<Request_, At("session.id", Text(s1)), At("input_tokens", Int_(Num(-1))),
                    At("event.timestamp", Text(iso1))>>)>>),
            From(Str(garbled), <<
                Timed(Num(19), <<Request_, At("request_id", Text(u1)), At("session.id", Text(s1)),
                    At("user.id", Text(x1)), At("input_tokens", Int_(Str(1))), Num(0),
                    At("input_tokens", Str(decimal))>>)>>),
            From(Record(<<At("os.type", Text(lnx)), At("user.id", Text(x1))>>), <<
                Timed(Str(20), <<Request_, At("input_tokens", Num(1)), At("user.id", Obj(<<>>)),
                    At("", Text(u1))>>)>>)>>)])
      [] b = b2 -> Obj([resourceLogs |-> Arr(<<
            Num(0),
            From(Record(<<At("session.id", Text(s1)), At("user.id", Text(x1))>>), <<
                Record(<<At("event.name", Text(plugin))>>),
                Timed(Num(NULL), <<Request_, At("request_id", Text(u1)), At("input_tokens", Str(2)),
                    At("event.timestamp", Text(iso1))>>),
                Timed(Obj([intValue |-> Str(19)]), <<Request_, At("request_id", Text(u2)),
                    At("input_tokens", Int_(Str(5)))>>)>>)>>)])
      [] b = b3 -> Obj([resourceLogs |-> Str(garbled)])
      [] OTHER  -> NULL]

(* b1 is compressed as far as it may be; b2 does not say what it is.       *)
Bytes(b) == [size |-> 4, coded |-> NULL, inflated |-> 4, holds |-> MCPayload[b]]
MCRequest == [b \in {b1, b2, b3, b4} |->
    [type |-> IF b = b4 THEN <<"protobuf">> ELSE IF b = b2 THEN <<>> ELSE <<"json", "charset">>,
     encodings |-> IF b = b1 THEN <<"identity", "gzip">> ELSE <<>>,
     bytes |-> IF b = b1 THEN [Bytes(b) EXCEPT !.coded = "gzip", !.inflated = 8] ELSE Bytes(b)]]

MCSender == [b \in Batch |-> IF b = b1 THEN alice ELSE bob]
MCBody == [b \in Batch |-> IF b = b4 THEN "protobuf" ELSE IF b = b3 THEN "malformed" ELSE "otlp"]

(* What is to be read from them.                                           *)
Plain == [api |-> TRUE, ts |-> 1, install |-> x1, sessionId |-> s1, os |-> NULL,
          requestId |-> NULL, clientRequestId |-> NULL, tokens |-> 2]
EventsOfB1 == <<
    [Plain EXCEPT !.ts = 2, !.os = mac, !.requestId = u2, !.clientRequestId = u1, !.tokens = 3],
    [Plain EXCEPT !.install = NULL, !.os = lnx, !.tokens = -1],
    [Plain EXCEPT !.requestId = u1],
    [Plain EXCEPT !.ts = 2, !.sessionId = NULL, !.os = lnx, !.tokens = 1]>>
EventsOfB2 == <<
    [Plain EXCEPT !.api = FALSE, !.ts = 0, !.tokens = 0],
    [Plain EXCEPT !.requestId = u1],
    [Plain EXCEPT !.requestId = u2, !.tokens = 5]>>
MCEvents == [b \in Batch |-> IF b = b1 THEN EventsOfB1 ELSE IF b = b2 THEN EventsOfB2 ELSE <<>>]
MCEvent == ToSet(EventsOfB1) \cup ToSet(EventsOfB2)

(* What a payload is without the parts that cannot be used.                *)
CleanAttributes(node) ==
    LET of == Parser!CollectOneByOne(Parser!Field(node, "attributes"), <<>>).attributes
    IN  [node EXCEPT !.fields = [attributes |-> Arr([i \in 1..Cardinality(DOMAIN of) |->
            LET key == SetToSeq(DOMAIN of)[i] IN At(key, of[key])])] @@ node.fields]
CleanEntry(entry) ==
    LET resource == Parser!Field(entry, "resource")
    IN  Obj([resource |-> IF Parser!Is(resource, "obj") THEN CleanAttributes(resource) ELSE NULL,
             scopeLogs |-> Arr(<<Obj([logRecords |-> Arr(
                 [i \in DOMAIN Parser!Objects(Parser!Records(entry)) |->
                     CleanAttributes(Parser!Objects(Parser!Records(entry))[i])])])>>)])
Clean(payload) ==
    LET entries == Parser!Objects(payload.fields.resourceLogs.items)
    IN  Obj([resourceLogs |-> Arr([i \in DOMAIN entries |-> CleanEntry(entries[i])])])

(* A batch's events are what its payload says, and what the payload would *)
(* say without the parts that cannot be used.                             *)
ReadAs(payload, read, clean) ==
    /\ \A i \in DOMAIN Parser!Objects(payload.fields.resourceLogs.items) :
          LET entry    == Parser!Objects(payload.fields.resourceLogs.items)[i]
              resource == Parser!ResourceOf(entry).attributes
          IN  \A r \in ToSet(Parser!Objects(Parser!Records(entry))) :
                  LET all  == Parser!CollectAttributes(r.fields.attributes, resource)
                      each == Parser!CollectOneByOne(r.fields.attributes, resource)
                  IN  all.attributes = each.attributes /\ all.issues = each.issues
    /\ clean.issues = 0 /\ clean.skipped = 0 /\ clean.events = read.events
Parsed(payload) == Parser!ParseOtlpLogsPayload(payload)
(* Coded twice, otherwise than it says or in no known way, too long on the *)
(* wire or once inflated, or empty.                                        *)
Spoiled(r) ==
    {[r EXCEPT !.encodings = <<"gzip", "br">>], [r EXCEPT !.encodings = <<"zstd">>, !.bytes.coded = "zstd"],
     [r EXCEPT !.encodings = <<"br">>, !.bytes.coded = "gzip"], [r EXCEPT !.encodings = <<"identity">>, !.bytes.coded = "br"],
     [r EXCEPT !.encodings = <<"br">>, !.bytes.coded = "br", !.bytes.inflated = 9],
     [r EXCEPT !.bytes.size = 5], [r EXCEPT !.bytes.size = 0]}
BatchIsRead(b, read) ==
    /\ Parser!BodyOf(MCRequest[b]) = Body[b]
    /\ Body[b] = "otlp" => \A r \in Spoiled(MCRequest[b]) : Parser!BodyOf(r) = "malformed"
    /\ read.ok <=> Body[b] = "otlp"
    /\ read.events = Events[b]
    /\ read.ok => ReadAs(MCPayload[b], read, Parsed(Clean(MCPayload[b])))
Read == [b \in Batch |-> BatchIsRead(b, Parsed(MCPayload[b]))]

(* What the handler makes of a delivery are the events of its payload: an  *)
(* attribute is what the last usable entry says, and a part that cannot be *)
(* used takes nothing with it; bytes that are not what they are said to be *)
(* are refused whole.                                                      *)
PayloadsAreRead ==
    \A b \in Batch, s \in Slot : phase[<<b, s>>] = "admitted" => Read[b]
=============================================================================
