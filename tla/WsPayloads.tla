---------------------------- MODULE WsPayloads -----------------------------
(***************************************************************************)
(* What the WebSocket API makes of a payload before it is sent, and what   *)
(* the client makes of it: the mappers between plain objects and protobuf  *)
(* messages, the two forms of a frame, and the JSON that carries updates   *)
(* from the workers.                                                       *)
(***************************************************************************)
EXTENDS ProtoWire

\* JSON.stringify followed by JSON.parse: what is undefined disappears, a
\* Date becomes a string.
RECURSIVE ThroughJson(_)
ThroughJson(v) ==
    CASE Is("date", v) -> Iso(v[2])
      [] Is("list", v) -> Lst([i \in DOMAIN v[2] |-> IF v[2][i] = Undefined THEN Null ELSE ThroughJson(v[2][i])])
      [] Is("object", v) -> Obj([k \in {k \in DOMAIN v[2] : v[2][k] # Undefined} |-> ThroughJson(v[2][k])])
      [] OTHER -> v

\* The reviver of JSON.parse: every string that looks like a time is one.
RECURSIVE reviveDates(_)
reviveDates(v) ==
    CASE Is("iso", v) -> Date(v[2])
      [] Is("list", v) -> Lst([i \in DOMAIN v[2] |-> reviveDates(v[2][i])])
      [] Is("object", v) -> Obj([k \in DOMAIN v[2] |-> reviveDates(v[2][k])])
      [] OTHER -> v

normalizeOptionalFields_Nothing(item, fields) == item
normalizeOptionalFields(item, fields) ==
    Obj([k \in DOMAIN item[2] |-> IF k \in fields /\ item[2][k] = Null THEN Undefined ELSE item[2][k]])

-----------------------------------------------------------------------------
(* ProtoAny and its registry.                                              *)

\* The types with a URL; the mint pages have a coder of their own.
MintPage == "CursorPaginatedBacktestMintResultsResponse"
Registered ==
    {"ProtoBacktestRun", "ProtoBacktestStrategyFullResult", "ProtoBacktestMintFullResult", MintPage,
     "ProtoBacktestStrategyResultStatusResponseMessage", "ProtoDeleteBacktestStrategyResultsResponseMessage",
     "ProtoAbortBacktestRunResponseMessage", "ProtoDeleteBacktestRunResponseMessage"}

packPlainAny(data, class) == Obj([type_url |-> Str(class), value |-> Bytes(Encode(class, data))])

packCursorPaginatedResponse(page, class) ==
    Obj([data |-> Lst([i \in DOMAIN Get(page, "data")[2] |-> packPlainAny(Get(page, "data")[2][i], class)]),
         count |-> Get(page, "count"),
         nextCursor |-> IF Get(page, "nextCursor") = Null THEN Undefined ELSE Get(page, "nextCursor")])

packMintPage(page) ==
    Obj([type_url |-> Str(MintPage),
         value |-> Bytes(Encode("ProtoCursorPaginatedResponse",
                                packCursorPaginatedResponse(page, "ProtoBacktestMintFullResult")))])

packAny(data, class) == IF class = MintPage THEN packMintPage(data) ELSE packPlainAny(data, class)

\* packAny throws for a class without a URL, the encoder for a bad value.
PackThrows(data, class) ==
    \/ class \notin Registered
    \/ IF class = MintPage
         THEN \E row \in Range(Get(data, "data")[2]) : Throws("ProtoBacktestMintFullResult", row)
         ELSE Throws(class, data)

unpackAny(any) ==
    LET class == Get(any, "type_url")[2]
    IN  Decode(IF class = MintPage THEN "ProtoCursorPaginatedResponse" ELSE class, Get(any, "value")[2])

decodeCursorPaginatedResponse(message) ==
    Obj([count |-> Get(message, "count"), nextCursor |-> Get(message, "nextCursor"),
         data |-> Lst([i \in DOMAIN Get(message, "data")[2] |-> unpackAny(Get(message, "data")[2][i])])])

-----------------------------------------------------------------------------
(* Filters.                                                                *)

packFilter(value) ==
    LET of(kind) == SelectSeq(value[2], LAMBDA v : Is(kind, v))
        array(kind) == IF of(kind) = <<>> THEN Undefined ELSE Obj([values |-> Lst(of(kind))])
    IN  CASE Is("list", value) -> Obj([string_array |-> array("string"), number_array |-> array("number"),
                                       bool_array |-> array("boolean")])
          [] Is("string", value) -> Obj([string_value |-> value])
          [] Is("number", value) -> Obj([number_value |-> value])
          [] Is("boolean", value) -> Obj([bool_value |-> value])
          [] OTHER -> EmptyObject

packFilters(filters) ==
    IF filters = Undefined THEN EmptyObject
    ELSE Obj([k \in DOMAIN filters[2] |-> packFilter(filters[2][k])])

FilterValues(packed) ==
    SelectSeq(<<Get(packed, "string_value"), Get(packed, "number_value"), Get(packed, "bool_value")>>,
              LAMBDA v : v # Undefined)
    \o FoldLeft(LAMBDA all, n : IF Get(packed, n) = Undefined THEN all ELSE all \o Get(Get(packed, n), "values")[2],
                <<>>, <<"string_array", "number_array", "bool_array">>)

unpackFilters(packed) ==
    LET values(k) == FilterValues(packed[2][k])
    IN  Obj([k \in {k \in DOMAIN packed[2] : values(k) # <<>>} |->
                IF Len(values(k)) = 1 THEN values(k)[1] ELSE Lst(values(k))])

-----------------------------------------------------------------------------
(* The payloads.                                                           *)

packCursorPaginatedSnapshotPayload(payload, class) ==
    Obj([data |-> packCursorPaginatedResponse(Get(payload, "data"), class),
         appliedFilters |-> packFilters(Get(payload, "appliedFilters"))])
unpackCursorPaginatedSnapshotPayload(message) ==
    Obj([data |-> decodeCursorPaginatedResponse(Get(message, "data")),
         appliedFilters |-> unpackFilters(Get(message, "appliedFilters"))])

packFetchMorePayload(payload, class) ==
    Obj([paginatedData |-> packCursorPaginatedResponse(Get(payload, "paginatedData"), class),
         appliedFilters |-> packFilters(Get(payload, "appliedFilters"))])
unpackFetchMorePayload(message) ==
    Obj([paginatedData |-> decodeCursorPaginatedResponse(Get(message, "paginatedData")),
         appliedFilters |-> unpackFilters(Get(message, "appliedFilters"))])

FETCH_STATUS_OK == 1
packFetchResponsePayload(payload, class) ==
    Obj([requestId |-> Get(payload, "requestId"), status |-> Get(payload, "status"),
         data |-> IF Get(payload, "data") = Null THEN Undefined ELSE packAny(Get(payload, "data"), class)])

\* The client decodes the page inside the ProtoAny and then its items.
unpackFetchResponsePayload(message) ==
    Obj([requestId |-> Get(message, "requestId"), status |-> Get(message, "status"),
         data |-> IF Get(message, "data") = Undefined THEN Null
                  ELSE decodeCursorPaginatedResponse(unpackAny(Get(message, "data")))])

ActionNumbers == [added |-> 0, updated |-> 1, deleted |-> 2]
packUpdateItem(item, class) ==
    LET action == Get(item, "action")[2]
    IN  Obj([id |-> Get(item, "id"), action |-> Num(ActionNumbers[action]),
             data |-> IF action \in {"added", "updated"} THEN packAny(Get(item, "data"), class) ELSE Undefined,
             version |-> IF action = "updated" THEN Get(item, "version") ELSE Undefined])
unpackUpdateItem(message) ==
    LET number == Get(message, "action")[2]
        action == IF \E a \in DOMAIN ActionNumbers : ActionNumbers[a] = number
                    THEN CHOOSE a \in DOMAIN ActionNumbers : ActionNumbers[a] = number ELSE "updated"
    IN  Obj([id |-> Get(message, "id"), action |-> Str(action),
             data |-> IF action = "deleted" THEN Undefined ELSE unpackAny(Get(message, "data")),
             version |-> IF action = "updated" THEN Get(message, "version") ELSE Undefined])

packUpdatesPayload(payload, class) ==
    Obj([items |-> Lst([i \in DOMAIN Get(payload, "items")[2] |-> packUpdateItem(Get(payload, "items")[2][i], class)]),
         appliedFilters |-> packFilters(Get(payload, "appliedFilters"))])
unpackUpdatesPayload(message) ==
    Obj([items |-> Lst([i \in DOMAIN Get(message, "items")[2] |-> unpackUpdateItem(Get(message, "items")[2][i])]),
         appliedFilters |-> unpackFilters(Get(message, "appliedFilters"))])

RpcOk == Num(0)
RpcError == Num(1)
packRpcPayload(payload, class) ==
    IF Get(payload, "status") = Str("ok")
      THEN Obj([status |-> RpcOk, method |-> Get(payload, "method"),
                success |-> Obj([data |-> packAny(Get(payload, "data"), class)])])
      ELSE Obj([status |-> RpcError, method |-> Get(payload, "method"),
                error |-> Obj([errorCode |-> Get(payload, "errorCode"),
                               errorMessage |-> Get(payload, "errorMessage")])])
unpackRpcPayload(message) ==
    IF Get(message, "status") = RpcOk
      THEN Obj([status |-> Str("ok"), method |-> Get(message, "method"),
                data |-> unpackAny(Get(Get(message, "success"), "data"))])
      ELSE Obj([status |-> Str("error"), method |-> Get(message, "method"),
                errorCode |-> Get(Get(message, "error"), "errorCode"),
                errorMessage |-> Get(Get(message, "error"), "errorMessage")])

-----------------------------------------------------------------------------
(* Frames: a JSON header with a binary payload; the JSON text for a        *)
(* connection in debug mode is left out.  A frame of the model holds what  *)
(* was passed to its sender and what its receiver reads of the bytes;      *)
(* Thrown stands for the exception of an encoder, after which nothing is   *)
(* sent.                                                                   *)

Thrown == <<"thrown">>

\* decodePayload, by the event in the header.
decodePayload(event, wire) ==
    CASE event = "snapshot" -> unpackCursorPaginatedSnapshotPayload(Decode("ProtoCursorPaginatedSnapshotPayload", wire))
      [] event = "fetchMore" -> unpackFetchMorePayload(Decode("ProtoFetchMorePayload", wire))
      [] event = "fetch_response" -> unpackFetchResponsePayload(Decode("ProtoFetchResponsePayload", wire))
      [] event = "update" -> unpackUpdatesPayload(Decode("ProtoUpdatesPayload", wire))
      [] event = "rpc_response" -> unpackRpcPayload(Decode("ProtoRpcPayload", wire))

Frame(header, payload, class, throws, packed, message) ==
    [header |-> header, class |-> class, sent |-> payload,
     read |-> IF throws THEN Thrown ELSE decodePayload(header.event, Encode(message, packed))]

RowsThrow(page, class) == \E row \in Range(Get(page, "data")[2]) : Throws(class, row)

sendCursorPaginatedSnapshotResponse(header, payload, class) ==
    Frame(header, payload, class, RowsThrow(Get(payload, "data"), class),
          packCursorPaginatedSnapshotPayload(payload, class), "ProtoCursorPaginatedSnapshotPayload")

sendFetchMoreResponse(header, payload, class) ==
    Frame(header, payload, class, RowsThrow(Get(payload, "paginatedData"), class),
          packFetchMorePayload(payload, class), "ProtoFetchMorePayload")

sendFetchResponse(header, payload, class) ==
    Frame(header, payload, class, PackThrows(Get(payload, "data"), class),
          packFetchResponsePayload(payload, class), "ProtoFetchResponsePayload")

sendUpdatesResponse(header, payload, class) ==
    Frame(header, payload, class,
          \E item \in Range(Get(payload, "items")[2]) : PackThrows(Get(item, "data"), class),
          packUpdatesPayload(payload, class), "ProtoUpdatesPayload")

sendRpcResponse(header, payload, class) ==
    Frame(header, payload, class,
          Get(payload, "status") = Str("ok") /\ PackThrows(Get(payload, "data"), class),
          packRpcPayload(payload, class), "ProtoRpcPayload")

-----------------------------------------------------------------------------
(* What the receiver of a frame should find in it, stated without packing: *)
(* the payload that was passed, its rows reduced to the fields of their    *)
(* type, nulls and undefined fields alike.                                 *)

MeantPage(page, class) ==
    Obj([count |-> Get(page, "count"), nextCursor |-> MeantValue("string", Get(page, "nextCursor")),
         data |-> Lst([i \in DOMAIN Get(page, "data")[2] |-> Meant(class, Get(page, "data")[2][i])])])
MeantItem(item, class) ==
    Obj([id |-> Get(item, "id"), action |-> Get(item, "action"),
         data |-> IF Get(item, "action") = Str("deleted") THEN Undefined
                  ELSE Meant(class, Get(item, "data"))])

PageIn(payload, event) ==
    Get(payload, IF event = "fetchMore" THEN "paginatedData" ELSE "data")
ReadPage(page) ==
    Obj([count |-> Get(page, "count"), nextCursor |-> MeantValue("string", Get(page, "nextCursor")),
         data |-> Get(page, "data")])

\* The frame says what its sender passed.
SaysWhatWasSent(frame) ==
    LET event == frame.header.event
        read == frame.read
        sent == frame.sent
        class == IF frame.class = MintPage THEN "ProtoBacktestMintFullResult" ELSE frame.class
    IN  /\ read # Thrown
        /\ CASE event \in {"snapshot", "fetchMore", "fetch_response"} ->
                  /\ ReadPage(PageIn(read, event)) = MeantPage(PageIn(sent, event), class)
                  /\ event # "fetch_response" => Get(read, "appliedFilters") = Get(sent, "appliedFilters")
             [] event = "update" ->
                  /\ Len(Get(read, "items")[2]) = Len(Get(sent, "items")[2])
                  /\ \A i \in DOMAIN Get(sent, "items")[2] :
                        LET r == Get(read, "items")[2][i]
                            s == Get(sent, "items")[2][i]
                        IN  /\ Obj([n \in {"id", "action", "data"} |-> Get(r, n)]) = MeantItem(s, class)
                            /\ Get(s, "action") = Str("updated") => Get(r, "version") = Get(s, "version")
             [] event = "rpc_response" ->
                  /\ Get(read, "status") = Get(sent, "status")
                  /\ Get(sent, "status") = Str("ok") => Get(read, "data") = Meant(class, Get(sent, "data"))
                  /\ Get(sent, "status") = Str("error") => Get(read, "errorMessage") = Get(sent, "errorMessage")
=============================================================================
