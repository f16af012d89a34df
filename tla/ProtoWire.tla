----------------------------- MODULE ProtoWire -----------------------------
(***************************************************************************)
(* The protobuf coding of the WebSocket payloads: what the generated       *)
(* encoders write for a JavaScript object, when they throw, and what the   *)
(* generated decoders make of the bytes.  Every message is a table of its  *)
(* fields; one coder follows the tables.                                   *)
(*                                                                         *)
(* A JavaScript value is a pair of its kind and its content, so that any   *)
(* two of them can be compared.  Numbers are whole, times are whole        *)
(* seconds.  The bytes of a message are, for every field number, what was  *)
(* written under it: the decoders do not depend on the order of fields.    *)
(***************************************************************************)
EXTENDS Integers, Sequences, FiniteSetsExt, SequencesExt

Undefined == <<"undefined">>
Null == <<"null">>
Num(n) == <<"number", n>>
Bool(b) == <<"boolean", b>>
Str(s) == <<"string", s>>
Iso(t) == <<"iso", t>>          \* the string that toISOString makes of a time
Json(v) == <<"json", v>>        \* the string that JSON.stringify makes of a value
Date(t) == <<"date", t>>
Lst(s) == <<"list", s>>
Obj(f) == <<"object", f>>
Bytes(w) == <<"bytes", w>>
NaN == <<"nan">>                \* only ever read, never sent

Is(kind, v) == v[1] = kind
Get(o, name) == IF name \in DOMAIN o[2] THEN o[2][name] ELSE Undefined
EmptyObject == Obj(<<>>)

\* The spread { ...o, ...p }.
Spread(o, p) == Obj(p[2] @@ o[2])

\* What Object.keys and an index give of a value; the characters of a string
\* are one, a Date and a byte array stand for the objects without keys.
OwnEntries(v) ==
    CASE Is("object", v) -> v[2]
      [] v[1] \in {"string", "iso", "json"} -> [k \in {"0"} |-> Str("character")]
      [] OTHER -> <<>>

-----------------------------------------------------------------------------
(* The tables.  "implicit" is left out when it has the default, "optional" *)
(* when it is undefined; "packed" writes all its values as one field.      *)

Implicit(no, name, kind) == [no |-> no, name |-> name, kind |-> kind, label |-> "implicit"]
Optional(no, name, kind) == [no |-> no, name |-> name, kind |-> kind, label |-> "optional"]
Repeated(no, name, kind) == [no |-> no, name |-> name, kind |-> kind, label |-> "repeated"]
Packed(no, name, kind)   == [no |-> no, name |-> name, kind |-> kind, label |-> "packed"]
MapOf(no, name, entry)   == [no |-> no, name |-> name, kind |-> entry, label |-> "map"]

ProtoCursorPaginatedResponse ==
    {Repeated(1, "data", "ProtoAny"), Implicit(2, "count", "int"), Optional(3, "nextCursor", "string")}

ProtoStringArray == {Repeated(1, "values", "string")}
ProtoNumberArray == {Packed(1, "values", "double")}
ProtoBoolArray   == {Packed(1, "values", "bool")}

ProtoFilterValue ==
    {Optional(1, "string_value", "string"), Optional(2, "number_value", "double"),
      Optional(3, "bool_value", "bool"), Optional(4, "string_array", "ProtoStringArray"),
      Optional(5, "number_array", "ProtoNumberArray"), Optional(6, "bool_array", "ProtoBoolArray")}

SnapshotFiltersEntry  == {Implicit(1, "key", "string"), Optional(2, "value", "ProtoFilterValue")}
FetchMoreFiltersEntry == {Implicit(1, "key", "string"), Optional(2, "value", "ProtoFilterValue")}
UpdatesFiltersEntry   == {Implicit(1, "key", "string"), Optional(2, "value", "ProtoFilterValue")}

ProtoCursorPaginatedSnapshotPayload ==
    {Optional(1, "data", "ProtoCursorPaginatedResponse"), MapOf(2, "appliedFilters", "SnapshotFiltersEntry")}

ProtoFetchMorePayload ==
    {Optional(1, "paginatedData", "ProtoCursorPaginatedResponse"),
      MapOf(2, "appliedFilters", "FetchMoreFiltersEntry")}

ProtoFetchResponsePayload ==
    {Implicit(1, "requestId", "string"), Implicit(2, "status", "int"),
      Optional(3, "message", "string"), Optional(4, "data", "ProtoAny")}

ProtoUpdateItem ==
    {Implicit(1, "id", "string"), Implicit(2, "action", "int"),
      Optional(3, "data", "ProtoAny"), Optional(4, "version", "int")}

ProtoUpdatesPayload ==
    {Repeated(1, "items", "ProtoUpdateItem"), MapOf(2, "appliedFilters", "UpdatesFiltersEntry")}

ProtoRpcPayload ==
    {Implicit(1, "method", "string"), Implicit(2, "status", "int"),
      Optional(3, "success", "ProtoRpcSuccessPayload"), Optional(4, "error", "ProtoRpcErrorPayload")}

ProtoRpcSuccessPayload == {Optional(1, "data", "ProtoAny")}
ProtoRpcErrorPayload ==
    {Implicit(1, "errorCode", "string"), Optional(2, "errorMessage", "string"),
      Optional(3, "details", "ProtoStruct")}

ProtoBacktestRun ==
    {Implicit(1, "id", "int"), Implicit(2, "backtest_id", "string"), Implicit(3, "source", "string"),
      Implicit(4, "status", "string"), Optional(5, "user_id", "string"),
      Optional(6, "api_client_id", "string"), Optional(12, "started_at", "Date"),
      Optional(13, "finished_at", "Date"), Optional(14, "config", "ProtoStruct"),
      Implicit(15, "total_iterations", "int"), Implicit(16, "total_permutations", "int"),
      Optional(17, "checkpoint", "ProtoStruct"), Optional(18, "failure_details", "ProtoStruct"),
      Optional(19, "created_at", "Date")}

ProtoBacktestMintFullResult ==
    {Implicit(1, "id", "int"), Implicit(2, "strategy_result_id", "int"), Implicit(3, "index", "int"),
      Implicit(4, "mint", "string"), Optional(5, "net_pnl", "double"),
      Optional(6, "holdings_value", "double"), Optional(7, "roi", "double"),
      Optional(8, "exit_code", "string"), Optional(9, "exit_reason", "string"),
      Optional(10, "payload", "ProtoStruct"), Optional(11, "created_at", "Date")}

StrategyResultIdentity ==
    {Implicit(1, "id", "int"), Implicit(2, "backtest_id", "string"),
      Implicit(3, "backtest_run_id", "int"), Implicit(4, "status", "string"),
      Implicit(5, "strategy", "string"), Implicit(6, "strategy_id", "string"),
      Implicit(7, "config_variant", "string"), Optional(8, "config", "ProtoStruct")}

StrategyResultFigures ==
    {Implicit(9, "pnl_sol", "double"), Implicit(10, "holdings_value_sol", "double"),
      Implicit(11, "roi", "double"), Implicit(12, "win_rate", "double"),
      Implicit(13, "wins_count", "double"), Implicit(14, "biggest_win_percentage", "double"),
      Implicit(15, "losses_count", "double"), Implicit(16, "biggest_loss_percentage", "double"),
      Implicit(17, "total_trades_count", "int"), Implicit(18, "buy_trades_count", "int"),
      Implicit(19, "sell_trades_count", "int"), Implicit(20, "highest_peak_sol", "double"),
      Implicit(21, "lowest_trough_sol", "double"), Implicit(22, "max_drawdown_percentage", "double"),
      Implicit(23, "execution_time_seconds", "double")}

ProtoBacktestStrategyFullResult ==
    StrategyResultIdentity \cup StrategyResultFigures \cup {Optional(24, "created_at", "Date")}

ProtoBacktestStrategyResultStatusResponseMessage ==
    {Implicit(1, "strategyResultId", "int"), Implicit(2, "mintIndex", "int"),
      Implicit(3, "pnl", "double"), Implicit(4, "roi", "double"), Implicit(5, "holdingsValue", "double"),
      Implicit(6, "winRate", "double"), Implicit(7, "winsCount", "int"), Implicit(8, "lossesCount", "int"),
      Implicit(9, "totalTradesCount", "int"), Implicit(10, "buyTradesCount", "int"),
      Implicit(11, "sellTradesCount", "int")}

ProtoDeleteBacktestStrategyResultsResponseMessage ==
    {Packed(1, "deletedStrategyResultIds", "int"), Implicit(2, "deletedMintResultsCount", "int")}

ProtoAbortBacktestRunResponseMessage ==
    {Implicit(1, "backtestRunId", "int"), Optional(2, "finishedAt", "Date"),
      Packed(3, "abortedStrategyResultIds", "int")}

ProtoDeleteBacktestRunResponseMessage ==
    {Implicit(1, "backtestRunId", "int"), Packed(2, "deletedStrategyResultIds", "int"),
      Implicit(3, "deletedMintResultsCount", "int")}

ProtoAny       == {Implicit(1, "type_url", "string"), Implicit(2, "value", "bytes")}
ProtoTimestamp == {Implicit(1, "seconds", "int"), Implicit(2, "nanos", "int")}

ProtoStruct    == {MapOf(1, "fields", "ProtoStruct_FieldsEntry")}
ProtoStruct_FieldsEntry == {Implicit(1, "key", "string"), Optional(2, "value", "ProtoValue")}
ProtoValue ==
    {Optional(1, "null_value", "int"), Optional(2, "number_value", "double"),
      Optional(3, "string_value", "string"), Optional(4, "bool_value", "bool"),
      Optional(5, "struct_value", "ProtoStruct"), Optional(6, "list_value", "ProtoListValue")}
ProtoListValue == {Repeated(1, "values", "ProtoValue")}

Messages ==
    [ProtoCursorPaginatedResponse |-> ProtoCursorPaginatedResponse,
     ProtoStringArray |-> ProtoStringArray, ProtoNumberArray |-> ProtoNumberArray,
     ProtoBoolArray |-> ProtoBoolArray, ProtoFilterValue |-> ProtoFilterValue,
     SnapshotFiltersEntry |-> SnapshotFiltersEntry, FetchMoreFiltersEntry |-> FetchMoreFiltersEntry,
     UpdatesFiltersEntry |-> UpdatesFiltersEntry,
     ProtoCursorPaginatedSnapshotPayload |-> ProtoCursorPaginatedSnapshotPayload,
     ProtoFetchMorePayload |-> ProtoFetchMorePayload,
     ProtoFetchResponsePayload |-> ProtoFetchResponsePayload,
     ProtoUpdateItem |-> ProtoUpdateItem, ProtoUpdatesPayload |-> ProtoUpdatesPayload,
     ProtoRpcPayload |-> ProtoRpcPayload, ProtoRpcSuccessPayload |-> ProtoRpcSuccessPayload,
     ProtoRpcErrorPayload |-> ProtoRpcErrorPayload,
     ProtoBacktestRun |-> ProtoBacktestRun,
     ProtoBacktestMintFullResult |-> ProtoBacktestMintFullResult,
     ProtoBacktestStrategyFullResult |-> ProtoBacktestStrategyFullResult,
     ProtoBacktestStrategyResultStatusResponseMessage |-> ProtoBacktestStrategyResultStatusResponseMessage,
     ProtoDeleteBacktestStrategyResultsResponseMessage |-> ProtoDeleteBacktestStrategyResultsResponseMessage,
     ProtoAbortBacktestRunResponseMessage |-> ProtoAbortBacktestRunResponseMessage,
     ProtoDeleteBacktestRunResponseMessage |-> ProtoDeleteBacktestRunResponseMessage,
     ProtoAny |-> ProtoAny, ProtoTimestamp |-> ProtoTimestamp, ProtoStruct |-> ProtoStruct,
     ProtoStruct_FieldsEntry |-> ProtoStruct_FieldsEntry, ProtoValue |-> ProtoValue,
     ProtoListValue |-> ProtoListValue]

\* The tables by the name and by the number of a field.
Named == [m \in DOMAIN Messages |-> [n \in {f.name : f \in Messages[m]} |->
                                        CHOOSE f \in Messages[m] : f.name = n]]
Numbered == [m \in DOMAIN Messages |-> [no \in {f.no : f \in Messages[m]} |->
                                        CHOOSE f \in Messages[m] : f.no = no]]

-----------------------------------------------------------------------------
(* Encoding.                                                               *)

Default(kind) ==
    CASE kind = "string" -> Str("")
      [] kind \in {"int", "double"} -> Num(0)
      [] kind = "bool" -> Bool(FALSE)
      [] kind = "bytes" -> Bytes(<<>>)

\* Entries whose value is undefined are not written.
MapEntries(object) ==
    LET keys == {k \in DOMAIN object[2] : object[2][k] # Undefined}
    IN  FoldSet(LAMBDA k, entries : Append(entries, Obj([key |-> Str(k), value |-> object[2][k]])), <<>>, keys)

\* The values an encoder writes for a field, one tag each.
Written(field, object) ==
    LET value == Get(object, field.name)
    IN  CASE field.label = "implicit" -> IF value = Default(field.kind) THEN <<>> ELSE <<value>>
          [] field.label = "optional" -> IF value = Undefined THEN <<>> ELSE <<value>>
          [] field.label = "repeated" -> value[2]
          [] field.label = "packed"   -> <<value>>
          [] field.label = "map"      -> MapEntries(value)

\* ProtoStruct.wrap and ProtoValue.wrap.
WrapStruct(object) == Obj([fields |-> Obj(OwnEntries(object))])
WrapValue(value) ==
    CASE value = Undefined -> EmptyObject
      [] value = Null -> Obj([null_value |-> Num(0)])
      [] Is("boolean", value) -> Obj([bool_value |-> value])
      [] Is("number", value) -> Obj([number_value |-> value])
      [] value[1] \in {"string", "iso", "json"} -> Obj([string_value |-> value])
      [] Is("list", value) -> Obj([list_value |-> value])
      [] OTHER -> Obj([struct_value |-> value])

toTimestamp(date) == Obj([seconds |-> Num(date[2]), nanos |-> Num(0)])

WireType(field) ==
    CASE field.label = "packed" -> 2
      [] field.label # "packed" /\ field.kind \in {"int", "bool"} -> 0
      [] field.label # "packed" /\ field.kind = "double" -> 1
      [] OTHER -> 2

RECURSIVE Encode(_, _)

\* What a writer makes of one value; a null becomes the text "null", the
\* number 0 or false, an undefined one no text, no number or false.
Content(kind, value) ==
    CASE kind = "string" -> IF value = Null THEN Str("null") ELSE IF value = Undefined THEN Str("") ELSE value
      [] kind = "double" -> IF value = Null THEN Num(0) ELSE IF value = Undefined THEN NaN ELSE value
      [] kind = "bool" -> IF value \in {Null, Undefined} THEN Bool(FALSE) ELSE value
      [] kind \in {"int", "bytes"} -> value
      [] kind = "Date" -> Bytes(Encode("ProtoTimestamp", toTimestamp(value)))
      [] kind = "ProtoStruct" -> Bytes(Encode("ProtoStruct", WrapStruct(value)))
      [] kind = "ProtoValue" -> Bytes(Encode("ProtoValue", WrapValue(value)))
      [] kind = "ProtoListValue" -> Bytes(Encode("ProtoListValue", Obj([values |-> value])))
      [] OTHER -> Bytes(Encode(kind, value))

Encode(message, object) ==
    LET written == [no \in DOMAIN Numbered[message] |-> Written(Numbered[message][no], object)]
    IN  [no \in {no \in DOMAIN written : written[no] # <<>>} |->
            LET field == Numbered[message][no]
            IN  [type |-> WireType(field),
                 contents |-> IF field.label = "packed" THEN written[no]
                              ELSE [i \in DOMAIN written[no] |-> Content(field.kind, written[no][i])]]]

RECURSIVE Throws(_, _)

\* A writer of integers refuses what is no number, toTimestamp what is no
\* Date, Object.keys and the access to a field what is null.
Refuses(kind, value) ==
    CASE kind = "int" -> ~Is("number", value)
      [] kind = "Date" -> ~Is("date", value)
      [] kind = "ProtoStruct" -> value = Null
      [] kind \in {"string", "double", "bool", "bytes", "ProtoValue", "ProtoListValue"} -> FALSE
      [] OTHER -> value \in {Null, Undefined} \/ Throws(kind, value)

Throws(message, object) ==
    \E field \in Messages[message] :
        IF field.label \in {"repeated", "packed"} /\ ~Is("list", Get(object, field.name)) THEN TRUE
        ELSE IF field.label = "packed" THEN \E v \in Range(Get(object, field.name)[2]) : Refuses(field.kind, v)
        ELSE \E v \in Range(Written(field, object)) : Refuses(field.kind, v)

-----------------------------------------------------------------------------
(* Decoding.                                                               *)

fromTimestamp(timestamp) == Date(Get(timestamp, "seconds")[2])

UnwrapValue(message) ==
    LET set == SelectSeq(<<"string_value", "number_value", "bool_value", "struct_value", "list_value">>,
                         LAMBDA n : Get(message, n) # Undefined)
    IN  IF set # <<>> THEN Get(message, set[1])
        ELSE IF Get(message, "null_value") # Undefined THEN Null ELSE Undefined

RECURSIVE Decode(_, _)

Value(kind, content) ==
    CASE kind \in {"string", "double", "bool", "int", "bytes"} -> content
      [] kind = "Date" -> fromTimestamp(Decode("ProtoTimestamp", content[2]))
      [] kind = "ProtoStruct" -> Get(Decode("ProtoStruct", content[2]), "fields")
      [] kind = "ProtoValue" -> UnwrapValue(Decode("ProtoValue", content[2]))
      [] kind = "ProtoListValue" -> Get(Decode("ProtoListValue", content[2]), "values")
      [] OTHER -> Decode(kind, content[2])

\* What is found under a number and a type the table knows; anything else
\* is skipped, and the last of several wins.
ReadField(field, wire) ==
    LET found == IF field.no \in DOMAIN wire /\ wire[field.no].type = WireType(field)
                   THEN wire[field.no].contents ELSE <<>>
        values == [i \in DOMAIN found |-> Value(field.kind, found[i])]
    IN  CASE field.label = "implicit" -> IF found = <<>> THEN Default(field.kind) ELSE Last(values)
          [] field.label = "optional" -> IF found = <<>> THEN Undefined ELSE Last(values)
          [] field.label = "repeated" -> Lst(values)
          [] field.label = "packed" -> Lst(FoldLeft(LAMBDA all, v : all \o v[2], <<>>, found))
          [] field.label = "map" ->
                LET entries == {e \in Range(values) : Get(e, "value") # Undefined}
                    keys == {Get(e, "key")[2] : e \in entries}
                IN  Obj([k \in keys |-> Get(CHOOSE e \in entries : Get(e, "key")[2] = k, "value")])

Decode(message, wire) ==
    Obj([n \in DOMAIN Named[message] |-> ReadField(Named[message][n], wire)])

-----------------------------------------------------------------------------
(* What a reader should find of an object, stated without the coding:      *)
(* every field of the table, a null and an undefined one alike.            *)

RECURSIVE Meant(_, _)
MeantValue(kind, value) ==
    IF value \in {Undefined, Null} THEN Undefined
    ELSE IF kind \in DOMAIN Messages /\ kind # "ProtoStruct" THEN Meant(kind, value) ELSE value

Meant(message, object) ==
    Obj([n \in DOMAIN Named[message] |->
            LET field == Named[message][n]
                value == Get(object, n)
            IN  CASE field.label \in {"implicit", "packed", "map"} -> value
                  [] field.label = "optional" -> MeantValue(field.kind, value)
                  [] field.label = "repeated" -> Lst([i \in DOMAIN value[2] |-> MeantValue(field.kind, value[2][i])])])
=============================================================================
