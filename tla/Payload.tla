------------------------------ MODULE Payload -------------------------------
(***************************************************************************)
(* The decrypted request and its checks (common/payload.ts).               *)
(*                                                                         *)
(* A payload is a record.  A text is the word that its lower case is,      *)
(* whether it is written in capitals, and its length; a header's value is  *)
(* the set of words between its commas, whether all its characters may be  *)
(* sent, and its length; NotScalar is any other value.  Body and Parameter *)
(* are what JSON.parse makes of them: how deep they nest, and which        *)
(* entries they have.  Nonce and Timestamp are their types.                *)
(*                                                                         *)
(*   object     whether the whole is an object at all                      *)
(*   Header     shape "none", "other", "array" or "object"; entries        *)
(*              (one for an object), each of kind "map" with fields, or    *)
(*              "pair" with own properties Key and Value, or "half" with   *)
(*              one of the two, or "other"                                 *)
(*   Body       kind "none", "empty" (null or ""), "text" (parses or not), *)
(*              or "value"; depth                                          *)
(*   Parameter  kind "none", "text" (parsed: "record", "value", "no"),     *)
(*              "object" or "other"; fields: name and items                *)
(*   Nonce, Timestamp   "none", "text", "number" or "other"                *)
(***************************************************************************)
EXTENDS Naturals, Sequences, SequencesExt, Settings

CONSTANTS NotScalar, NullItem,
          MaxEntries,   \* 100
          MaxName,      \* 256
          MaxValue,     \* 8192
          MaxDepth      \* 32

ASSUME LimitsAssumption == {MaxEntries, MaxName, MaxValue, MaxDepth} \subseteq Nat

IsScalar(value) == value # NotScalar

EntryFits(name, value) ==
    name.length <= MaxName /\ IsScalar(value) /\ value.length <= MaxValue

\* validateHeaderMap.
MapFits(fields) ==
    Len(fields) <= MaxEntries /\ \A i \in DOMAIN fields : EntryFits(fields[i].key, fields[i].value)

\* What Object.entries gives for an object that has both Key and Value.
AsFields(entry) ==
    IF entry.kind = "pair"
    THEN <<[key |-> [word |-> "key", caps |-> FALSE, length |-> 1], value |-> entry.key],
           [key |-> [word |-> "value", caps |-> FALSE, length |-> 1], value |-> entry.value]>>
    ELSE entry.fields

ArrayEntryFits(entry) ==
    CASE entry.kind = "pair" -> EntryFits(entry.key, entry.value)
      [] entry.kind = "map"  -> MapFits(entry.fields)
      [] OTHER               -> FALSE

HeaderFits(header) ==
    CASE header.shape = "other"  -> FALSE
      [] header.shape = "array"  ->
            /\ Len(header.entries) <= MaxEntries
            /\ \A i \in DOMAIN header.entries : ArrayEntryFits(header.entries[i])
      [] header.shape = "object" -> MapFits(AsFields(header.entries[1]))
      [] OTHER                   -> TRUE

\* validateParameters: each item null, or a scalar that is not too long.
ParametersFit(fields) ==
    /\ Len(fields) <= MaxEntries
    /\ \A i \in DOMAIN fields :
          /\ fields[i].name.length <= MaxName
          /\ Len(fields[i].items) <= MaxEntries
          /\ \A j \in DOMAIN fields[i].items :
                LET item == fields[i].items[j]
                IN  item = NullItem \/ (IsScalar(item) /\ item.length <= MaxValue)

ParameterFits(parameter) ==
    CASE parameter.kind = "other"  -> FALSE
      [] parameter.kind = "object" -> ParametersFit(parameter.fields)
      [] OTHER                     -> TRUE

\* validateJsonDepth.
DepthFits(depth) == depth <= MaxDepth

\* normalizeRequestBody does not throw: a text is parsed first, and one that is
\* not JSON is a flat body.
BodyFits(body) ==
    body.kind = "value" \/ (body.kind = "text" /\ body.parses) => DepthFits(body.depth)

\* A payload, as far as its shapes go.
IsPayload(p) ==
    LET entries == p.header.entries
    IN  /\ entries \in Seq({entries[i] : i \in DOMAIN entries})
        /\ \A i \in DOMAIN entries :
              /\ entries[i].kind \in {"pair", "map", "half", "other"}
              /\ entries[i].kind = "map" =>
                    LET fields == entries[i].fields
                    IN  fields \in Seq({fields[j] : j \in DOMAIN fields})
        /\ p.header.shape \in {"none", "other", "array", "object"}
        /\ p.header.shape \in {"none", "other"} => entries = <<>>
        /\ p.header.shape = "object" => Len(entries) = 1
        /\ p.body.kind \in {"none", "empty", "text", "value"}

\* parsePayload.
PayloadFits(p) ==
    /\ p.object
    /\ p.url # Empty /\ p.method # NotScalar
    /\ HeaderFits(p.header)
    /\ ParameterFits(p.parameter)
    /\ BodyFits(p.body)
    /\ p.nonce \in {"none", "text"}
    /\ p.timestamp \in {"none", "text", "number"}
=============================================================================
