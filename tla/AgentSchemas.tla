------------------------------ MODULE AgentSchemas ------------------------------
(* The schemas that the generated server advertises for its agents, the      *)
(* validator of JSON values against them, and the handlers that use both     *)
(* (pkg/server/schema_validation.go, auto_handlers.go).                      *)
(* A value is [kind, text], text being what fmt.Sprint makes of it, with     *)
(* fields if it is an object, items if an array, halves if a number. A       *)
(* schema is a function from the keywords it uses.                           *)
EXTENDS Integers, Sequences, SequencesExt, FiniteSets, TLC

CONSTANTS
    AgentTypes,     \* what "type" the metadata of the agent may have
    Schemas,        \* schemas the validator may be given
    Values,         \* values it may be given, the bodies of requests among them
    Results,        \* what a run may give: [structured, metadata, text]
    Nothing         \* no value

VARIABLES
    agentType,      \* the agent's
    handler,        \* "none", or what is under way: "checked", "validated", "executing", "executed"
    schema, value,  \* what was validated, or the body of the request
    errors,         \* what the validator said
    given,          \* the input the agent was run with
    result, answer  \* what the run gave and the handler answered: [output, schemaValid]

vars == <<agentType, handler, schema, value, errors, given, result, answer>>

Init ==
    /\ agentType \in AgentTypes /\ handler = "none" /\ schema = <<>> /\ value = Nothing
    /\ errors = {} /\ given = Nothing /\ result = Nothing /\ answer = Nothing

-------------------------------------------------------------------------------
(* validateValue and validateObject. An error is the path to the value and   *)
(* what is wrong with it.                                                    *)
Has(s, keyword) == keyword \in DOMAIN s
Kind(s) == IF Has(s, "type") THEN s.type ELSE ""
Wrong(path, what, is) == IF is THEN {<<path, what>>} ELSE {}

EnumErrors(s, v, path) ==
    Wrong(path, "enum", Has(s, "enum") /\ s.enum # {} /\ \A candidate \in s.enum : candidate.text # v.text)

(* Go's len: a letter takes one byte, a wide one two.                        *)
Wide == {"wide"}
Bytes(text) == Len(text) + Len(SelectSeq(text, LAMBDA letter : letter \in Wide))

StringErrors(s, v, path) ==
    Wrong(path, "short", Has(s, "minLength") /\ Bytes(v.text) < s.minLength)
    \union Wrong(path, "long", Has(s, "maxLength") /\ Bytes(v.text) > s.maxLength)

NumberErrors(s, v, path) ==
    Wrong(path, "fraction", s.type = "integer" /\ v.halves % 2 # 0)
    \union Wrong(path, "small", Has(s, "minimum") /\ v.halves < 2 * s.minimum)
    \union Wrong(path, "large", Has(s, "maximum") /\ v.halves > 2 * s.maximum)

Bug_OnlyNonempty(s, v) == {key \in s.required : key \notin DOMAIN v.fields \/ v.fields[key].text = <<>>}

Missing(s, v) == s.required \ DOMAIN v.fields

RECURSIVE ValidateValue(_, _, _)

(* Fields are looked at only if the schema declares some.                    *)
ValidateObject(s, v, path) ==
    (IF Has(s, "required") THEN {<<Append(path, key), "required">> : key \in Missing(s, v)} ELSE {})
    \union
    (IF ~Has(s, "properties") \/ s.properties = <<>> THEN {}
     ELSE UNION {IF key \in DOMAIN s.properties THEN ValidateValue(s.properties[key], v.fields[key], Append(path, key))
                 ELSE Wrong(Append(path, key), "not allowed", Has(s, "additionalProperties") /\ ~s.additionalProperties) :
                    key \in DOMAIN v.fields})

ValidateValue(s, v, path) ==
    EnumErrors(s, v, path) \union
    CASE Kind(s) = "object" /\ v.kind # "object"   -> {<<path, "object">>}
      [] Kind(s) = "object" /\ v.kind = "object"   -> ValidateObject(s, v, path)
      [] Kind(s) = "array" /\ v.kind # "array"     -> {<<path, "array">>}
      [] Kind(s) = "array" /\ v.kind = "array"     ->
            IF Has(s, "items") THEN UNION {ValidateValue(s.items, v.items[i], Append(path, i)) : i \in DOMAIN v.items} ELSE {}
      [] Kind(s) = "string"                        -> IF v.kind # "string" THEN {<<path, "string">>} ELSE StringErrors(s, v, path)
      [] Kind(s) \in {"number", "integer"}         -> IF v.kind # "number" THEN {<<path, "number">>} ELSE NumberErrors(s, v, path)
      [] Kind(s) = "boolean"                       -> Wrong(path, "boolean", v.kind # "boolean")
      [] Kind(s) = ""                              -> IF v.kind = "object" THEN ValidateObject(s, v, path) ELSE {}
      [] OTHER                                     -> {}

(* validateAgainstSchema: the empty schema refuses nothing.                  *)
ValidateAgainstSchema(s, v) == IF s = <<>> THEN {} ELSE ValidateValue(s, v, <<>>)

-------------------------------------------------------------------------------
(* generateAgentSchema. The bound of a message is 1000 letters there.        *)
MaxMessage == 2
OfType(type) == "type" :> type
ObjectOf(properties, required) == OfType("object") @@ ("properties" :> properties) @@ ("required" :> required)
Message == OfType("string") @@ ("minLength" :> 1) @@ ("maxLength" :> MaxMessage)
History == OfType("array") @@ ("items" :> (OfType("object") @@ ("properties" :> ("role" :> OfType("string") @@ "content" :> OfType("string")))))

GenerateAgentSchema(type) ==
    [input  |-> ObjectOf(("message" :> Message) @@ (IF type = "chat" THEN "conversation_history" :> History ELSE <<>>), {"message"}),
     output |-> ObjectOf(("response" :> OfType("string")) @@
                         (IF type = "react" THEN "tool_calls" :> (OfType("array") @@ ("items" :> OfType("object"))) ELSE <<>>), {"response"})]

-------------------------------------------------------------------------------
(* The validator as a library.                                               *)
Check(s, v) ==
    /\ handler = "none"
    /\ handler' = "checked" /\ schema' = s /\ value' = v /\ errors' = ValidateAgainstSchema(s, v)
    /\ UNCHANGED <<agentType, given, result, answer>>

(* A body is decoded into a map if it is an object, and into none, which is  *)
(* an empty object to all that follows, if it is null.                       *)
Decodes(body) == body.kind \in {"object", "null"}
Decoded(body) == IF body.kind = "object" THEN body ELSE [kind |-> "object", text |-> <<>>, fields |-> <<>>]

HandleValidateSchema(section, body) ==
    /\ handler = "none" /\ Decodes(body)
    /\ handler' = "validated" /\ schema' = GenerateAgentSchema(agentType)[section] /\ value' = body
    /\ errors' = ValidateAgainstSchema(schema', Decoded(body))
    /\ UNCHANGED <<agentType, given, result, answer>>

TextOf(body, key) == IF key \in DOMAIN body.fields /\ body.fields[key].kind = "string" THEN {body.fields[key].text} ELSE {}

Bug_InputFirst(body) == IF TextOf(body, "input") # {} THEN TextOf(body, "input") ELSE TextOf(body, "message")

(* The message, or else the input, or else the whole body as JSON.           *)
Preferred(body) == IF TextOf(body, "message") # {} THEN TextOf(body, "message") ELSE TextOf(body, "input")
InputOf(body) == IF Preferred(body) = {} THEN <<"json">> ELSE CHOOSE text \in Preferred(body) : TRUE

(* createAgentHandler; nobody validates the input. A client may have asked   *)
(* the validator about the same body before.                                 *)
Execute(body) ==
    /\ handler \in {"none", "validated"} /\ Decodes(body)
    /\ handler = "validated" => body = value
    /\ handler' = "executing" /\ value' = body /\ given' = InputOf(Decoded(body))
    /\ UNCHANGED <<agentType, schema, errors, result, answer>>

Bug_TextFirst(r) == IF r.text.text # <<>> THEN r.text ELSE r.structured

(* What is structured is preferred to the text.                              *)
OutputOf(r) == IF r.structured # Nothing THEN r.structured ELSE IF r.metadata # Nothing THEN r.metadata ELSE r.text

SchemaValid(output) ==
    output.kind = "object" => ValidateAgainstSchema(GenerateAgentSchema(agentType).output, output) = {}

(* A run that fails is answered with its error.                              *)
RunEnds(r) ==
    /\ handler = "executing" /\ handler' = "executed" /\ result' = r
    /\ answer' = IF r = Nothing THEN Nothing ELSE [output |-> OutputOf(r), schemaValid |-> SchemaValid(OutputOf(r))]
    /\ UNCHANGED <<agentType, schema, value, errors, given>>

Next ==
    \/ \E s \in Schemas, v \in Values : Check(s, v)
    \/ \E section \in {"input", "output"}, v \in Values : HandleValidateSchema(section, v)
    \/ \E v \in Values : Execute(v)
    \/ \E r \in Results \union {Nothing} : RunEnds(r)

-------------------------------------------------------------------------------
(* What JSON Schema means by the keywords of that subset: each says what it  *)
(* says about values of its kind, whatever else the schema has.              *)
LengthFits(s, length) ==
    /\ Has(s, "minLength") => length >= s.minLength
    /\ Has(s, "maxLength") => length <= s.maxLength

RECURSIVE Satisfies(_, _)
Satisfies(s, v) ==
    /\ Kind(s) \in {"", v.kind} \/ (Kind(s) = "integer" /\ v.kind = "number" /\ v.halves % 2 = 0)
    /\ Has(s, "enum") => v \in s.enum
    /\ v.kind = "string" => LengthFits(s, Len(v.text))
    /\ v.kind = "number" =>
          /\ Has(s, "minimum") => v.halves >= 2 * s.minimum
          /\ Has(s, "maximum") => v.halves <= 2 * s.maximum
    /\ v.kind = "array" /\ Has(s, "items") => \A i \in DOMAIN v.items : Satisfies(s.items, v.items[i])
    /\ v.kind = "object" =>
          LET declared == IF Has(s, "properties") THEN s.properties ELSE <<>> IN
          /\ Has(s, "required") => s.required \subseteq DOMAIN v.fields
          /\ \A key \in DOMAIN v.fields : IF key \in DOMAIN declared THEN Satisfies(declared[key], v.fields[key])
                                          ELSE Has(s, "additionalProperties") => s.additionalProperties

(* What the validator cannot see: types it does not know, keywords without   *)
(* the type they are about, additionalProperties without properties, and     *)
(* values that print alike.                                                  *)
RECURSIVE Understood(_, _)
Understood(s, v) ==
    /\ Kind(s) \in {"", "object", "array", "string", "number", "integer", "boolean"}
    /\ DOMAIN s \ {"type"} \subseteq {"enum"} \union
          CASE Kind(s) \in {"", "object"} -> {"properties", "required", "additionalProperties"}
            [] Kind(s) = "array" -> {"items"}
            [] Kind(s) = "string" -> {"minLength", "maxLength"}
            [] Kind(s) \in {"number", "integer"} -> {"minimum", "maximum"}
            [] OTHER -> {}
    /\ Has(s, "additionalProperties") => Has(s, "properties") /\ s.properties # <<>>
    /\ Has(s, "enum") => \A e \in s.enum : e.text = v.text => e = v
    /\ Has(s, "properties") /\ v.kind = "object" =>
          \A key \in DOMAIN v.fields \intersect DOMAIN s.properties : Understood(s.properties[key], v.fields[key])
    /\ Has(s, "items") /\ v.kind = "array" => \A i \in DOMAIN v.items : Understood(s.items, v.items[i])

(* There is a text whose length fits in characters and not in bytes, or the  *)
(* other way round.                                                          *)
RECURSIVE Miscounted(_, _)
Miscounted(s, v) ==
    CASE v.kind = "string" -> Kind(s) = "string" /\ LengthFits(s, Len(v.text)) # LengthFits(s, Bytes(v.text))
      [] v.kind = "array"  -> Has(s, "items") /\ \E i \in DOMAIN v.items : Miscounted(s.items, v.items[i])
      [] v.kind = "object" -> Has(s, "properties") /\ \E key \in DOMAIN v.fields \intersect DOMAIN s.properties :
                                  Miscounted(s.properties[key], v.fields[key])
      [] OTHER -> FALSE

(* A value is refused only if it breaks the schema, so that "a richer schema *)
(* is never reported invalid"; and one that breaks it is refused unless the  *)
(* validator cannot see why. What the server generates it can see through.   *)
(* The code breaks both halves, and its own messages ("at most %d            *)
(* characters"), where bytes and characters fall on different sides of a     *)
(* bound, and nowhere else; the server then refuses a message that is short  *)
(* enough, and never takes one that is too long.                             *)
ValidatorIsRight ==
    handler \in {"checked", "validated"} =>
        /\ errors # {} => ~Satisfies(schema, value) \/ Miscounted(schema, value)
        /\ errors = {} /\ Understood(schema, value) => Satisfies(schema, value) \/ Miscounted(schema, value)
        /\ handler = "validated" =>
              /\ Understood(schema, value)
              /\ Miscounted(schema, value) => errors # {}

(* A body that /validate called valid runs the agent with its message; and   *)
(* an output the answer calls valid is of the advertised schema, or is no    *)
(* object: a text is not validated.                                          *)
AnswersAreTrue ==
    /\ handler = "executing" /\ schema = GenerateAgentSchema(agentType).input /\ errors = {}
          => given = value.fields["message"].text
    /\ handler = "executed" /\ result # Nothing =>
          LET breaks == ~Satisfies(GenerateAgentSchema(agentType).output, answer.output) IN
          /\ answer.schemaValid <=> answer.output.kind # "object" \/ ~breaks
          /\ answer.output.kind # "object" => result.structured = Nothing \/ result.structured = answer.output

(* Schemas say what agents take and give. *)
SchemasAreHonest == ValidatorIsRight /\ AnswersAreTrue
===============================================================================
