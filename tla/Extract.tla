------------------------------- MODULE Extract -------------------------------
(***************************************************************************)
(* The walk of gateway/extract.py over a JSON payload. A payload is a       *)
(* function from the paths of its strings to their texts; a path is a       *)
(* sequence of keys and list indices. The nested loops and type tests of    *)
(* extract_text are read as an automaton over the path: each collect_*      *)
(* function is a state, the branch it takes for a member is a transition,   *)
(* and a string is collected where the walk would append it.                *)
(***************************************************************************)
EXTENDS Sequences, SequencesExt

Index == {"#1", "#2"}   \* list indices; every other segment is a key

SchemaTextKeys == {"description", "default", "const", "title"}
SchemaListKeys == {"enum", "examples"}

\* Where a named member of an object leads; a member that is not named is skipped.
Members ==
    [Payload |-> [system |-> "content", messages |-> "messages",
                  tools |-> "tools", input |-> "input"],
     message |-> [content |-> "content", tool_calls |-> "toolCalls", tool_result |-> "leaf"],
     block |-> [text |-> "leaf", input |-> "object", content |-> "content"],
     call |-> [function |-> "callFunction", input |-> "object"],
     callFunction |-> [arguments |-> "leaf"],
     tool |-> [description |-> "leaf", input_schema |-> "schema", function |-> "toolFunction"],
     toolFunction |-> [description |-> "leaf", parameters |-> "schema"]]

Elements ==
    [content |-> "block", messages |-> "message", toolCalls |-> "call",
     tools |-> "tool", input |-> "leaf"]

\* collect_schema: a text key is collected when it holds a string, a list key gives
\* the strings directly in its list, and everything else is searched as a schema.
SchemaMember(state, seg) ==
    CASE seg \in Index -> IF state = "schemaList" THEN "leaf" ELSE "schema"
      [] seg \in SchemaTextKeys -> "schemaText"
      [] seg \in SchemaListKeys -> "schemaList"
      [] OTHER -> "schema"

Descend(state, seg) ==
    CASE state \in {"object", "json"} -> "json"
      [] state \in {"schema", "schemaText", "schemaList"} -> SchemaMember(state, seg)
      [] state \in DOMAIN Elements /\ seg \in Index -> Elements[state]
      [] state \in DOMAIN Members /\ seg \in DOMAIN Members[state] -> Members[state][seg]
      [] OTHER -> "skipped"

\* The states in which a string is collected. The top of a tool input and of a
\* schema is searched only when it is an object or a list.
Collected == {"content", "leaf", "json", "schemaText", "input"}

ExtractText(payload) ==
    {path \in DOMAIN payload : FoldLeft(Descend, "Payload", path) \in Collected}

\* texts: what the transform makes of each text.
ReplaceText(payload, texts) ==
    [path \in DOMAIN payload |->
        IF path \in ExtractText(payload) THEN texts[path] ELSE payload[path]]

=============================================================================
