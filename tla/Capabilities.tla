---------------------------- MODULE Capabilities ----------------------------
(***************************************************************************)
(* What the client takes a capability, or a model it knows only by its id, *)
(* to be: core.resolve_capabilities and planner.infer_model_metadata.      *)
(* Context windows are in units of 1024 tokens, scores in thousandths.     *)
(***************************************************************************)
EXTENDS Integers, Sequences

CONSTANTS
    PatternsIn,   \* of each model id, the patterns below its lower-case form contains
    PartsOf       \* of each model id, the model ids it contains, itself included

\* CAPABILITY_ALIASES, by capability; a capability is an alias of itself.
CapabilityAliases ==
    [streaming        |-> {"streaming", "stream"},
     tools            |-> {"tools", "tool", "tool_calling"},
     function_calling |-> {"function_calling", "functions"},
     vision           |-> {"vision", "image", "multimodal"},
     json_mode        |-> {"json", "json_mode", "json_object"},
     json_schema      |-> {"json_schema", "structured"},
     long_context     |-> {"long_context", "long", "large_context"},
     reasoning        |-> {"reasoning", "think", "thinking"}]

AllCapabilities == DOMAIN CapabilityAliases

\* resolve_capabilities() raises ValidationError for a name it does not know.
Resolvable(names) == \A n \in names : \E c \in AllCapabilities : n \in CapabilityAliases[c]
resolve_capabilities(names) == {c \in AllCapabilities : CapabilityAliases[c] \cap names # {}}

\* _CAPABILITY_PATTERNS: what each pattern adds; streaming comes with every model.
CapabilityPatterns ==
    { <<"vision", {"vision"}>>, <<"vl", {"vision"}>>, <<"multimodal", {"vision"}>>,
      <<"gemini", {"vision", "json_mode"}>>, <<"gpt-4", {"vision", "tools", "json_mode"}>>,
      <<"llama-3", {"tools", "function_calling"}>>, <<"llama3", {"tools", "function_calling"}>>,
      <<"mixtral", {"tools", "function_calling"}>>, <<"qwen", {"tools", "json_mode"}>>,
      <<"command-r", {"tools", "function_calling"}>>, <<"json", {"json_mode"}>> }

infer_capabilities(id) ==
    {"streaming"} \cup UNION {rule[2] : rule \in {r \in CapabilityPatterns : r[1] \in PatternsIn[id]}}

\* _CONTEXT_PATTERNS, in order: the first that fits decides.
ContextPatterns ==
    << <<"gemini", 1024>>, <<"1m", 1024>>, <<"128k", 128>>,
       <<"llama-3.3", 128>>, <<"llama3.3", 128>>, <<"llama-3.1", 128>>, <<"llama3.1", 128>>,
       <<"llama-3.2", 128>>, <<"llama3.2", 128>>, <<"mixtral", 32>>, <<"qwen", 32>>,
       <<"8b", 8>>, <<"7b", 8>>, <<"3b", 4>>, <<"1b", 2>> >>

infer_context_tokens(id) ==
    LET fitting == SelectSeq(ContextPatterns, LAMBDA rule : rule[1] \in PatternsIn[id])
    IN  IF fitting = <<>> THEN 8 ELSE Head(fitting)[2]

\* By the size in the id, largest first, then by family.
QualityPatterns ==
    << <<{"70b", "72b", "405b"}, 800>>, <<{"32b", "34b", "35b"}, 700>>,
       <<{"13b", "14b", "8b", "7b"}, 600>>, <<{"3b", "1b", "0.5b"}, 400>>,
       <<{"gemini", "gpt-4"}, 750>> >>

infer_quality_score(id) ==
    LET fitting == SelectSeq(QualityPatterns, LAMBDA rule : rule[1] \cap PatternsIn[id] # {})
    IN  IF fitting = <<>> THEN 500 ELSE Head(fitting)[2]

\* The model as Planner reads it.
infer_model_metadata(id) ==
    [id |-> id, parts |-> PartsOf[id], caps |-> infer_capabilities(id),
     context |-> infer_context_tokens(id), quality |-> infer_quality_score(id),
     latency |-> 800, input |-> 0, output |-> 0]
=============================================================================
