---------------------------- MODULE MCCatalogue ----------------------------
(***************************************************************************)
(* Environments, plugins and calls for checking Catalogue.                 *)
(*                                                                         *)
(* Providers: 1 cerebras, 2 cloudflare, 3 google, 4 groq, 5 my-provider,   *)
(* 6 ollama, 7 sambanova, 8 bare.                                          *)
(* Models: 1 @cf/meta/llama-3.1-8b-instruct, 2 Meta-Llama-3.3-70B-Instruct,*)
(* 3 gemini-2.0-flash, 4 gemini-2.0-flash-lite, 5 llama-3.1-8b-instant,    *)
(* 6 llama-3.2-11b-vision-preview, 7 llama-3.3-70b,                        *)
(* 8 llama-3.3-70b-versatile, 9 llama3.2, 10 my-model, 11 qwen-2.5-72b.    *)
(***************************************************************************)
EXTENDS Catalogue

MCPatternsIn ==
    [id \in 1 .. 11 |-> CASE id = 6 -> {"vision", "llama-3", "llama-3.2", "1b"}
                          [] id = 11 -> {"qwen", "72b"}
                          [] OTHER -> {}]

MCPartsOf == [id \in 1 .. 11 |-> {id}]

Set(key, value) == [key |-> key, value |-> value]

PolicyPlugin(name, class, sound) == [group |-> "policies", name |-> name, class |-> class, sound |-> sound]

\* Groq's key alone; a policy plugin that cannot be loaded comes first, then two
\* for the same name, and a provider plugin.
GroqAlone ==
    [lines |-> << Noise, Set("GROQ", "secret") >>, environ |-> <<>>, plugins |-> TRUE,
     entry_points |-> << PolicyPlugin("green", "cheapest", FALSE), PolicyPlugin("green", "quality", TRUE),
                         [group |-> "providers", name |-> "mine", class |-> None, sound |-> TRUE],
                         PolicyPlugin("green", "fastest", TRUE) >>]

\* Google, and Cloudflare without an account.
NoAccount ==
    [lines |-> << Set("GOOGLE", "secret"), Set("CLOUDFLARE", "secret"), Set("CF_ACCOUNT_ID", "placeholder") >>,
     environ |-> <<>>, plugins |-> FALSE, entry_points |-> <<>>]

\* Cloudflare and Google, by way of os.environ and of a key set twice.
Both ==
    [lines |-> << Set("GOOGLE", "placeholder"), Set("CLOUDFLARE", ""), Set("CF_ACCOUNT_ID", "secret"),
                  Set("GOOGLE", "secret") >>,
     environ |-> [CLOUDFLARE |-> "secret", SAMBANOVA |-> "secret"], plugins |-> FALSE, entry_points |-> <<>>]

\* Nothing: os.environ empties the key; a plugin takes the name of a built-in policy.
Emptied ==
    [lines |-> << Set("GROQ", "secret") >>, environ |-> [GROQ |-> ""], plugins |-> TRUE,
     entry_points |-> << PolicyPlugin("best", "quality", TRUE) >>]

\* A policy plugin that loads, but cannot make its policy.
Unmakeable ==
    [lines |-> << Set("GROQ", "secret") >>, environ |-> <<>>, plugins |-> TRUE,
     entry_points |-> << PolicyPlugin("green", None, TRUE), PolicyPlugin("blue", "quality", TRUE) >>]

MCStarts == {GroqAlone, NoAccount, Both, Emptied, Unmakeable}

Mine == Provider(5, {"MINE"}, 0, Unset, {"streaming"},
                 << [Model(10, {10}, {"streaming", "reasoning"}, 32, 850, 600) EXCEPT !.input = 2] >>)

\* A provider without an address.
Bare == Provider(8, {"BARE"}, 0, Unset, {"streaming"}, << Model(10, {10}, {"streaming"}, 32, 500, 500) >>)

MCMoreProviders == {Mine, groq, Bare}
MCNoAddress == {Bare}

MCListings == { <<>>, <<8, 6>>, <<11, 11>> }

Wish(capabilities, tokens, model, policy) ==
    [capabilities |-> capabilities, tokens |-> tokens, model |-> model, policy |-> policy]

MCWishes ==
    { Wish({}, 1, Unset, None), Wish({}, 1, Unset, "green"), Wish({"multimodal", "vision"}, 16, 6, "best"),
      Wish({"telepathy"}, 1, Unset, None), Wish({"think"}, 1, Unset, "cheapest") }

\* The threads only differ in name.
Interchangeable == Permutations(Threads)

MCNewPolicies == { <<"default", "quality">> }
=============================================================================
