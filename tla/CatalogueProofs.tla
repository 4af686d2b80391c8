--------------------------- MODULE CatalogueProofs ---------------------------
(***************************************************************************)
(* A client from from_env() on, for any number of threads and calls, any   *)
(* environments, entry points, providers to add and listings to find: no   *)
(* model is repeated, none is lost but to a refresh that overlapped, the   *)
(* planner follows the client's list, who is listed can be called or was   *)
(* refused, and a refresh that no call overlaps succeeds.                  *)
(*                                                                         *)
(* Typed says what each place of a call knows of itself and of the list.   *)
(* Each step is then judged by what it makes of the one call that takes it *)
(* (its Effect lemma) and by Apart: it leaves the other calls as they are, *)
(* but for the history of who was alone.                                   *)
(***************************************************************************)
EXTENDS Catalogue, ListsProofs

\* The providers a client may be given, and what refreshes may make of them.
Given == Range(default_providers) \cup MoreProviders

Inferred == {infer_model_metadata(id) : id \in Nat}

Models == (UNION {Range(p.models) : p \in Given}) \cup Inferred

AllProviders ==
    [name : {p.name : p \in Given}, keys : {p.keys : p \in Given},
     priority : {p.priority : p \in Given}, limit : {p.limit : p \in Given},
     caps : {p.caps : p \in Given}, models : Seq(Models)]

\* A provider as config.py writes one down, and the models listed with it.
Entered(p) ==
    /\ p = Provider(p.name, p.keys, p.priority, p.limit, p.caps, p.models)
    /\ p.models \in Seq(Range(p.models)) /\ DistinctIds(p.models)

LEMMA ProviderFields ==
    \A n, keys, pr, li, c, ms :
        ms \in Seq(Range(ms)) /\ DistinctIds(ms) =>
            Entered(Provider(n, keys, pr, li, c, ms)) /\ Provider(n, keys, pr, li, c, ms).name = n
<1> SUFFICES ASSUME NEW n, NEW keys, NEW pr, NEW li, NEW c, NEW ms, ms \in Seq(Range(ms)), DistinctIds(ms)
             PROVE  Entered(Provider(n, keys, pr, li, c, ms)) /\ Provider(n, keys, pr, li, c, ms).name = n
  OBVIOUS
<1> DEFINE p == Provider(n, keys, pr, li, c, ms)
<1>1. p.models = ms /\ p.name = n /\ p = Provider(p.name, p.keys, p.priority, p.limit, p.caps, p.models)
  BY DEF Provider
<1> HIDE DEF p
<1>2. Entered(p)
  BY <1>1 DEF Entered
<1> QED BY <1>1, <1>2, Zenon DEF p

\* Each provider of the table, with one model or two of different ids.
LEMMA EntriesAreSound ==
    /\ Entered(groq) /\ Entered(google) /\ Entered(cloudflare)
    /\ Entered(cerebras) /\ Entered(sambanova) /\ Entered(ollama)
    /\ groq.name = 4 /\ google.name = 3 /\ cloudflare.name = 2
    /\ cerebras.name = 1 /\ sambanova.name = 7 /\ ollama.name = 6
<1>1. ASSUME NEW m PROVE <<m>> \in Seq(Range(<<m>>)) /\ DistinctIds(<<m>>)
  BY DEF Range, DistinctIds
<1>2. ASSUME NEW m, NEW w, m.id # w.id PROVE <<m, w>> \in Seq(Range(<<m, w>>)) /\ DistinctIds(<<m, w>>)
  <2>1. <<m, w>> \in Seq(Range(<<m, w>>))
    BY DEF Range
  <2> QED BY <2>1, <1>2 DEF DistinctIds
<1>3. \A i, pa, ca, co, qu, la : Model(i, pa, ca, co, qu, la).id = i
  BY DEF Model
<1>4. Entered(groq) /\ groq.name = 4
  <2> DEFINE m == Model(8, {7, 8}, {"streaming", "tools", "function_calling"}, 128, 800, 950)
             w == Model(5, {5}, {"streaming", "tools", "function_calling"}, 128, 600, 980)
             ms == <<m, w>>
  <2>1. m.id = 8 /\ w.id = 5
    BY <1>3
  <2>2. groq = Provider(4, {"GROQ"}, 0, 1000, {"streaming", "tools"}, ms)
    BY DEF groq
  <2> HIDE DEF m, w
  <2>3. ms \in Seq(Range(ms)) /\ DistinctIds(ms)
    BY <1>2, <2>1
  <2> HIDE DEF ms
  <2> QED BY <2>2, <2>3, ProviderFields
<1>5. Entered(google) /\ google.name = 3
  <2> DEFINE m == Model(3, {3}, {"streaming", "vision", "json_mode", "tools"}, 1024, 750, 800)
             w == Model(4, {3, 4}, {"streaming", "vision", "json_mode"}, 1024, 650, 850)
             ms == <<m, w>>
  <2>1. m.id = 3 /\ w.id = 4
    BY <1>3
  <2>2. google = Provider(3, {"GOOGLE"}, 1, 1500, {"streaming", "vision", "json_mode"}, ms)
    BY DEF google
  <2> HIDE DEF m, w
  <2>3. ms \in Seq(Range(ms)) /\ DistinctIds(ms)
    BY <1>2, <2>1
  <2> HIDE DEF ms
  <2> QED BY <2>2, <2>3, ProviderFields
<1>6. Entered(cloudflare) /\ cloudflare.name = 2
  <2> DEFINE m == Model(1, {1}, {"streaming"}, 8, 550, 700)
             ms == <<m>>
  <2>2. cloudflare = Provider(2, {"CLOUDFLARE", "CF_ACCOUNT_ID"}, 2, 10000, {"streaming"}, ms)
    BY DEF cloudflare
  <2> HIDE DEF m
  <2>3. ms \in Seq(Range(ms)) /\ DistinctIds(ms)
    BY <1>1
  <2> HIDE DEF ms
  <2> QED BY <2>2, <2>3, ProviderFields
<1>7. Entered(cerebras) /\ cerebras.name = 1
  <2> DEFINE m == Model(7, {7}, {"streaming", "tools", "json_mode"}, 128, 800, 970)
             ms == <<m>>
  <2>2. cerebras = Provider(1, {"CEREBRAS"}, 0, 1000, {"streaming", "tools", "json_mode"}, ms)
    BY DEF cerebras
  <2> HIDE DEF m
  <2>3. ms \in Seq(Range(ms)) /\ DistinctIds(ms)
    BY <1>1
  <2> HIDE DEF ms
  <2> QED BY <2>2, <2>3, ProviderFields
<1>8. Entered(sambanova) /\ sambanova.name = 7
  <2> DEFINE m == Model(2, {2}, {"streaming", "tools", "json_mode"}, 128, 800, 850)
             ms == <<m>>
  <2>2. sambanova = Provider(7, {"SAMBANOVA"}, 1, Unset, {"streaming", "tools", "json_mode"}, ms)
    BY DEF sambanova
  <2> HIDE DEF m
  <2>3. ms \in Seq(Range(ms)) /\ DistinctIds(ms)
    BY <1>1
  <2> HIDE DEF ms
  <2> QED BY <2>2, <2>3, ProviderFields
<1>9. Entered(ollama) /\ ollama.name = 6
  <2> DEFINE m == Model(9, {9}, {"streaming"}, 128, 600, 500)
             ms == <<m>>
  <2>2. ollama = Provider(6, {"OLLAMA"}, 3, Unset, {"streaming"}, ms)
    BY DEF ollama
  <2> HIDE DEF m
  <2>3. ms \in Seq(Range(ms)) /\ DistinctIds(ms)
    BY <1>1
  <2> HIDE DEF ms
  <2> QED BY <2>2, <2>3, ProviderFields
<1> QED BY <1>4, <1>5, <1>6, <1>7, <1>8, <1>9

\* The provider table holds six providers of different names, each of different models.
LEMMA TableIsSound ==
    /\ default_providers \in Seq(Range(default_providers))
    /\ \A p \in Range(default_providers) : Entered(p)
    /\ \A i, j \in DOMAIN default_providers : default_providers[i].name = default_providers[j].name => i = j
<1> DEFINE t == default_providers
<1>1. /\ t = [i \in 1 .. 6 |-> t[i]]
      /\ t[1] = groq /\ t[2] = google /\ t[3] = cloudflare /\ t[4] = cerebras /\ t[5] = sambanova /\ t[6] = ollama
  BY DEF default_providers
<1>2. \A i \in 1 .. 6 : i = 1 \/ i = 2 \/ i = 3 \/ i = 4 \/ i = 5 \/ i = 6
  OBVIOUS
<1> HIDE DEF t
<1>3. t \in Seq(Range(t)) /\ DOMAIN t = 1 .. 6
  BY <1>1 DEF Range
<1>4. \A p \in Range(t) : Entered(p)
  BY <1>1, <1>2, <1>3, EntriesAreSound DEF Range
<1>5. \A i, j \in DOMAIN t : t[i].name = t[j].name => i = j
  BY <1>1, <1>2, <1>3, EntriesAreSound
<1> QED BY <1>3, <1>4, <1>5 DEF t

\* Whatever is given is a provider of distinct models in order.
LEMMA GivenIsTyped == Given \subseteq AllProviders
<1> SUFFICES ASSUME NEW p \in Given PROVE p \in AllProviders
  OBVIOUS
<1>1. /\ p = Provider(p.name, p.keys, p.priority, p.limit, p.caps, p.models)
      /\ p.models \in Seq(Range(p.models))
  BY TableIsSound, CatalogueAssumption DEF CatalogueAssumption, ProviderOK, Given, Entered
<1>2. Range(p.models) \subseteq Models
  BY DEF Models
<1>3. p.models \in Seq(Models)
  <2> DEFINE ms == p.models
  <2>1. ms \in Seq(Range(ms)) /\ Range(ms) \subseteq Models
    BY <1>1, <1>2
  <2> HIDE DEF ms
  <2>2. ms \in Seq(Models)
    BY <2>1
  <2> QED BY <2>2 DEF ms
<1>4. p = [name |-> p.name, keys |-> p.keys, priority |-> p.priority,
           limit |-> p.limit, caps |-> p.caps, models |-> p.models]
  BY <1>1, Zenon DEF Provider
<1> QED BY <1>3, <1>4 DEF AllProviders

\* What the answer of its endpoint makes of a provider.
LEMMA ExtendedProvider ==
    ASSUME NEW p \in AllProviders, NEW ids \in Seq(Nat)
    PROVE  /\ With(p, ids) \in AllProviders /\ With(p, ids).name = p.name
           /\ With(p, ids).models = p.models \o [k \in DOMAIN ids |-> infer_model_metadata(ids[k])]
<1> DEFINE more == [k \in DOMAIN ids |-> infer_model_metadata(ids[k])]
           all == p.models \o more
<1>1. more \in Seq(Models)
  <2>1. \A k \in DOMAIN ids : ids[k] \in Nat
    OBVIOUS
  <2>2. ASSUME NEW id \in Nat PROVE infer_model_metadata(id) \in Models
    <3>1. infer_model_metadata(id) \in Inferred
      BY DEF Inferred
    <3>2. Inferred \subseteq Models
      BY DEF Models
    <3> QED BY <3>1, <3>2
  <2>3. \A k \in DOMAIN ids : infer_model_metadata(ids[k]) \in Models
    BY <2>1, <2>2, Zenon
  <2> QED BY <2>3
<1>2. all \in Seq(Models)
  <2> HIDE DEF more
  <2> QED BY <1>1 DEF AllProviders
<1>3. With(p, ids) = [p EXCEPT !.models = all]
  BY DEF With
<1> HIDE DEF all
<1>4. With(p, ids) \in AllProviders /\ With(p, ids).name = p.name /\ With(p, ids).models = all
  BY <1>2, <1>3 DEF AllProviders
<1> QED BY <1>4 DEF all
-----------------------------------------------------------------------------
CodePlaces == {"idle", "listed", "resync", "holding", "asking", "awaiting", "found", "planning"}

\* What the place of a call says of it,
CallOK(x) ==
    /\ x = [at |-> x.at, wish |-> x.wish, list |-> x.list, provider |-> x.provider, pos |-> x.pos, idx |-> x.idx,
            changed |-> x.changed, alone |-> x.alone, outcome |-> x.outcome, plan |-> x.plan]
    /\ x.at \in CodePlaces /\ x.list \in Seq(AllProviders) /\ x.pos \in Nat \ {0} /\ x.idx \in Nat \ {0}
    /\ x.changed \in BOOLEAN /\ x.alone \in BOOLEAN
    /\ x.at = "idle" => x.pos = 1
    /\ x.at \in {"listed", "awaiting", "found"} => x.provider \in AllProviders
    /\ x.at = "found" => x.changed
    /\ x.at = "holding" => x.list # <<>>
    /\ x.plan # <<>> => x.outcome = "planned"

\* and of the client's list.
InPlace(x, list) ==
    /\ x.pos <= Len(list) + 1
    /\ x.at \in {"awaiting", "found"} => x.pos <= Len(list)
    /\ x.at = "found" => x.idx <= Len(list) /\ list[x.idx].name = x.provider.name
    /\ x.at = "listed" => x.provider.name \in NamesIn(list)

Typed ==
    /\ client \in {"none", "refused", "built"} /\ calls \in 0 .. MaxCalls
    /\ providers \in Seq(AllProviders) /\ planner \in Seq(AllProviders)
    /\ op = [t \in Threads |-> op[t]]
    /\ \A t \in Threads : CallOK(op[t]) /\ InPlace(op[t], providers) /\ (Running(t) => client = "built")
    /\ client = "built" => providers # <<>> /\ planner # <<>>

\* All but the history of who was alone.
Same(x, y) ==
    /\ x.at = y.at /\ x.wish = y.wish /\ x.list = y.list /\ x.provider = y.provider /\ x.pos = y.pos /\ x.idx = y.idx
    /\ x.changed = y.changed /\ x.outcome = y.outcome /\ x.plan = y.plan

\* A list a step has left: as long or longer, each provider in its place.
Grown(old, new) ==
    Len(old) <= Len(new) /\ \A i \in 1 .. Len(old) : new[i].name = old[i].name

\* What a step of t leaves of the other calls.
Apart(t) ==
    /\ op' = [s \in Threads |-> op'[s]]
    /\ \A s \in Threads \ {t} : CallOK(op'[s]) /\ Same(op'[s], op[s])

LEMMA NewCall ==
    ASSUME NEW x, CallOK(x), NEW b \in BOOLEAN
    PROVE  LET y == [x EXCEPT !.alone = b] IN CallOK(y) /\ Same(y, x) /\ y.alone = b
<1> DEFINE y == [x EXCEPT !.alone = b]
<1>1. y = [at |-> x.at, wish |-> x.wish, list |-> x.list, provider |-> x.provider, pos |-> x.pos, idx |-> x.idx,
           changed |-> x.changed, alone |-> b, outcome |-> x.outcome, plan |-> x.plan]
  BY DEF CallOK
<1> HIDE DEF y
<1>2. Same(y, x) /\ y.alone = b
  BY <1>1 DEF Same
<1>3. CallOK(y)
  BY <1>1, <1>2 DEF CallOK, Same
<1> QED BY <1>2, <1>3 DEF y

\* A call begins: it is alone if nothing runs, and no call that runs is any longer.
LEMMA BeginEffect ==
    ASSUME Typed, NEW t \in Threads, NEW new, CallOK(new), Begin(t, new)
    PROVE  /\ client = "built" /\ ~ Running(t) /\ calls' \in 0 .. MaxCalls
           /\ Apart(t) /\ CallOK(op'[t]) /\ Same(op'[t], new)
           /\ op'[t].alone <=> \A u \in Threads : ~ Running(u)
           /\ \A s \in Threads \ {t} : op'[s].alone <=> op[s].alone /\ ~ Running(s)
<1>1. client = "built" /\ ~ Running(t) /\ calls' \in 0 .. MaxCalls
  BY CatalogueAssumption DEF CatalogueAssumption, Begin, CallBy, Call, Typed
<1>2. PICK b \in BOOLEAN : b <=> \A u \in Threads : ~ Running(u)
  OBVIOUS
<1>3. op'[t] = [new EXCEPT !.alone = b] /\ op' = [s \in Threads |-> op'[s]]
  BY <1>2 DEF Begin
<1>4. CallOK(op'[t]) /\ Same(op'[t], new) /\ (op'[t].alone <=> \A u \in Threads : ~ Running(u))
  BY <1>2, <1>3, NewCall
<1>5. ASSUME NEW s \in Threads \ {t}
      PROVE  CallOK(op'[s]) /\ Same(op'[s], op[s]) /\ (op'[s].alone <=> op[s].alone /\ ~ Running(s))
  <2>1. CallOK(op[s])
    BY DEF Typed
  <2>2. PICK c \in BOOLEAN : c <=> op[s].alone /\ ~ Running(s)
    OBVIOUS
  <2>3. op'[s] = [op[s] EXCEPT !.alone = c]
    BY <2>1, <2>2 DEF Begin, CallOK
  <2> QED BY <2>1, <2>2, <2>3, NewCall
<1> QED BY <1>1, <1>3, <1>4, <1>5 DEF Apart

\* A call goes on: the others do not notice.
LEMMA MoveEffect ==
    ASSUME Typed, NEW t \in Threads, NEW new, CallOK(new), op' = [op EXCEPT ![t] = new]
    PROVE  op'[t] = new /\ Apart(t) /\ \A s \in Threads \ {t} : op'[s] = op[s]
<1>1. op'[t] = new /\ op' = [s \in Threads |-> op'[s]] /\ \A s \in Threads \ {t} : op'[s] = op[s]
  BY DEF Typed
<1>2. \A s \in Threads \ {t} : CallOK(op'[s]) /\ Same(op'[s], op[s])
  BY <1>1 DEF Typed, Same
<1> QED BY <1>1, <1>2 DEF Apart

\* What is left of the types then.
LEMMA TypedKept ==
    ASSUME Typed, NEW t \in Threads, Apart(t), CallOK(op'[t]), InPlace(op'[t], providers'),
           client = "built", client' = client, calls' \in 0 .. MaxCalls,
           providers' \in Seq(AllProviders), Grown(providers, providers'),
           planner' \in Seq(AllProviders), planner' # <<>>
    PROVE  Typed'
<1>1. ASSUME NEW s \in Threads \ {t} PROVE CallOK(op'[s]) /\ InPlace(op'[s], providers')
  <2>1. CallOK(op'[s]) /\ Same(op'[s], op[s]) /\ CallOK(op[s]) /\ InPlace(op[s], providers)
    BY DEF Apart, Typed
  <2>2. Len(providers) \in Nat /\ Len(providers') \in Nat /\ op[s].pos \in Nat /\ op[s].idx \in Nat \ {0}
    <3>1. providers \in Seq(AllProviders)
      BY DEF Typed
    <3>2. op[s].pos \in Nat /\ op[s].idx \in Nat \ {0}
      BY <2>1 DEF CallOK
    <3> QED BY <3>1, <3>2
  <2>3. NamesIn(providers) \subseteq NamesIn(providers')
    <3>1. DOMAIN providers = 1 .. Len(providers) /\ DOMAIN providers' = 1 .. Len(providers')
      BY DEF Typed
    <3>2. \A i \in 1 .. Len(providers) : i \in 1 .. Len(providers') /\ providers'[i].name = providers[i].name
      BY <2>2 DEF Grown
    <3> QED BY <3>1, <3>2 DEF NamesIn
  <2>4. Len(providers) <= Len(providers')
    BY DEF Grown
  <2>5. ASSUME op[s].at = "found" PROVE op[s].idx <= Len(providers') /\ providers'[op[s].idx].name = op[s].provider.name
    <3>1. op[s].idx <= Len(providers) /\ providers[op[s].idx].name = op[s].provider.name
      BY <2>1, <2>5 DEF InPlace
    <3>2. op[s].idx \in 1 .. Len(providers) /\ op[s].idx <= Len(providers')
      BY <2>2, <2>4, <3>1
    <3> QED BY <3>1, <3>2 DEF Grown
  <2> QED BY <2>1, <2>2, <2>3, <2>4, <2>5 DEF InPlace, Same
<1>2. providers' # <<>>
  BY DEF Typed, Grown
<1> QED BY <1>1, <1>2 DEF Typed, Apart

\* The ways a step may leave a list.
LEMMA GrownSame == ASSUME NEW list \in Seq(AllProviders) PROVE Grown(list, list)
BY DEF Grown

LEMMA GrownByOne ==
    ASSUME NEW list \in Seq(AllProviders), NEW p \in AllProviders
    PROVE  Append(list, p) \in Seq(AllProviders) /\ Grown(list, Append(list, p))
<1> DEFINE new == Append(list, p)
<1>1. new \in Seq(AllProviders) /\ Len(new) = Len(list) + 1 /\ \A i \in 1 .. Len(list) : new[i] = list[i]
  OBVIOUS
<1>2. Len(list) <= Len(list) + 1
  OBVIOUS
<1> HIDE DEF new
<1>3. Grown(list, new)
  BY <1>1, <1>2 DEF Grown
<1> QED BY <1>1, <1>3 DEF new

LEMMA GrownInside ==
    ASSUME NEW list \in Seq(AllProviders), NEW k \in DOMAIN list, NEW p \in AllProviders, p.name = list[k].name
    PROVE  LET new == [list EXCEPT ![k] = p]
           IN  new \in Seq(AllProviders) /\ Len(new) = Len(list) /\ Grown(list, new)
<1> DEFINE new == [list EXCEPT ![k] = p]
<1>1. new \in Seq(AllProviders) /\ Len(new) = Len(list) /\ new[k] = p /\ \A i \in 1 .. Len(list) : i # k => new[i] = list[i]
  OBVIOUS
<1> HIDE DEF new
<1>2. \A i \in 1 .. Len(list) : new[i].name = list[i].name
  BY <1>1
<1>3. Grown(list, new)
  BY <1>1, <1>2 DEF Grown
<1> QED BY <1>1, <1>3 DEF new

\* A provider with new models begins with the models it had.
LEMMA SamePrefix == ASSUME NEW X, NEW s \in Seq(X) PROVE IsPrefix(s, s)
BY DEF IsPrefix

LEMMA ListedModels ==
    ASSUME NEW list \in Seq(AllProviders), NEW i \in 1 .. Len(list)
    PROVE  list[i] \in AllProviders /\ list[i].models \in Seq(Models)
<1>1. list[i] \in AllProviders
  OBVIOUS
<1> QED BY <1>1 DEF AllProviders

LEMMA ExtendedPrefix ==
    ASSUME NEW p \in AllProviders, NEW ids \in Seq(Nat)
    PROVE  IsPrefix(p.models, With(p, ids).models)
<1> DEFINE old == p.models
           all == With(p, ids).models
           more == [i \in DOMAIN ids |-> infer_model_metadata(ids[i])]
<1>1. With(p, ids) \in AllProviders /\ all = old \o more
  BY ExtendedProvider
<1>2. old \in Seq(Models) /\ all \in Seq(Models)
  BY <1>1 DEF AllProviders
<1>3. more \in Seq(Range(more))
  BY DEF Range
<1> HIDE DEF old, all, more
<1>4. Len(all) = Len(old) + Len(more) /\ Len(more) \in Nat /\ Len(old) \in Nat /\ \A i \in 1 .. Len(old) : all[i] = old[i]
  BY <1>1, <1>2, <1>3
<1>5. Len(old) <= Len(all)
  BY <1>4
<1>6. SubSeq(old, 1, Len(old)) = SubSeq(all, 1, Len(old))
  BY <1>2, <1>4, <1>5
<1> QED BY <1>5, <1>6 DEF IsPrefix, old, all
-----------------------------------------------------------------------------
\* What each step makes of the call of the thread that takes it, and of the others.
Still(t) == \A s \in Threads \ {t} : op'[s] = op[s]

\* A call that is changed in all but its two flags.
LEMMA CallOf ==
    ASSUME NEW q, CallOK(q), NEW at \in CodePlaces, NEW list \in Seq(AllProviders), NEW pos \in Nat \ {0},
           NEW wish, NEW provider, NEW outcome, NEW plan, NEW x,
           x = [at |-> at, wish |-> wish, list |-> list, provider |-> provider, pos |-> pos, idx |-> q.idx,
                changed |-> q.changed, alone |-> q.alone, outcome |-> outcome, plan |-> plan],
           at = "idle" => pos = 1, at \in {"listed", "awaiting"} => provider \in AllProviders, at # "found",
           at = "holding" => list # <<>>, plan # <<>> => outcome = "planned"
    PROVE  /\ CallOK(x)
           /\ x.at = at /\ x.wish = wish /\ x.list = list /\ x.provider = provider /\ x.pos = pos
           /\ x.changed = q.changed /\ x.alone = q.alone /\ x.outcome = outcome /\ x.plan = plan
<1>1. /\ x.at = at /\ x.wish = wish /\ x.list = list /\ x.provider = provider /\ x.pos = pos
      /\ x.changed = q.changed /\ x.alone = q.alone /\ x.outcome = outcome /\ x.plan = plan /\ x.idx = q.idx
  OBVIOUS
<1>2. x = [at |-> x.at, wish |-> x.wish, list |-> x.list, provider |-> x.provider, pos |-> x.pos, idx |-> x.idx,
           changed |-> x.changed, alone |-> x.alone, outcome |-> x.outcome, plan |-> x.plan]
  BY <1>1, Zenon
<1>3. x.changed \in BOOLEAN /\ x.alone \in BOOLEAN
  BY <1>1, Zenon DEF CallOK
<1>4. /\ x.at \in CodePlaces /\ x.list \in Seq(AllProviders) /\ x.pos \in Nat \ {0}
      /\ x.at = "idle" => x.pos = 1
      /\ x.at \in {"listed", "awaiting", "found"} => x.provider \in AllProviders
      /\ x.at # "found"
      /\ x.at = "holding" => x.list # <<>>
      /\ x.plan # <<>> => x.outcome = "planned"
  BY <1>1
<1>5. x.idx \in Nat \ {0}
  BY <1>1 DEF CallOK
<1> QED BY <1>1, <1>2, <1>3, <1>4, <1>5, Zenon DEF CallOK

LEMMA NoCall ==
    /\ CallOK(NewOp) /\ NewOp.at = "idle" /\ NewOp.pos = 1 /\ NewOp.plan = <<>> /\ NewOp.list = <<>>
    /\ NewOp.list \in Seq(AllProviders) /\ ~ NewOp.changed /\ NewOp.outcome = None /\ NewOp.wish = None
<1>1. <<>> \in Seq(AllProviders)
  OBVIOUS
<1> QED BY <1>1 DEF NewOp, CallOK, CodePlaces

\* The calls that steps make of a call q at rest.
AtRest(q) == CallOK(q) /\ q.at = "idle" /\ q.pos = 1 /\ q.plan = <<>>

IsListed(x, q, p) == x = [q EXCEPT !.at = "listed", !.provider = p]

LEMMA ListedCall ==
    ASSUME NEW q, AtRest(q), NEW p \in AllProviders, NEW x, IsListed(x, q, p)
    PROVE  /\ CallOK(x) /\ x.at = "listed" /\ x.provider = p /\ x.pos = 1
           /\ x.changed = q.changed /\ x.outcome = q.outcome
<1>1. /\ q.pos \in Nat \ {0} /\ q.list \in Seq(AllProviders) /\ (q.plan # <<>> => q.outcome = "planned")
      /\ "listed" \in CodePlaces /\ CallOK(q) /\ q.pos = 1
  BY DEF AtRest, CallOK, CodePlaces
<1>3. x = [at |-> "listed", wish |-> q.wish, list |-> q.list, provider |-> p, pos |-> q.pos, idx |-> q.idx,
           changed |-> q.changed, alone |-> q.alone, outcome |-> q.outcome, plan |-> q.plan]
  BY <1>1 DEF CallOK, IsListed
<1>4. /\ x.at = "listed" /\ x.wish = q.wish /\ x.list = q.list /\ x.provider = p /\ x.pos = q.pos /\ x.idx = q.idx
      /\ x.changed = q.changed /\ x.alone = q.alone /\ x.outcome = q.outcome /\ x.plan = q.plan
  BY <1>3
<1>5. x = [at |-> x.at, wish |-> x.wish, list |-> x.list, provider |-> x.provider, pos |-> x.pos, idx |-> x.idx,
           changed |-> x.changed, alone |-> x.alone, outcome |-> x.outcome, plan |-> x.plan]
  BY <1>3, <1>4, Zenon
<1>6. x.changed \in BOOLEAN /\ x.alone \in BOOLEAN
  BY <1>1, <1>4, Zenon DEF CallOK
<1>7. CallOK(x)
  BY <1>1, <1>4, <1>5, <1>6 DEF CallOK
<1> QED BY <1>1, <1>4, <1>7

LEMMA AddEffect ==
    ASSUME Typed, NEW t \in Threads, NEW p \in MoreProviders, add_provider(t, p)
    PROVE  /\ client = "built" /\ ~ Running(t) /\ calls' \in 0 .. MaxCalls /\ p \in AllProviders
           /\ Apart(t) /\ CallOK(op'[t]) /\ op'[t].at = "listed" /\ op'[t].provider = p
           /\ op'[t].pos = 1 /\ ~ op'[t].changed /\ op'[t].outcome = None
           /\ op'[t].alone <=> \A u \in Threads : ~ Running(u)
           /\ \A s \in Threads \ {t} : op'[s].alone <=> op[s].alone /\ ~ Running(s)
<1> DEFINE new == [NewOp EXCEPT !.at = "listed", !.provider = p]
<1>1. p \in AllProviders
  BY GivenIsTyped DEF Given
<1>2. CallOK(new) /\ new.at = "listed" /\ new.provider = p /\ new.pos = 1 /\ ~ new.changed /\ new.outcome = None
  <2> DEFINE q == NewOp
  <2>1. AtRest(q) /\ ~ q.changed /\ q.outcome = None
    BY NoCall, Zenon DEF AtRest
  <2>3. IsListed(new, q, p)
    BY DEF IsListed
  <2> HIDE DEF q, new
  <2>2. /\ CallOK(new) /\ new.at = "listed" /\ new.provider = p /\ new.pos = 1
        /\ new.changed = q.changed /\ new.outcome = q.outcome
    BY <1>1, <2>1, <2>3, ListedCall
  <2> QED BY <2>1, <2>2
<1>3. Begin(t, new)
  BY DEF add_provider
<1> HIDE DEF new
<1>4. /\ client = "built" /\ ~ Running(t) /\ calls' \in 0 .. MaxCalls
      /\ Apart(t) /\ CallOK(op'[t]) /\ Same(op'[t], new)
      /\ op'[t].alone <=> \A u \in Threads : ~ Running(u)
      /\ \A s \in Threads \ {t} : op'[s].alone <=> op[s].alone /\ ~ Running(s)
  BY <1>2, <1>3, BeginEffect
<1>5. op'[t].at = "listed" /\ op'[t].provider = p /\ op'[t].pos = 1 /\ ~ op'[t].changed /\ op'[t].outcome = None
  BY <1>2, <1>4 DEF Same
<1> QED BY <1>1, <1>4, <1>5

LEMMA AdapterEffect ==
    ASSUME Typed, NEW t \in Threads, AddAdapter(t)
    PROVE  /\ Running(t) /\ Apart(t) /\ Still(t) /\ CallOK(op'[t]) /\ op'[t].at = "resync"
           /\ op'[t].alone = op[t].alone /\ op'[t].pos = op[t].pos /\ op'[t].outcome = op[t].outcome
<1> DEFINE q == op[t]
           new == [q EXCEPT !.at = "resync"]
<1>1. CallOK(q) /\ q.at = "listed" /\ op' = [op EXCEPT ![t] = new]
  BY DEF AddAdapter, Typed
<1> HIDE DEF q
<1>2. CallOK(new) /\ new.at = "resync" /\ new.alone = q.alone /\ new.pos = q.pos /\ new.outcome = q.outcome
  BY <1>1 DEF CallOK, CodePlaces
<1> HIDE DEF new
<1>3. op'[t] = new /\ Apart(t) /\ Still(t)
  BY <1>1, <1>2, MoveEffect DEF Still
<1> QED BY <1>1, <1>2, <1>3 DEF Running, q

LEMMA SnapshotEffect ==
    ASSUME Typed, NEW t \in Threads, Snapshot(t)
    PROVE  /\ Running(t) /\ Apart(t) /\ Still(t) /\ CallOK(op'[t]) /\ op'[t].at = "holding"
           /\ op'[t].list = providers
           /\ op'[t].alone = op[t].alone /\ op'[t].pos = op[t].pos /\ op'[t].outcome = op[t].outcome
<1> DEFINE q == op[t]
           new == [q EXCEPT !.at = "holding", !.list = providers]
<1>1. CallOK(q) /\ q.at = "resync" /\ op' = [op EXCEPT ![t] = new]
  BY DEF Snapshot, Typed
<1>2. providers \in Seq(AllProviders) /\ providers # <<>>
  BY <1>1 DEF Typed, Running
<1> HIDE DEF q
<1>3. /\ CallOK(new) /\ new.at = "holding" /\ new.alone = q.alone /\ new.pos = q.pos /\ new.outcome = q.outcome
      /\ new.list = providers
  <2>0. new = [q EXCEPT !.at = "holding", !.list = providers]
    OBVIOUS
  <2> HIDE DEF new
  <2>1. new = [at |-> "holding", wish |-> q.wish, list |-> providers, provider |-> q.provider, pos |-> q.pos, idx |-> q.idx,
               changed |-> q.changed, alone |-> q.alone, outcome |-> q.outcome, plan |-> q.plan]
    BY <1>1, <2>0 DEF CallOK
  <2>2. "holding" \in CodePlaces /\ q.pos \in Nat \ {0} /\ (q.plan # <<>> => q.outcome = "planned")
    BY <1>1 DEF CodePlaces, CallOK
  <2> QED BY <1>1, <1>2, <2>1, <2>2, CallOf
<1> HIDE DEF new
<1>4. op'[t] = new /\ Apart(t) /\ Still(t)
  BY <1>1, <1>3, MoveEffect DEF Still
<1> QED BY <1>1, <1>3, <1>4 DEF Running, q

\* A call that returns or raises leaves its outcome and whether it was alone.
LEMMA EndEffect ==
    ASSUME Typed, NEW t \in Threads, NEW outcome, End(t, outcome)
    PROVE  /\ Apart(t) /\ Still(t) /\ CallOK(op'[t]) /\ op'[t].at = "idle" /\ op'[t].pos = 1
           /\ op'[t].alone = op[t].alone /\ op'[t].outcome = outcome
<1>1. PICK b \in BOOLEAN : b = op[t].alone
  BY DEF Typed, CallOK
<1> DEFINE q == NewOp
           x == [q EXCEPT !.alone = b, !.outcome = outcome]
<1>2. op' = [op EXCEPT ![t] = x]
  BY <1>1 DEF End
<1>3. AtRest(q)
  BY NoCall DEF AtRest
<1> HIDE DEF q
<1>4. x = [q EXCEPT !.alone = b, !.outcome = outcome]
  OBVIOUS
<1> HIDE DEF x
<1>5. CallOK(x) /\ x.at = "idle" /\ x.pos = 1 /\ x.alone = b /\ x.outcome = outcome
  <2>3. x = [at |-> q.at, wish |-> q.wish, list |-> q.list, provider |-> q.provider, pos |-> q.pos, idx |-> q.idx,
             changed |-> q.changed, alone |-> b, outcome |-> outcome, plan |-> q.plan]
    BY <1>3, <1>4 DEF CallOK, AtRest
  <2>4. /\ x.at = q.at /\ x.wish = q.wish /\ x.list = q.list /\ x.provider = q.provider /\ x.pos = q.pos /\ x.idx = q.idx
        /\ x.changed = q.changed /\ x.alone = b /\ x.outcome = outcome /\ x.plan = q.plan
    BY <2>3
  <2>5. x = [at |-> x.at, wish |-> x.wish, list |-> x.list, provider |-> x.provider, pos |-> x.pos, idx |-> x.idx,
             changed |-> x.changed, alone |-> x.alone, outcome |-> x.outcome, plan |-> x.plan]
    BY <2>3, <2>4, Zenon
  <2>6. x.changed \in BOOLEAN /\ x.alone \in BOOLEAN
    BY <1>3, <2>4, Zenon DEF CallOK, AtRest
  <2>7. CallOK(x)
    BY <1>3, <2>4, <2>5, <2>6 DEF CallOK, AtRest
  <2> QED BY <1>3, <2>4, <2>7 DEF AtRest
<1>6. op'[t] = x /\ Apart(t) /\ Still(t)
  BY <1>2, <1>5, MoveEffect DEF Still
<1> QED BY <1>1, <1>5, <1>6

LEMMA InstallEffect ==
    ASSUME Typed, NEW t \in Threads, InstallPlanner(t)
    PROVE  /\ op[t].at = "holding" /\ Running(t) /\ Apart(t) /\ Still(t) /\ CallOK(op'[t])
           /\ op'[t].at \in {"idle", "planning"}
           /\ op'[t].alone = op[t].alone /\ op'[t].pos \in {1, op[t].pos}
           /\ op'[t].outcome \in {"done", op[t].outcome}
           /\ planner' \in Seq(AllProviders) /\ planner' # <<>>
<1> DEFINE q == op[t]
           new == [q EXCEPT !.at = "planning", !.list = <<>>]
<1>1. CallOK(q) /\ q.at = "holding" /\ planner' = q.list
  BY DEF InstallPlanner, Typed
<1>2. planner' \in Seq(AllProviders) /\ planner' # <<>> /\ Running(t)
  BY <1>1 DEF CallOK, Running
<1>3. CASE End(t, "done")
  BY <1>1, <1>2, <1>3, EndEffect
<1>4. CASE op' = [op EXCEPT ![t] = new]
  <2>1. <<>> \in Seq(AllProviders) /\ "planning" \in CodePlaces
    BY DEF CodePlaces
  <2> HIDE DEF q
  <2>2. CallOK(new) /\ new.at = "planning" /\ new.alone = q.alone /\ new.pos = q.pos /\ new.outcome = q.outcome
    <3>0. new = [q EXCEPT !.at = "planning", !.list = <<>>]
      OBVIOUS
    <3> HIDE DEF new
    <3>1. new = [at |-> "planning", wish |-> q.wish, list |-> <<>>, provider |-> q.provider, pos |-> q.pos, idx |-> q.idx,
                 changed |-> q.changed, alone |-> q.alone, outcome |-> q.outcome, plan |-> q.plan]
      BY <1>1, <3>0 DEF CallOK
    <3>2. q.pos \in Nat \ {0} /\ (q.plan # <<>> => q.outcome = "planned")
      BY <1>1 DEF CallOK
    <3> DEFINE none == <<>>
    <3>3. new = [at |-> "planning", wish |-> q.wish, list |-> none, provider |-> q.provider, pos |-> q.pos, idx |-> q.idx,
                 changed |-> q.changed, alone |-> q.alone, outcome |-> q.outcome, plan |-> q.plan]
      BY <3>1
    <3>4. none \in Seq(AllProviders)
      BY <2>1
    <3> HIDE DEF none
    <3> QED BY <1>1, <2>1, <3>2, <3>3, <3>4, CallOf
  <2> HIDE DEF new
  <2>3. op'[t] = new /\ Apart(t) /\ Still(t)
    BY <1>4, <2>2, MoveEffect DEF Still
  <2> QED BY <1>1, <1>2, <2>2, <2>3 DEF q
<1> QED BY <1>3, <1>4 DEF InstallPlanner

LEMMA AskEffect ==
    ASSUME Typed, NEW t \in Threads, AskProvider(t)
    PROVE  /\ op[t].at = "asking" /\ Running(t) /\ Apart(t) /\ Still(t) /\ CallOK(op'[t])
           /\ op'[t].at \in {"asking", "awaiting"} /\ op'[t].pos \in 1 .. Len(providers) + 1
           /\ op'[t].at = "awaiting" => op'[t].pos \in 1 .. Len(providers) /\ op'[t].provider = providers[op'[t].pos]
           /\ op'[t].changed = op[t].changed /\ op'[t].alone = op[t].alone /\ op'[t].outcome = op[t].outcome
<1> DEFINE q == op[t]
           p == providers[q.pos]
           awaiting == [q EXCEPT !.at = "awaiting", !.provider = p]
           passed == [q EXCEPT !.pos = @ + 1]
<1>1. CallOK(q) /\ q.at = "asking" /\ q.pos <= Len(providers)
  BY DEF AskProvider, Typed
<1>2. op' = [op EXCEPT ![t] = awaiting] \/ op' = [op EXCEPT ![t] = passed]
  BY DEF AskProvider
<1>3. /\ q.pos \in 1 .. Len(providers) /\ q.pos + 1 \in 1 .. Len(providers) + 1 /\ q.pos \in Nat \ {0}
      /\ q.pos + 1 \in Nat \ {0} /\ p \in AllProviders /\ Len(providers) \in Nat
      /\ \A k \in 1 .. Len(providers) : k \in 1 .. Len(providers) + 1
  <2>1. q.pos \in Nat \ {0} /\ providers \in Seq(AllProviders) /\ q.pos <= Len(providers)
    BY <1>1 DEF CallOK, Typed
  <2> HIDE DEF q
  <2> QED BY <2>1
<1> DEFINE n == q.pos + 1
<1>4. CASE op' = [op EXCEPT ![t] = awaiting]
  <2> DEFINE x == awaiting
  <2>0. x = [q EXCEPT !.at = "awaiting", !.provider = p]
    OBVIOUS
  <2> HIDE DEF q, p, x
  <2>1. x = [at |-> "awaiting", wish |-> q.wish, list |-> q.list, provider |-> p, pos |-> q.pos, idx |-> q.idx,
             changed |-> q.changed, alone |-> q.alone, outcome |-> q.outcome, plan |-> q.plan]
    BY <1>1, <2>0 DEF CallOK
  <2>2. /\ x.at = "awaiting" /\ x.wish = q.wish /\ x.list = q.list /\ x.provider = p /\ x.pos = q.pos /\ x.idx = q.idx
        /\ x.changed = q.changed /\ x.alone = q.alone /\ x.outcome = q.outcome /\ x.plan = q.plan
    BY <2>1
  <2>3. x = [at |-> x.at, wish |-> x.wish, list |-> x.list, provider |-> x.provider, pos |-> x.pos, idx |-> x.idx,
             changed |-> x.changed, alone |-> x.alone, outcome |-> x.outcome, plan |-> x.plan]
    BY <2>1, <2>2, Zenon
  <2>4. x.changed \in BOOLEAN /\ x.alone \in BOOLEAN
    BY <1>1, <2>0, <2>2, Zenon DEF CallOK
  <2>5. CallOK(x)
    BY <1>1, <2>0, <2>2, <2>3, <2>4, <1>3 DEF CallOK, CodePlaces
  <2>6. op'[t] = x /\ Apart(t) /\ Still(t)
    BY <1>4, <2>5, MoveEffect DEF Still, x
  <2> QED BY <1>1, <1>3, <2>2, <2>5, <2>6 DEF Running, q, p
<1>5. CASE op' = [op EXCEPT ![t] = passed]
  <2> DEFINE x == passed
  <2>0. x = [q EXCEPT !.pos = n]
    OBVIOUS
  <2>00. n \in Nat \ {0} /\ n \in 1 .. Len(providers) + 1
    BY <1>3
  <2> HIDE DEF q, x, n
  <2>1. x = [at |-> q.at, wish |-> q.wish, list |-> q.list, provider |-> q.provider, pos |-> n, idx |-> q.idx,
             changed |-> q.changed, alone |-> q.alone, outcome |-> q.outcome, plan |-> q.plan]
    BY <1>1, <2>0 DEF CallOK
  <2>2. /\ x.at = q.at /\ x.wish = q.wish /\ x.list = q.list /\ x.provider = q.provider /\ x.pos = n /\ x.idx = q.idx
        /\ x.changed = q.changed /\ x.alone = q.alone /\ x.outcome = q.outcome /\ x.plan = q.plan
    BY <2>1
  <2>3. x = [at |-> x.at, wish |-> x.wish, list |-> x.list, provider |-> x.provider, pos |-> x.pos, idx |-> x.idx,
             changed |-> x.changed, alone |-> x.alone, outcome |-> x.outcome, plan |-> x.plan]
    BY <2>1, <2>2, Zenon
  <2>4. x.changed \in BOOLEAN /\ x.alone \in BOOLEAN
    BY <1>1, <2>0, <2>2, Zenon DEF CallOK
  <2>5. CallOK(x)
    BY <1>1, <2>0, <2>2, <2>3, <2>4, <2>00 DEF CallOK, CodePlaces
  <2>6. op'[t] = x /\ Apart(t) /\ Still(t)
    BY <1>5, <2>5, MoveEffect DEF Still, x
  <2>7. x.at = "asking"
    BY <1>1, <2>2
  <2> QED BY <1>1, <2>00, <2>2, <2>5, <2>6, <2>7 DEF Running, q
<1> QED BY <1>2, <1>4, <1>5

LEMMA WalkEffect ==
    ASSUME Typed, NEW t \in Threads, WalkEnds(t)
    PROVE  /\ op[t].at = "asking" /\ Running(t) /\ Apart(t) /\ Still(t) /\ CallOK(op'[t])
           /\ op'[t].alone = op[t].alone
           /\ \/ op[t].changed /\ op'[t].at = "resync" /\ op'[t].pos = op[t].pos /\ op'[t].outcome = op[t].outcome
              \/ ~ op[t].changed /\ op'[t].at = "idle" /\ op'[t].pos = 1 /\ op'[t].outcome = "done"
<1> DEFINE q == op[t]
           new == [q EXCEPT !.at = "resync"]
<1>1. CallOK(q) /\ q.at = "asking"
  BY DEF WalkEnds, Typed
<1>2. CASE ~ q.changed
  <2>1. End(t, "done")
    BY <1>2 DEF WalkEnds
  <2> QED BY <1>1, <1>2, <2>1, EndEffect DEF Running
<1>3. CASE q.changed
  <2>1. op' = [op EXCEPT ![t] = new]
    BY <1>3 DEF WalkEnds
  <2> HIDE DEF q
  <2>2. CallOK(new) /\ new.at = "resync" /\ new.alone = q.alone /\ new.pos = q.pos /\ new.outcome = q.outcome
    BY <1>1 DEF CallOK, CodePlaces
  <2> HIDE DEF new
  <2>3. op'[t] = new /\ Apart(t) /\ Still(t)
    BY <2>1, <2>2, MoveEffect DEF Still
  <2> QED BY <1>1, <1>3, <2>2, <2>3 DEF Running, q
<1> QED BY <1>2, <1>3

\* A refresh goes on to the next provider.
LEMMA GoOnEffect ==
    ASSUME Typed, NEW t \in Threads, op[t].at \in {"awaiting", "found"}, NEW x, NEW idx \in Nat \ {0},
           x = [at |-> "asking", wish |-> op[t].wish, list |-> op[t].list, provider |-> None,
                pos |-> op[t].pos + 1, idx |-> idx, changed |-> op[t].changed, alone |-> op[t].alone,
                outcome |-> op[t].outcome, plan |-> op[t].plan],
           op' = [op EXCEPT ![t] = x]
    PROVE  /\ Running(t) /\ Apart(t) /\ Still(t) /\ CallOK(op'[t])
           /\ op'[t].at = "asking" /\ op'[t].pos = op[t].pos + 1 /\ op[t].pos \in 1 .. Len(providers)
           /\ op'[t].changed = op[t].changed /\ op'[t].alone = op[t].alone /\ op'[t].outcome = op[t].outcome
<1> DEFINE q == op[t]
           n == q.pos + 1
<1>1. CallOK(q) /\ q.at \in {"awaiting", "found"} /\ InPlace(q, providers)
  BY DEF Typed
<1>2. n \in Nat \ {0} /\ q.pos \in 1 .. Len(providers)
  <2>1. q.pos \in Nat \ {0} /\ Len(providers) \in Nat /\ q.pos <= Len(providers)
    BY <1>1 DEF CallOK, Typed, InPlace
  <2> HIDE DEF q
  <2> QED BY <2>1
<1>3. x = [at |-> "asking", wish |-> q.wish, list |-> q.list, provider |-> None, pos |-> n, idx |-> idx,
           changed |-> q.changed, alone |-> q.alone, outcome |-> q.outcome, plan |-> q.plan]
  OBVIOUS
<1> HIDE DEF q, n
<1>5. /\ x.at = "asking" /\ x.wish = q.wish /\ x.list = q.list /\ x.provider = None /\ x.pos = n /\ x.idx = idx
      /\ x.changed = q.changed /\ x.alone = q.alone /\ x.outcome = q.outcome /\ x.plan = q.plan
  BY <1>3
<1>6. x = [at |-> x.at, wish |-> x.wish, list |-> x.list, provider |-> x.provider, pos |-> x.pos, idx |-> x.idx,
           changed |-> x.changed, alone |-> x.alone, outcome |-> x.outcome, plan |-> x.plan]
  BY <1>3, <1>5, Zenon
<1>7. x.changed \in BOOLEAN /\ x.alone \in BOOLEAN
  BY <1>1, <1>5, Zenon DEF CallOK
<1>8. CallOK(x)
  BY <1>1, <1>2, <1>5, <1>6, <1>7 DEF CallOK, CodePlaces
<1>9. op'[t] = x /\ Apart(t) /\ Still(t)
  BY <1>8, MoveEffect DEF Still
<1>10. q.pos \in 1 .. Len(providers) /\ n = op[t].pos + 1
  BY <1>2 DEF n, q
<1> QED BY <1>1, <1>5, <1>8, <1>9, <1>10 DEF Running, q

LEMMA PlannedEffect ==
    ASSUME Typed, NEW t \in Threads, NEW request, NEW outcome, NEW plan, Planned(t, request, outcome, plan),
           plan # <<>> => outcome = "planned"
    PROVE  /\ Apart(t) /\ Still(t) /\ CallOK(op'[t]) /\ op'[t].at = "idle" /\ op'[t].pos = 1
           /\ op'[t].alone = op[t].alone /\ op'[t].outcome = outcome
<1>1. PICK b \in BOOLEAN : b = op[t].alone
  BY DEF Typed, CallOK
<1> DEFINE q == NewOp
           x == [q EXCEPT !.alone = b, !.wish = request, !.outcome = outcome, !.plan = plan]
<1>2. op' = [op EXCEPT ![t] = x]
  BY <1>1 DEF Planned
<1>3. CallOK(q) /\ q.at = "idle" /\ q.pos = 1
  BY NoCall
<1> HIDE DEF q
<1>4. x = [q EXCEPT !.alone = b, !.wish = request, !.outcome = outcome, !.plan = plan]
  OBVIOUS
<1> HIDE DEF x
<1>5. x = [at |-> q.at, wish |-> request, list |-> q.list, provider |-> q.provider, pos |-> q.pos, idx |-> q.idx,
           changed |-> q.changed, alone |-> b, outcome |-> outcome, plan |-> plan]
  BY <1>3, <1>4 DEF CallOK
<1>6. /\ x.at = q.at /\ x.wish = request /\ x.list = q.list /\ x.provider = q.provider /\ x.pos = q.pos /\ x.idx = q.idx
      /\ x.changed = q.changed /\ x.alone = b /\ x.outcome = outcome /\ x.plan = plan
  BY <1>5
<1>7. x = [at |-> x.at, wish |-> x.wish, list |-> x.list, provider |-> x.provider, pos |-> x.pos, idx |-> x.idx,
           changed |-> x.changed, alone |-> x.alone, outcome |-> x.outcome, plan |-> x.plan]
  BY <1>5, <1>6, Zenon
<1>8. x.changed \in BOOLEAN /\ x.alone \in BOOLEAN
  BY <1>3, <1>4, <1>6, Zenon DEF CallOK
<1>9. CallOK(x)
  BY <1>3, <1>4, <1>6, <1>7, <1>8 DEF CallOK, CodePlaces
<1>10. op'[t] = x /\ Apart(t) /\ Still(t)
  BY <1>2, <1>9, MoveEffect DEF Still
<1> QED BY <1>1, <1>3, <1>6, <1>9, <1>10

LEMMA PlanningEffect ==
    ASSUME Typed, NEW t \in Threads, NEW request, EndPlanning(t, request)
    PROVE  /\ Apart(t) /\ Still(t) /\ CallOK(op'[t]) /\ op'[t].at = "idle" /\ op'[t].pos = 1
           /\ op'[t].alone = op[t].alone /\ op'[t].outcome # "lost"
<1>1. \/ \E o \in {"unknown_policy", "no_plan", "invalid"} : Planned(t, request, o, <<>>)
      \/ Planned(t, request, "planned", PlanFor(request))
  BY DEF EndPlanning
<1>2. ASSUME NEW o \in {"unknown_policy", "no_plan", "invalid"}, Planned(t, request, o, <<>>)
      PROVE  /\ Apart(t) /\ Still(t) /\ CallOK(op'[t]) /\ op'[t].at = "idle" /\ op'[t].pos = 1
             /\ op'[t].alone = op[t].alone /\ op'[t].outcome # "lost"
  <2> DEFINE none == <<>>
  <2>1. Planned(t, request, o, none) /\ (none # <<>> => o = "planned")
    BY <1>2
  <2> HIDE DEF none
  <2> QED BY <2>1, PlannedEffect
<1>3. CASE Planned(t, request, "planned", PlanFor(request))
  <2> DEFINE plan == PlanFor(request)
  <2>1. Planned(t, request, "planned", plan)
    BY <1>3
  <2> HIDE DEF plan
  <2> QED BY <2>1, PlannedEffect
<1> QED BY <1>1, <1>2, <1>3

LEMMA ChatEffect ==
    ASSUME Typed, NEW t \in Threads, NEW wish \in Wishes, chat(t, wish)
    PROVE  /\ client = "built" /\ ~ Running(t) /\ calls' \in 0 .. MaxCalls
           /\ Apart(t) /\ CallOK(op'[t]) /\ op'[t].at = "holding" /\ op'[t].pos = 1
           /\ op'[t].list = providers /\ op'[t].outcome = None
           /\ op'[t].alone <=> \A u \in Threads : ~ Running(u)
           /\ \A s \in Threads \ {t} : op'[s].alone <=> op[s].alone /\ ~ Running(s)
<1> DEFINE q == NewOp
           w == RequestOf(wish)
           x == [q EXCEPT !.at = "holding", !.list = providers, !.wish = w]
<1>1. Begin(t, x)
  BY DEF chat
<1>2. CallOK(q) /\ q.pos = 1 /\ q.outcome = None
  BY NoCall
<1>3. providers \in Seq(AllProviders) /\ providers # <<>>
  <2> HIDE DEF x
  <2>1. client = "built"
    BY <1>1 DEF Begin, CallBy
  <2> QED BY <2>1 DEF Typed
<1> HIDE DEF q, w
<1>4. x = [q EXCEPT !.at = "holding", !.list = providers, !.wish = w]
  OBVIOUS
<1> HIDE DEF x
<1>5. x = [at |-> "holding", wish |-> w, list |-> providers, provider |-> q.provider, pos |-> q.pos, idx |-> q.idx,
           changed |-> q.changed, alone |-> q.alone, outcome |-> q.outcome, plan |-> q.plan]
  BY <1>2, <1>4 DEF CallOK
<1>6. /\ x.at = "holding" /\ x.wish = w /\ x.list = providers /\ x.provider = q.provider /\ x.pos = q.pos /\ x.idx = q.idx
      /\ x.changed = q.changed /\ x.alone = q.alone /\ x.outcome = q.outcome /\ x.plan = q.plan
  BY <1>5
<1>7. x = [at |-> x.at, wish |-> x.wish, list |-> x.list, provider |-> x.provider, pos |-> x.pos, idx |-> x.idx,
           changed |-> x.changed, alone |-> x.alone, outcome |-> x.outcome, plan |-> x.plan]
  BY <1>5, <1>6, Zenon
<1>8. x.changed \in BOOLEAN /\ x.alone \in BOOLEAN
  BY <1>2, <1>4, <1>6, Zenon DEF CallOK
<1>9. CallOK(x)
  BY <1>2, <1>4, <1>6, <1>7, <1>8, <1>3 DEF CallOK, CodePlaces
<1>10. /\ client = "built" /\ ~ Running(t) /\ calls' \in 0 .. MaxCalls
       /\ Apart(t) /\ CallOK(op'[t]) /\ Same(op'[t], x)
       /\ op'[t].alone <=> \A u \in Threads : ~ Running(u)
       /\ \A s \in Threads \ {t} : op'[s].alone <=> op[s].alone /\ ~ Running(s)
  BY <1>1, <1>9, BeginEffect
<1>11. /\ op'[t].at = "holding" /\ op'[t].pos = 1 /\ op'[t].list = providers /\ op'[t].outcome = None
  BY <1>2, <1>6, <1>10 DEF Same
<1> QED BY <1>10, <1>11

LEMMA RefreshEffect ==
    ASSUME Typed, NEW t \in Threads, refresh_models(t)
    PROVE  /\ client = "built" /\ ~ Running(t) /\ calls' \in 0 .. MaxCalls
           /\ Apart(t) /\ CallOK(op'[t]) /\ op'[t].at = "asking" /\ op'[t].pos = 1
           /\ ~ op'[t].changed /\ op'[t].outcome = None
           /\ op'[t].alone <=> \A u \in Threads : ~ Running(u)
           /\ \A s \in Threads \ {t} : op'[s].alone <=> op[s].alone /\ ~ Running(s)
<1> DEFINE q == NewOp
           x == [q EXCEPT !.at = "asking"]
<1>1. Begin(t, x)
  BY DEF refresh_models
<1>2. CallOK(q) /\ q.pos = 1 /\ ~ q.changed /\ q.outcome = None
  BY NoCall
<1> HIDE DEF q
<1>3. x = [q EXCEPT !.at = "asking"]
  OBVIOUS
<1> HIDE DEF x
<1>4. x = [at |-> "asking", wish |-> q.wish, list |-> q.list, provider |-> q.provider, pos |-> q.pos, idx |-> q.idx,
           changed |-> q.changed, alone |-> q.alone, outcome |-> q.outcome, plan |-> q.plan]
  BY <1>2, <1>3 DEF CallOK
<1>5. /\ x.at = "asking" /\ x.wish = q.wish /\ x.list = q.list /\ x.provider = q.provider /\ x.pos = q.pos /\ x.idx = q.idx
      /\ x.changed = q.changed /\ x.alone = q.alone /\ x.outcome = q.outcome /\ x.plan = q.plan
  BY <1>4
<1>6. x = [at |-> x.at, wish |-> x.wish, list |-> x.list, provider |-> x.provider, pos |-> x.pos, idx |-> x.idx,
           changed |-> x.changed, alone |-> x.alone, outcome |-> x.outcome, plan |-> x.plan]
  BY <1>4, <1>5, Zenon
<1>7. x.changed \in BOOLEAN /\ x.alone \in BOOLEAN
  BY <1>2, <1>3, <1>5, Zenon DEF CallOK
<1>8. CallOK(x)
  BY <1>2, <1>3, <1>5, <1>6, <1>7 DEF CallOK, CodePlaces
<1>9. /\ client = "built" /\ ~ Running(t) /\ calls' \in 0 .. MaxCalls
      /\ Apart(t) /\ CallOK(op'[t]) /\ Same(op'[t], x)
      /\ op'[t].alone <=> \A u \in Threads : ~ Running(u)
      /\ \A s \in Threads \ {t} : op'[s].alone <=> op[s].alone /\ ~ Running(s)
  BY <1>1, <1>8, BeginEffect
<1>10. op'[t].at = "asking" /\ op'[t].pos = 1 /\ ~ op'[t].changed /\ op'[t].outcome = None
  BY <1>2, <1>5, <1>9 DEF Same
<1> QED BY <1>9, <1>10

LEMMA NothingNewEffect ==
    ASSUME Typed, NEW t \in Threads, NEW listing, AnsweredNothingNew(t, listing)
    PROVE  /\ Running(t) /\ Apart(t) /\ Still(t) /\ CallOK(op'[t])
           /\ op'[t].at = "asking" /\ op'[t].pos = op[t].pos + 1 /\ op[t].pos \in 1 .. Len(providers)
           /\ op'[t].changed = op[t].changed /\ op'[t].alone = op[t].alone /\ op'[t].outcome = op[t].outcome
<1> DEFINE q == op[t]
           n == q.pos + 1
           x == [q EXCEPT !.at = "asking", !.pos = n, !.provider = None]
<1>1. CallOK(q) /\ q.at = "awaiting" /\ op' = [op EXCEPT ![t] = x] /\ q.idx \in Nat \ {0}
  BY DEF Typed, CallOK, AnsweredNothingNew
<1>2. x = [q EXCEPT !.at = "asking", !.pos = n, !.provider = None]
  OBVIOUS
<1> HIDE DEF q, n, x
<1>3. x = [at |-> "asking", wish |-> q.wish, list |-> q.list, provider |-> None, pos |-> n, idx |-> q.idx,
           changed |-> q.changed, alone |-> q.alone, outcome |-> q.outcome, plan |-> q.plan]
  BY <1>1, <1>2 DEF CallOK
<1> QED BY <1>1, <1>3, GoOnEffect DEF q, n

\* What a refresh stores was looked up where it is stored.
LEMMA StoreEffect ==
    ASSUME Typed, NEW t \in Threads, Store(t)
    PROVE  /\ Running(t) /\ Apart(t) /\ Still(t) /\ CallOK(op'[t])
           /\ op'[t].at = "asking" /\ op'[t].pos = op[t].pos + 1 /\ op[t].pos \in 1 .. Len(providers)
           /\ op'[t].changed /\ op'[t].alone = op[t].alone /\ op'[t].outcome = op[t].outcome
           /\ op[t].at = "found" /\ op[t].provider \in AllProviders /\ op[t].idx \in DOMAIN providers
           /\ providers[op[t].idx].name = op[t].provider.name
           /\ providers' = [providers EXCEPT ![op[t].idx] = op[t].provider]
           /\ providers' \in Seq(AllProviders) /\ Grown(providers, providers') /\ Len(providers') = Len(providers)
<1> DEFINE q == op[t]
           n == q.pos + 1
<1>0. PICK one \in Nat \ {0} : one = 1
  OBVIOUS
<1> DEFINE x == [q EXCEPT !.at = "asking", !.pos = n, !.idx = one, !.provider = None]
<1>1. CallOK(q) /\ q.at = "found" /\ op' = [op EXCEPT ![t] = x] /\ q.changed
  BY <1>0 DEF Typed, CallOK, Store
<1>2. x = [q EXCEPT !.at = "asking", !.pos = n, !.idx = one, !.provider = None]
  OBVIOUS
<1>3. q.provider \in AllProviders /\ q.idx \in DOMAIN providers /\ providers[q.idx].name = q.provider.name
  <2>1. q.idx \in Nat \ {0} /\ q.idx <= Len(providers) /\ providers \in Seq(AllProviders)
    BY <1>1 DEF CallOK, Typed, InPlace
  <2>2. q.provider \in AllProviders /\ providers[q.idx].name = q.provider.name
    BY <1>1 DEF CallOK, Typed, InPlace
  <2> HIDE DEF q
  <2> QED BY <2>1, <2>2
<1>4. providers' = [providers EXCEPT ![q.idx] = q.provider] /\ providers \in Seq(AllProviders)
  BY DEF Store, Typed
<1> HIDE DEF q, n, x
<1>5. x = [at |-> "asking", wish |-> q.wish, list |-> q.list, provider |-> None, pos |-> n, idx |-> one,
           changed |-> q.changed, alone |-> q.alone, outcome |-> q.outcome, plan |-> q.plan]
  BY <1>1, <1>2 DEF CallOK
<1>6. providers' \in Seq(AllProviders) /\ Grown(providers, providers') /\ Len(providers') = Len(providers)
  BY <1>3, <1>4, GrownInside
<1>7. /\ Running(t) /\ Apart(t) /\ Still(t) /\ CallOK(op'[t])
      /\ op'[t].at = "asking" /\ op'[t].pos = op[t].pos + 1 /\ op[t].pos \in 1 .. Len(providers)
      /\ op'[t].changed = op[t].changed /\ op'[t].alone = op[t].alone /\ op'[t].outcome = op[t].outcome
  BY <1>1, <1>5, GoOnEffect DEF q, n
<1> QED BY <1>1, <1>3, <1>4, <1>6, <1>7 DEF q

LEMMA FoundPlace ==
    ASSUME Typed, NEW t \in Threads, Places(t) # {}
    PROVE  First(Places(t)) \in DOMAIN providers /\ providers[First(Places(t))] = op[t].provider
<1> DEFINE T == Places(t)
<1>1. T \subseteq DOMAIN providers /\ DOMAIN providers \subseteq Nat
  BY DEF Places, Typed
<1>2. \E x \in T : \A y \in T : x <= y
  <2> HIDE DEF T
  <2>1. T \subseteq Nat
    BY <1>1
  <2>2. T # {}
    BY DEF T
  <2> QED BY <2>1, <2>2, Least
<1>3. First(T) \in T
  <2> HIDE DEF T
  <2> QED BY <1>2 DEF First
<1> QED BY <1>3 DEF Places

\* Only the ids of the answer, and in its order.
LEMMA IdsAreNumbers ==
    ASSUME NEW t, NEW listing \in Listings
    PROVE  /\ NewIds(t, listing) \in Seq(Nat)
           /\ Range(NewIds(t, listing)) \cap IdsIn(op[t].provider) = {}
<1> DEFINE S == Range(listing) \ IdsIn(op[t].provider)
<1>1. listing \in Seq(Nat)
  BY CatalogueAssumption DEF CatalogueAssumption
<1>2. NewIds(t, listing) = Picked(listing, S)
  BY DEF NewIds
<1>3. S \cap IdsIn(op[t].provider) = {}
  OBVIOUS
<1> HIDE DEF S
<1>4. Picked(listing, S) \in Seq(Nat) /\ Range(Picked(listing, S)) = Range(listing) \cap S
  BY <1>1, PickedElements
<1> QED BY <1>2, <1>3, <1>4

LEMMA NewEffect ==
    ASSUME Typed, NEW t \in Threads, NEW listing \in Listings, AnsweredNew(t, listing)
    PROVE  /\ Running(t) /\ Apart(t) /\ Still(t) /\ CallOK(op'[t]) /\ InPlace(op'[t], providers)
           /\ op'[t].at = "found" /\ op'[t].changed /\ op'[t].alone = op[t].alone
           /\ op'[t].outcome = op[t].outcome
           /\ op[t].provider \in AllProviders /\ NewIds(t, listing) \in Seq(Nat)
           /\ op'[t].provider = With(op[t].provider, NewIds(t, listing))
           /\ providers[op'[t].idx] = op[t].provider
<1> DEFINE q == op[t]
           ids == NewIds(t, listing)
           k == First(Places(t))
           p == With(q.provider, ids)
<1>1. CallOK(q) /\ q.at = "awaiting" /\ q.provider \in AllProviders /\ InPlace(q, providers)
  BY DEF Typed, CallOK, AnsweredNew
<1>2. ids \in Seq(Nat) /\ k \in DOMAIN providers /\ providers[k] = q.provider
  BY IdsAreNumbers, FoundPlace DEF AnsweredNew
<1>3. PICK c \in BOOLEAN : c = TRUE
  OBVIOUS
<1> DEFINE x == [q EXCEPT !.at = "found", !.provider = p, !.idx = k, !.changed = c]
<1>4. op' = [op EXCEPT ![t] = x]
  BY <1>3 DEF AnsweredNew, Located
<1>5. p \in AllProviders /\ p.name = q.provider.name
  BY <1>1, <1>2, ExtendedProvider
<1>6. k \in Nat \ {0} /\ k <= Len(providers) /\ Len(providers) \in Nat
  <2>1. providers \in Seq(AllProviders)
    BY DEF Typed
  <2> HIDE DEF k
  <2> QED BY <1>2, <2>1
<1>7. x = [q EXCEPT !.at = "found", !.provider = p, !.idx = k, !.changed = c]
  OBVIOUS
<1> HIDE DEF q, k, p, ids, x
<1>8. x = [at |-> "found", wish |-> q.wish, list |-> q.list, provider |-> p, pos |-> q.pos, idx |-> k,
           changed |-> c, alone |-> q.alone, outcome |-> q.outcome, plan |-> q.plan]
  BY <1>1, <1>7 DEF CallOK
<1>9. /\ x.at = "found" /\ x.wish = q.wish /\ x.list = q.list /\ x.provider = p /\ x.pos = q.pos /\ x.idx = k
      /\ x.changed = c /\ x.alone = q.alone /\ x.outcome = q.outcome /\ x.plan = q.plan
  BY <1>8
<1>10. x = [at |-> x.at, wish |-> x.wish, list |-> x.list, provider |-> x.provider, pos |-> x.pos, idx |-> x.idx,
            changed |-> x.changed, alone |-> x.alone, outcome |-> x.outcome, plan |-> x.plan]
  BY <1>8, <1>9, Zenon
<1>11. x.changed \in BOOLEAN /\ x.alone \in BOOLEAN /\ x.changed
  BY <1>1, <1>3, <1>9, Zenon DEF CallOK
<1>12. CallOK(x)
  BY <1>1, <1>5, <1>6, <1>9, <1>10, <1>11 DEF CallOK, CodePlaces
<1>13. InPlace(x, providers)
  BY <1>1, <1>2, <1>5, <1>6, <1>9 DEF InPlace
<1>14. op'[t] = x /\ Apart(t) /\ Still(t)
  BY <1>4, <1>12, MoveEffect DEF Still
<1>15. q.at # "idle"
  BY <1>1
<1> QED BY <1>1, <1>2, <1>9, <1>11, <1>12, <1>13, <1>14, <1>15 DEF Running, q, ids, p

\* What is available of the table.
LEMMA AvailableProviders ==
    ASSUME NEW env
    PROVE  LET available == filter_available_providers(default_providers, env)
           IN  /\ available \in Seq(AllProviders) /\ Range(available) \subseteq Range(default_providers)
               /\ build_adapters(available, env) = NamesIn(available)
<1> DEFINE table == default_providers
           S == {p \in Range(table) : Available(p, env)}
           available == Picked(table, S)
<1>1. available \in Seq(Range(table)) /\ Range(available) = Range(table) \cap S
  <2> HIDE DEF S
  <2>1. table \in Seq(Range(table))
    BY TableIsSound
  <2> HIDE DEF table
  <2> QED BY <2>1, PickedElements
<1>2. Range(table) \subseteq AllProviders
  BY GivenIsTyped DEF Given
<1>3. \A p \in Range(available) : Available(p, env)
  BY <1>1
<1>4. filter_available_providers(default_providers, env) = available
  BY DEF filter_available_providers
<1> HIDE DEF available, table
<1>5. available \in Seq(AllProviders)
  BY <1>1, <1>2
<1>6. build_adapters(available, env) = {p.name : p \in Range(available)}
  BY <1>3 DEF build_adapters
<1>7. {p.name : p \in Range(available)} = NamesIn(available)
  BY DEF NamesIn, Range
<1> QED BY <1>1, <1>4, <1>5, <1>6, <1>7 DEF table
-----------------------------------------------------------------------------
\* Every step keeps the types.
LEMMA TypedInit == Init => Typed
<1> SUFFICES ASSUME Init PROVE Typed
  OBVIOUS
<1>1. <<>> \in Seq(AllProviders) /\ calls \in 0 .. MaxCalls
  BY CatalogueAssumption DEF Init, CatalogueAssumption
<1>2. \A t \in Threads : op[t] = NewOp
  BY DEF Init
<1>3. op = [t \in Threads |-> op[t]]
  BY DEF Init
<1>4. ASSUME NEW t \in Threads PROVE CallOK(op[t]) /\ InPlace(op[t], providers) /\ ~ Running(t)
  <2>1. 1 <= Len(<<>>) + 1
    OBVIOUS
  <2> QED BY <1>2, <2>1, NoCall DEF Init, InPlace, Running
<1>5. client = "none" /\ providers = <<>> /\ planner = <<>>
  BY DEF Init
<1> QED BY <1>1, <1>3, <1>4, <1>5 DEF Typed

\* A call begins, goes on or ends where the list stays as it is,
LEMMA PlaceKept ==
    ASSUME Typed, NEW t \in Threads, Apart(t), CallOK(op'[t]), client = "built", client' = client,
           calls' \in 0 .. MaxCalls, providers' = providers, planner' \in Seq(AllProviders), planner' # <<>>,
           op'[t].at \notin {"listed", "awaiting", "found"}, op'[t].pos \in 1 .. Len(providers) + 1
    PROVE  Typed'
<1>1. providers \in Seq(AllProviders) /\ Grown(providers, providers)
  BY GrownSame DEF Typed
<1>2. InPlace(op'[t], providers')
  BY DEF InPlace
<1> QED BY <1>1, <1>2, TypedKept

\* and in most steps the planner too.
LEMMA PlanKept ==
    ASSUME Typed, NEW t \in Threads, Apart(t), CallOK(op'[t]), client = "built", client' = client,
           calls' \in 0 .. MaxCalls, providers' = providers, planner' = planner,
           op'[t].at \notin {"listed", "awaiting", "found"}, op'[t].pos \in {1, op[t].pos}
    PROVE  Typed'
<1>1. planner' \in Seq(AllProviders) /\ planner' # <<>>
  BY DEF Typed
<1>2. op'[t].pos \in 1 .. Len(providers) + 1
  <2>1. op[t].pos \in Nat \ {0} /\ op[t].pos <= Len(providers) + 1 /\ Len(providers) \in Nat
    BY DEF Typed, CallOK, InPlace
  <2> QED BY <2>1
<1> QED BY <1>1, <1>2, PlaceKept

LEMMA CallsKept == ASSUME Typed, calls' = calls PROVE calls' \in 0 .. MaxCalls
BY DEF Typed

LEMMA RunningIsBuilt == ASSUME Typed, NEW t \in Threads, Running(t) PROVE client = "built"
BY DEF Typed

LEMMA CallCounted == ASSUME Typed, Call PROVE calls' \in 0 .. MaxCalls
BY CatalogueAssumption DEF Typed, Call, CatalogueAssumption

LEMMA EnvTyped == ASSUME Typed, NEW s \in Starts, from_env(s) PROVE Typed'
<1>1. client # "built" /\ op' = op /\ calls' \in 0 .. MaxCalls
  BY CallCounted DEF from_env
<1>2. \A t \in Threads : ~ Running(t)
  BY <1>1 DEF Typed
<1> DEFINE env == resolve_env(s.lines, s.environ)
           available == filter_available_providers(default_providers, env)
<1>3. \/ client' = "built" /\ providers' = available /\ planner' = available /\ available # <<>>
      \/ client' = "refused" /\ providers' = providers /\ planner' = planner
  BY DEF from_env, lists
<1>4. available \in Seq(AllProviders)
  <2> HIDE DEF env
  <2> QED BY AvailableProviders
<1> HIDE DEF available
<1>5. providers' \in Seq(AllProviders) /\ planner' \in Seq(AllProviders)
  BY <1>3, <1>4 DEF Typed
<1>6. ASSUME NEW t \in Threads PROVE CallOK(op'[t]) /\ InPlace(op'[t], providers') /\ ~ Running(t)'
  <2>1. CallOK(op[t]) /\ op[t].at = "idle" /\ op[t].pos = 1
    BY <1>2 DEF Typed, CallOK, Running
  <2>2. 1 <= Len(providers') + 1
    BY <1>5
  <2> QED BY <1>1, <2>1, <2>2 DEF InPlace, Running
<1> QED BY <1>1, <1>3, <1>5, <1>6 DEF Typed

LEMMA SameOpTyped ==
    ASSUME Typed, op' = op, client' = client, providers' = providers, planner' = planner, calls' \in 0 .. MaxCalls
    PROVE  Typed'
BY DEF Typed, Running

LEMMA AddTyped == ASSUME Typed, NEW t \in Threads, NEW p \in MoreProviders, add_provider(t, p) PROVE Typed'
<1>1. /\ client = "built" /\ calls' \in 0 .. MaxCalls /\ p \in AllProviders
      /\ Apart(t) /\ CallOK(op'[t]) /\ op'[t].at = "listed" /\ op'[t].provider = p /\ op'[t].pos = 1
  BY AddEffect
<1>2. providers' = Append(providers, p) /\ planner' = planner /\ client' = client
  BY DEF add_provider, setup
<1>3. providers \in Seq(AllProviders) /\ planner' \in Seq(AllProviders) /\ planner' # <<>>
  BY <1>1, <1>2 DEF Typed
<1>4. providers' \in Seq(AllProviders) /\ Grown(providers, providers')
  BY <1>1, <1>2, <1>3, GrownByOne
<1>5. InPlace(op'[t], providers')
  <2>1. Len(providers) \in Nat /\ Len(providers') = Len(providers) + 1 /\ providers'[Len(providers')] = p
        /\ Len(providers') \in DOMAIN providers'
    BY <1>1, <1>2, <1>3
  <2>2. p.name \in NamesIn(providers')
    BY <2>1 DEF NamesIn
  <2>3. 1 <= Len(providers') + 1
    BY <2>1
  <2> QED BY <1>1, <2>2, <2>3 DEF InPlace
<1> QED BY <1>1, <1>2, <1>3, <1>4, <1>5, TypedKept

LEMMA MoveTyped ==
    ASSUME Typed, NEW t \in Threads, AddAdapter(t) \/ Snapshot(t) \/ InstallPlanner(t) \/ WalkEnds(t) \/ AskProvider(t)
    PROVE  Typed'
<1>1. CASE AddAdapter(t)
  <2>1. client' = client /\ providers' = providers /\ planner' = planner /\ calls' = calls
    BY <1>1 DEF AddAdapter, setup
  <2> QED BY <1>1, <2>1, AdapterEffect, RunningIsBuilt, CallsKept, PlanKept
<1>2. CASE Snapshot(t)
  <2>1. client' = client /\ providers' = providers /\ planner' = planner /\ calls' = calls
    BY <1>2 DEF Snapshot, lists, setup
  <2> QED BY <1>2, <2>1, SnapshotEffect, RunningIsBuilt, CallsKept, PlanKept
<1>3. CASE InstallPlanner(t)
  <2>1. client' = client /\ providers' = providers /\ calls' = calls
    BY <1>3 DEF InstallPlanner, setup
  <2>2. op[t].pos \in 1 .. Len(providers) + 1 /\ 1 \in 1 .. Len(providers) + 1
    <3>1. op[t].pos \in Nat \ {0} /\ op[t].pos <= Len(providers) + 1 /\ Len(providers) \in Nat
      BY DEF Typed, CallOK, InPlace
    <3> QED BY <3>1
  <2>3. /\ Running(t) /\ Apart(t) /\ CallOK(op'[t]) /\ op'[t].at \in {"idle", "planning"}
        /\ op'[t].pos \in {1, op[t].pos} /\ planner' \in Seq(AllProviders) /\ planner' # <<>>
    BY <1>3, InstallEffect
  <2> QED BY <2>1, <2>2, <2>3, RunningIsBuilt, CallsKept, PlaceKept
<1>4. CASE WalkEnds(t)
  <2>1. client' = client /\ providers' = providers /\ planner' = planner /\ calls' = calls
    BY <1>4 DEF WalkEnds, lists, setup
  <2> QED BY <1>4, <2>1, WalkEffect, RunningIsBuilt, CallsKept, PlanKept
<1>5. CASE AskProvider(t)
  <2>1. client' = client /\ providers' = providers /\ planner' = planner /\ calls' = calls
    BY <1>5 DEF AskProvider, lists, setup
  <2>2. /\ Running(t) /\ Apart(t) /\ CallOK(op'[t])
        /\ op'[t].at \in {"asking", "awaiting"} /\ op'[t].pos \in 1 .. Len(providers) + 1
        /\ op'[t].at = "awaiting" => op'[t].pos \in 1 .. Len(providers)
    BY <1>5, AskEffect
  <2>3. providers \in Seq(AllProviders) /\ client = "built" /\ planner' \in Seq(AllProviders) /\ planner' # <<>>
    BY <2>1, <2>2, RunningIsBuilt DEF Typed
  <2>4. InPlace(op'[t], providers')
    BY <2>1, <2>2, <2>3 DEF InPlace
  <2>5. Grown(providers, providers')
    BY <2>1, <2>3, GrownSame
  <2> QED BY <2>1, <2>2, <2>3, <2>4, <2>5, CallsKept, TypedKept
<1> QED BY <1>1, <1>2, <1>3, <1>4, <1>5

LEMMA AnswerTyped ==
    ASSUME Typed, NEW t \in Threads, NEW listing \in Listings,
           AnsweredNothingNew(t, listing) \/ AnsweredNew(t, listing) \/ AnsweredLost(t, listing)
    PROVE  Typed'
<1>1. CASE AnsweredNothingNew(t, listing)
  <2>1. client' = client /\ providers' = providers /\ planner' = planner /\ calls' = calls
    BY <1>1 DEF AnsweredNothingNew, lists, setup
  <2>2. /\ Running(t) /\ Apart(t) /\ CallOK(op'[t])
        /\ op'[t].at = "asking" /\ op'[t].pos = op[t].pos + 1 /\ op[t].pos \in 1 .. Len(providers)
    BY <1>1, NothingNewEffect
  <2>3. client = "built" /\ planner' \in Seq(AllProviders) /\ planner' # <<>> /\ providers \in Seq(AllProviders)
    BY <2>1, <2>2, RunningIsBuilt DEF Typed
  <2>4. op'[t].pos \in 1 .. Len(providers) + 1
    BY <2>2, <2>3
  <2> QED BY <2>1, <2>2, <2>3, <2>4, CallsKept, PlaceKept
<1>2. CASE AnsweredNew(t, listing)
  <2>1. client' = client /\ providers' = providers /\ planner' = planner /\ calls' = calls
    BY <1>2 DEF AnsweredNew, lists, setup
  <2>2. Running(t) /\ Apart(t) /\ CallOK(op'[t]) /\ InPlace(op'[t], providers)
    BY <1>2, NewEffect
  <2>3. client = "built" /\ planner' \in Seq(AllProviders) /\ planner' # <<>> /\ providers \in Seq(AllProviders)
    BY <2>1, <2>2, RunningIsBuilt DEF Typed
  <2>4. Grown(providers, providers')
    BY <2>1, <2>3, GrownSame
  <2> QED BY <2>1, <2>2, <2>3, <2>4, CallsKept, TypedKept
<1>3. CASE AnsweredLost(t, listing)
  <2>1. client' = client /\ providers' = providers /\ planner' = planner /\ calls' = calls /\ op[t].at = "awaiting"
    BY <1>3 DEF AnsweredLost, lists, setup
  <2>2. Apart(t) /\ CallOK(op'[t]) /\ op'[t].at = "idle" /\ op'[t].pos = 1
    BY <1>3, EndEffect DEF AnsweredLost
  <2>3. client = "built"
    BY <2>1, RunningIsBuilt DEF Running
  <2> QED BY <2>1, <2>2, <2>3, CallsKept, PlanKept
<1> QED BY <1>1, <1>2, <1>3

LEMMA StoreTyped == ASSUME Typed, NEW t \in Threads, Store(t) PROVE Typed'
<1>1. client' = client /\ planner' = planner /\ calls' = calls
  BY DEF Store, setup
<1>2. /\ Running(t) /\ Apart(t) /\ CallOK(op'[t])
      /\ op'[t].at = "asking" /\ op'[t].pos = op[t].pos + 1 /\ op[t].pos \in 1 .. Len(providers)
      /\ providers' \in Seq(AllProviders) /\ Grown(providers, providers') /\ Len(providers') = Len(providers)
  BY StoreEffect
<1>3. client = "built" /\ planner' \in Seq(AllProviders) /\ planner' # <<>> /\ providers \in Seq(AllProviders)
  BY <1>1, <1>2, RunningIsBuilt DEF Typed
<1>4. InPlace(op'[t], providers')
  <2>1. op'[t].pos <= Len(providers') + 1
    BY <1>2, <1>3
  <2> QED BY <1>2, <2>1 DEF InPlace
<1> QED BY <1>1, <1>2, <1>3, <1>4, CallsKept, TypedKept

LEMMA RequestTyped ==
    ASSUME Typed, NEW t \in Threads, NEW wish \in Wishes,
           chat(t, wish) \/ ChatRefused(t, wish) \/ stream(t, wish)
    PROVE  Typed'
<1>1. client' = client /\ providers' = providers /\ planner' = planner
  BY DEF chat, ChatRefused, stream, lists, setup
<1>2. CASE chat(t, wish)
  BY <1>1, <1>2, ChatEffect, PlanKept
<1>3. CASE ChatRefused(t, wish)
  <2>1. client = "built" /\ calls' \in 0 .. MaxCalls /\ End(t, "unknown_capability")
    BY <1>3, CallCounted DEF ChatRefused, CallBy
  <2> QED BY <1>1, <2>1, EndEffect, PlanKept
<1>4. CASE stream(t, wish)
  <2>1. client = "built" /\ calls' \in 0 .. MaxCalls /\ EndPlanning(t, RequestOf(wish))
    BY <1>4, CallCounted DEF stream, CallBy
  <2> QED BY <1>1, <2>1, PlanningEffect, PlanKept
<1> QED BY <1>2, <1>3, <1>4

LEMMA TypedNext == Typed /\ [Next]_vars => Typed'
<1> SUFFICES ASSUME Typed, [Next]_vars PROVE Typed'
  OBVIOUS
<1>1. CASE UNCHANGED vars
  <2>1. op' = op /\ client' = client /\ providers' = providers /\ planner' = planner /\ calls' = calls
    BY <1>1 DEF vars, lists, setup
  <2> QED BY <2>1, CallsKept, SameOpTyped
<1>2. ASSUME NEW s \in Starts, from_env(s) PROVE Typed'
  BY <1>2, EnvTyped
<1>3. ASSUME NEW t \in Threads, NEW p \in NewPolicies, register_policy(t, p[1], p[2]) PROVE Typed'
  <2>1. op' = op /\ client' = client /\ providers' = providers /\ planner' = planner /\ calls' \in 0 .. MaxCalls
    BY <1>3, CallCounted DEF register_policy, CallBy, lists, setup
  <2> QED BY <2>1, SameOpTyped
<1>4. ASSUME NEW t \in Threads, NEW p \in MoreProviders, add_provider(t, p) PROVE Typed'
  BY <1>4, AddTyped
<1>5. ASSUME NEW t \in Threads, AddAdapter(t) \/ Snapshot(t) \/ InstallPlanner(t) \/ AskProvider(t) \/ WalkEnds(t)
      PROVE  Typed'
  BY <1>5, MoveTyped
<1>6. ASSUME NEW t \in Threads, refresh_models(t) PROVE Typed'
  <2>1. client' = client /\ providers' = providers /\ planner' = planner
    BY <1>6 DEF refresh_models, lists, setup
  <2> QED BY <1>6, <2>1, RefreshEffect, PlanKept
<1>7. ASSUME NEW t \in Threads, NEW listing \in Listings,
             AnsweredNothingNew(t, listing) \/ AnsweredNew(t, listing) \/ AnsweredLost(t, listing)
      PROVE  Typed'
  BY <1>7, AnswerTyped
<1>11. ASSUME NEW t \in Threads, Store(t) PROVE Typed'
  BY <1>11, StoreTyped
<1>12. ASSUME NEW t \in Threads, RefuseAddress(t) PROVE Typed'
  <2>1. client' = client /\ providers' = providers /\ planner' = planner /\ calls' = calls /\ Running(t)
        /\ End(t, "no_address")
    BY <1>12 DEF RefuseAddress, lists, setup, Running
  <2> QED BY <2>1, RunningIsBuilt, EndEffect, CallsKept, PlanKept
<1>8. ASSUME NEW t \in Threads, AnsweredMalformed(t) PROVE Typed'
  <2>1. client' = client /\ providers' = providers /\ planner' = planner /\ calls' = calls /\ Running(t)
        /\ End(t, "malformed")
    BY <1>8 DEF AnsweredMalformed, lists, setup, Running
  <2> QED BY <2>1, RunningIsBuilt, EndEffect, CallsKept, PlanKept
<1>9. ASSUME NEW t \in Threads, NEW wish \in Wishes, chat(t, wish) \/ ChatRefused(t, wish) \/ stream(t, wish)
      PROVE  Typed'
  BY <1>9, RequestTyped
<1>10. ASSUME NEW t \in Threads, MakePlan(t) PROVE Typed'
  <2>1. client' = client /\ providers' = providers /\ planner' = planner /\ client = "built" /\ calls' = calls
        /\ EndPlanning(t, op[t].wish)
    BY <1>10, RunningIsBuilt DEF MakePlan, Running, lists, setup
  <2> QED BY <2>1, PlanningEffect, CallsKept, PlanKept
<1> QED BY <1>1, <1>2, <1>3, <1>4, <1>5, <1>6, <1>7, <1>8, <1>9, <1>10, <1>11, <1>12 DEF Next

LEMMA TypedAlways == Spec => []Typed
BY TypedInit, TypedNext, PTL DEF Spec
-----------------------------------------------------------------------------
\* A call that no other overlaps: nothing else runs, the list it copied is still
\* the client's, so is the provider it asks, and what it stores only adds to it.
Undisturbed ==
    \A t \in Threads : op[t].alone =>
        /\ Running(t) => \A s \in Threads \ {t} : ~ Running(s)
        /\ op[t].at = "holding" => op[t].list = providers
        /\ op[t].at = "awaiting" => providers[op[t].pos] = op[t].provider
        /\ op[t].at = "found" => IsPrefix(providers[op[t].idx].models, op[t].provider.models)
        /\ op[t].outcome # "lost"

\* A call goes on,
LEMMA UndisturbedMoves ==
    ASSUME Typed, Undisturbed, NEW t \in Threads, Running(t), Still(t), op'[t].alone = op[t].alone,
           op[t].alone =>
               /\ op'[t].at = "holding" => op'[t].list = providers'
               /\ op'[t].at = "awaiting" => providers'[op'[t].pos] = op'[t].provider
               /\ op'[t].at = "found" => IsPrefix(providers'[op'[t].idx].models, op'[t].provider.models)
               /\ op'[t].outcome # "lost"
    PROVE  Undisturbed'
<1> SUFFICES ASSUME NEW s \in Threads, op'[s].alone
             PROVE  /\ Running(s)' => \A u \in Threads \ {s} : ~ Running(u)'
                    /\ op'[s].at = "holding" => op'[s].list = providers'
                    /\ op'[s].at = "awaiting" => providers'[op'[s].pos] = op'[s].provider
                    /\ op'[s].at = "found" => IsPrefix(providers'[op'[s].idx].models, op'[s].provider.models)
                    /\ op'[s].outcome # "lost"
  BY DEF Undisturbed
<1>1. CASE s = t
  <2>1. op[t].alone
    BY <1>1
  <2>2. \A u \in Threads \ {t} : ~ Running(u)
    BY <2>1 DEF Undisturbed
  <2>3. \A u \in Threads \ {s} : ~ Running(u)'
    BY <1>1, <2>2 DEF Running, Still
  <2> QED BY <1>1, <2>1, <2>3
<1>2. CASE s # t
  <2>1. op'[s] = op[s]
    BY <1>2 DEF Still
  <2>2. op[s].alone /\ ~ Running(s) /\ op[s].outcome # "lost"
    BY <1>2, <2>1 DEF Undisturbed
  <2> QED BY <2>1, <2>2 DEF Running
<1> QED BY <1>1, <1>2

\* begins,
LEMMA UndisturbedBegins ==
    ASSUME Typed, Undisturbed, NEW t \in Threads, Apart(t),
           op'[t].alone <=> \A u \in Threads : ~ Running(u),
           \A s \in Threads \ {t} : op'[s].alone <=> op[s].alone /\ ~ Running(s),
           op'[t].at \notin {"awaiting", "found"}, op'[t].at = "holding" => op'[t].list = providers',
           op'[t].outcome = None
    PROVE  Undisturbed'
<1> SUFFICES ASSUME NEW s \in Threads, op'[s].alone
             PROVE  /\ Running(s)' => \A u \in Threads \ {s} : ~ Running(u)'
                    /\ op'[s].at = "holding" => op'[s].list = providers'
                    /\ op'[s].at = "awaiting" => providers'[op'[s].pos] = op'[s].provider
                    /\ op'[s].at = "found" => IsPrefix(providers'[op'[s].idx].models, op'[s].provider.models)
                    /\ op'[s].outcome # "lost"
  BY DEF Undisturbed
<1>1. CASE s = t
  <2>1. \A u \in Threads \ {s} : ~ Running(u)'
    BY <1>1 DEF Running, Apart, Same
  <2>2. op'[s].outcome # "lost"
    BY <1>1, CatalogueAssumption DEF CatalogueAssumption
  <2> QED BY <1>1, <2>1, <2>2
<1>2. CASE s # t
  <2>1. op[s].alone /\ ~ Running(s) /\ Same(op'[s], op[s])
    BY <1>2 DEF Apart
  <2> QED BY <2>1 DEF Running, Same, Undisturbed
<1> QED BY <1>1, <1>2

\* or is over as soon as it began.
LEMMA UndisturbedRests ==
    ASSUME Undisturbed, NEW t \in Threads, ~ Running(t), Still(t), providers' = providers,
           op'[t].at = "idle", op'[t].alone = op[t].alone, op'[t].outcome # "lost"
    PROVE  Undisturbed'
<1>1. \A s \in Threads : (Running(s)' <=> Running(s)) /\ (op'[s].alone <=> op[s].alone)
  BY DEF Running, Still
<1>2. \A s \in Threads \ {t} : op'[s] = op[s]
  BY DEF Still
<1> QED BY <1>1, <1>2 DEF Undisturbed, Running

LEMMA UndisturbedCalls ==
    ASSUME Typed, Undisturbed, NEW t \in Threads,
           \/ \E p \in MoreProviders : add_provider(t, p)
           \/ refresh_models(t)
           \/ \E wish \in Wishes : chat(t, wish) \/ ChatRefused(t, wish) \/ stream(t, wish)
    PROVE  Undisturbed'
<1>1. ASSUME NEW p \in MoreProviders, add_provider(t, p) PROVE Undisturbed'
  BY <1>1, AddEffect, UndisturbedBegins
<1>2. CASE refresh_models(t)
  BY <1>2, RefreshEffect, UndisturbedBegins
<1>3. ASSUME NEW wish \in Wishes, chat(t, wish) PROVE Undisturbed'
  <2>1. providers' = providers
    BY <1>3 DEF chat, lists
  <2> QED BY <1>3, <2>1, ChatEffect, UndisturbedBegins
<1>4. ASSUME NEW wish \in Wishes, ChatRefused(t, wish) PROVE Undisturbed'
  <2>1. ~ Running(t) /\ End(t, "unknown_capability") /\ providers' = providers
    BY <1>4 DEF ChatRefused, CallBy, lists
  <2> QED BY <2>1, EndEffect, UndisturbedRests
<1>5. ASSUME NEW wish \in Wishes, stream(t, wish) PROVE Undisturbed'
  <2>1. ~ Running(t) /\ EndPlanning(t, RequestOf(wish)) /\ providers' = providers
    BY <1>5 DEF stream, CallBy, lists
  <2> QED BY <2>1, PlanningEffect, UndisturbedRests
<1> QED BY <1>1, <1>2, <1>3, <1>4, <1>5

LEMMA UndisturbedSteps ==
    ASSUME Typed, Undisturbed, NEW t \in Threads,
           \/ AddAdapter(t) \/ Snapshot(t) \/ InstallPlanner(t) \/ AskProvider(t) \/ WalkEnds(t)
           \/ AnsweredMalformed(t) \/ MakePlan(t) \/ Store(t) \/ RefuseAddress(t)
    PROVE  Undisturbed'
<1>0. op[t].alone => op[t].outcome # "lost"
  BY DEF Undisturbed
<1>1. CASE AddAdapter(t)
  BY <1>0, <1>1, AdapterEffect, UndisturbedMoves
<1>2. CASE Snapshot(t)
  <2>1. providers' = providers
    BY <1>2 DEF Snapshot, lists
  <2> QED BY <1>0, <1>2, <2>1, SnapshotEffect, UndisturbedMoves
<1>3. CASE InstallPlanner(t)
  BY <1>0, <1>3, InstallEffect, UndisturbedMoves
<1>4. CASE AskProvider(t)
  <2>1. providers' = providers
    BY <1>4 DEF AskProvider, lists
  <2> QED BY <1>0, <1>4, <2>1, AskEffect, UndisturbedMoves
<1>5. CASE WalkEnds(t)
  BY <1>0, <1>5, WalkEffect, UndisturbedMoves
<1>6. CASE AnsweredMalformed(t)
  <2>1. Running(t) /\ End(t, "malformed")
    BY <1>6 DEF AnsweredMalformed, Running
  <2> QED BY <2>1, EndEffect, UndisturbedMoves
<1>7. CASE MakePlan(t)
  <2>1. Running(t) /\ EndPlanning(t, op[t].wish)
    BY <1>7 DEF MakePlan, Running
  <2> QED BY <2>1, PlanningEffect, UndisturbedMoves
<1>8. CASE Store(t)
  BY <1>0, <1>8, StoreEffect, UndisturbedMoves
<1>9. CASE RefuseAddress(t)
  <2>1. Running(t) /\ End(t, "no_address")
    BY <1>9 DEF RefuseAddress, Running
  <2> QED BY <2>1, EndEffect, UndisturbedMoves
<1> QED BY <1>1, <1>2, <1>3, <1>4, <1>5, <1>6, <1>7, <1>8, <1>9

LEMMA UndisturbedAnswers ==
    ASSUME Typed, Undisturbed, NEW t \in Threads, NEW listing \in Listings,
           AnsweredNothingNew(t, listing) \/ AnsweredNew(t, listing) \/ AnsweredLost(t, listing)
    PROVE  Undisturbed'
<1>0. op[t].alone => op[t].outcome # "lost"
  BY DEF Undisturbed
<1>1. CASE AnsweredNothingNew(t, listing)
  BY <1>0, <1>1, NothingNewEffect, UndisturbedMoves
<1>2. CASE AnsweredNew(t, listing)
  <2> DEFINE p == op[t].provider
             ids == NewIds(t, listing)
  <2>1. /\ Running(t) /\ Still(t) /\ op'[t].at = "found" /\ op'[t].alone = op[t].alone
        /\ op'[t].outcome = op[t].outcome /\ p \in AllProviders /\ ids \in Seq(Nat)
        /\ op'[t].provider = With(p, ids) /\ providers[op'[t].idx] = p
    BY <1>2, NewEffect
  <2>2. providers' = providers
    BY <1>2 DEF AnsweredNew, lists
  <2> HIDE DEF p, ids
  <2>3. IsPrefix(p.models, With(p, ids).models)
    BY <2>1, ExtendedPrefix
  <2>4. IsPrefix(providers'[op'[t].idx].models, op'[t].provider.models)
    BY <2>1, <2>2, <2>3
  <2> QED BY <1>0, <2>1, <2>2, <2>4, UndisturbedMoves
<1>3. CASE AnsweredLost(t, listing)
  <2>1. op[t].at = "awaiting" /\ Places(t) = {} /\ End(t, "lost")
    BY <1>3 DEF AnsweredLost
  <2>2. op[t].pos \in DOMAIN providers
    <3>1. op[t].pos \in Nat \ {0} /\ op[t].pos <= Len(providers) /\ providers \in Seq(AllProviders)
      BY <2>1 DEF Typed, CallOK, InPlace
    <3> QED BY <3>1
  <2>3. ~ op[t].alone
    BY <2>1, <2>2 DEF Undisturbed, Places
  <2> QED BY <2>1, <2>3, EndEffect, UndisturbedMoves DEF Running
<1> QED BY <1>1, <1>2, <1>3

LEMMA UndisturbedNext == Typed /\ Undisturbed /\ [Next]_vars => Undisturbed'
<1> SUFFICES ASSUME Typed, Undisturbed, [Next]_vars PROVE Undisturbed'
  OBVIOUS
<1>1. ASSUME op' = op, providers' = providers PROVE Undisturbed'
  BY <1>1 DEF Undisturbed, Running
<1>2. CASE UNCHANGED vars
  BY <1>1, <1>2 DEF vars, lists
<1>3. ASSUME NEW s \in Starts, from_env(s) PROVE Undisturbed'
  <2>1. op' = op /\ \A t \in Threads : ~ Running(t)
    BY <1>3 DEF from_env, Typed
  <2> QED BY <2>1 DEF Undisturbed, Running
<1>4. ASSUME NEW t \in Threads, NEW p \in NewPolicies, register_policy(t, p[1], p[2]) PROVE Undisturbed'
  BY <1>1, <1>4 DEF register_policy, lists
<1>5. ASSUME NEW t \in Threads,
             \/ \E p \in MoreProviders : add_provider(t, p)
             \/ refresh_models(t)
             \/ \E wish \in Wishes : chat(t, wish) \/ ChatRefused(t, wish) \/ stream(t, wish)
      PROVE  Undisturbed'
  BY <1>5, UndisturbedCalls
<1>6. ASSUME NEW t \in Threads,
             \/ AddAdapter(t) \/ Snapshot(t) \/ InstallPlanner(t) \/ AskProvider(t) \/ WalkEnds(t)
             \/ AnsweredMalformed(t) \/ MakePlan(t) \/ Store(t) \/ RefuseAddress(t)
      PROVE  Undisturbed'
  BY <1>6, UndisturbedSteps
<1>7. ASSUME NEW t \in Threads, NEW listing \in Listings,
             AnsweredNothingNew(t, listing) \/ AnsweredNew(t, listing) \/ AnsweredLost(t, listing)
      PROVE  Undisturbed'
  BY <1>7, UndisturbedAnswers
<1> QED BY <1>2, <1>3, <1>4, <1>5, <1>6, <1>7 DEF Next

LEMMA UndisturbedAlways == Spec => []Undisturbed
<1>1. Init => Undisturbed
  <2> SUFFICES ASSUME Init, NEW t \in Threads
               PROVE  ~ Running(t) /\ op[t].outcome # "lost"
    BY DEF Undisturbed, Running
  <2> QED BY NoCall, CatalogueAssumption DEF Init, Running, CatalogueAssumption
<1> QED BY <1>1, UndisturbedNext, TypedAlways, PTL DEF Spec

\* A refresh that no other call overlaps finds the provider it asked in the list
\* (refresh_models() and its list.index).
THEOREM RefreshCorrect == Spec => []LoneRefreshSucceeds
<1>1. Undisturbed => LoneRefreshSucceeds
  BY DEF Undisturbed, LoneRefreshSucceeds
<1> QED BY <1>1, UndisturbedAlways, PTL
-----------------------------------------------------------------------------
\* A call that has yet to hand a planner what it did to the list, or has copied.
Owes(t) ==
    \/ op[t].at \in {"listed", "resync", "holding", "found"}
    \/ op[t].at \in {"asking", "awaiting"} /\ op[t].changed

\* The planner is behind the list only while someone owes, or once calls overlapped
\* or one raised.
Follows == stale \/ planner = providers \/ \E t \in Threads : Owes(t)

LEMMA SomeoneOwes ==
    ASSUME NEW t \in Threads, Owes(t)' PROVE Follows'
BY DEF Follows

LEMMA OwesNothing ==
    ASSUME Follows, NEW t \in Threads, Apart(t), providers' = providers, planner' = planner,
           stale => stale', Owes(t) => stale' \/ Owes(t)'
    PROVE  Follows'
<1>1. ASSUME NEW s \in Threads, Owes(s), s # t PROVE Owes(s)'
  BY <1>1 DEF Owes, Apart, Same
<1> QED BY <1>1 DEF Follows

LEMMA FollowsCalls ==
    ASSUME Typed, Follows, NEW t \in Threads,
           \/ \E p \in MoreProviders : add_provider(t, p)
           \/ refresh_models(t)
           \/ \E wish \in Wishes : chat(t, wish) \/ ChatRefused(t, wish) \/ stream(t, wish)
    PROVE  Follows'
<1>1. ASSUME NEW p \in MoreProviders, add_provider(t, p) PROVE Follows'
  <2>1. Owes(t)'
    BY <1>1, AddEffect DEF Owes
  <2> QED BY <2>1, SomeoneOwes
<1>2. ASSUME NEW wish \in Wishes, chat(t, wish) PROVE Follows'
  <2>1. Owes(t)'
    BY <1>2, ChatEffect DEF Owes
  <2> QED BY <2>1, SomeoneOwes
<1>3. ASSUME ~ Running(t), Apart(t), providers' = providers, planner' = planner, stale' = stale PROVE Follows'
  <2>1. ~ Owes(t)
    BY <1>3 DEF Owes, Running
  <2> QED BY <1>3, <2>1, OwesNothing
<1>4. CASE refresh_models(t)
  <2>1. providers' = providers /\ planner' = planner /\ stale' = stale
    BY <1>4 DEF refresh_models, lists
  <2> QED BY <1>3, <1>4, <2>1, RefreshEffect
<1>5. ASSUME NEW wish \in Wishes, ChatRefused(t, wish) PROVE Follows'
  <2>1. ~ Running(t) /\ End(t, "unknown_capability") /\ providers' = providers /\ planner' = planner /\ stale' = stale
    BY <1>5 DEF ChatRefused, CallBy, lists
  <2> QED BY <1>3, <2>1, EndEffect
<1>6. ASSUME NEW wish \in Wishes, stream(t, wish) PROVE Follows'
  <2>1. ~ Running(t) /\ EndPlanning(t, RequestOf(wish)) /\ providers' = providers /\ planner' = planner /\ stale' = stale
    BY <1>6 DEF stream, CallBy, lists
  <2> QED BY <1>3, <2>1, PlanningEffect
<1> QED BY <1>1, <1>2, <1>4, <1>5, <1>6

LEMMA FollowsSteps ==
    ASSUME Typed, Undisturbed, Follows, NEW t \in Threads,
           \/ AddAdapter(t) \/ Snapshot(t) \/ InstallPlanner(t) \/ AskProvider(t) \/ WalkEnds(t)
           \/ AnsweredMalformed(t) \/ MakePlan(t) \/ Store(t) \/ RefuseAddress(t)
    PROVE  Follows'
<1>1. CASE AddAdapter(t) \/ Snapshot(t)
  <2>1. Owes(t)'
    BY <1>1, AdapterEffect, SnapshotEffect DEF Owes
  <2> QED BY <2>1, SomeoneOwes
<1>2. CASE InstallPlanner(t)
  <2>1. op[t].at = "holding" /\ planner' = op[t].list /\ providers' = providers
    BY <1>2 DEF InstallPlanner
  <2>2. CASE op[t].alone
    BY <2>1, <2>2 DEF Undisturbed, Follows
  <2>3. CASE ~ op[t].alone
    <3>1. stale'
      BY <1>2, <2>3 DEF InstallPlanner
    <3> QED BY <3>1 DEF Follows
  <2> QED BY <2>2, <2>3
<1>3. CASE AskProvider(t)
  <2>1. providers' = providers /\ planner' = planner /\ stale' = stale
    BY <1>3 DEF AskProvider, lists
  <2>2. Apart(t) /\ (Owes(t) => Owes(t)')
    BY <1>3, AskEffect DEF Owes
  <2> QED BY <2>1, <2>2, OwesNothing
<1>4. CASE WalkEnds(t)
  <2>1. providers' = providers /\ planner' = planner /\ stale' = stale
    BY <1>4 DEF WalkEnds, lists
  <2>2. Apart(t) /\ (Owes(t) => Owes(t)')
    BY <1>4, WalkEffect DEF Owes
  <2> QED BY <2>1, <2>2, OwesNothing
<1>5. CASE AnsweredMalformed(t)
  <2>1. /\ op[t].at = "awaiting" /\ End(t, "malformed") /\ providers' = providers /\ planner' = planner
        /\ stale' = (stale \/ op[t].changed)
    BY <1>5 DEF AnsweredMalformed, lists
  <2>2. Owes(t) => stale'
    BY <2>1 DEF Owes
  <2> QED BY <2>1, <2>2, EndEffect, OwesNothing
<1>6. CASE MakePlan(t)
  <2>1. /\ op[t].at = "planning" /\ EndPlanning(t, op[t].wish) /\ providers' = providers /\ planner' = planner
        /\ stale' = stale
    BY <1>6 DEF MakePlan, lists
  <2>2. ~ Owes(t)
    BY <2>1 DEF Owes
  <2> QED BY <2>1, <2>2, PlanningEffect, OwesNothing
<1>7. CASE Store(t)
  <2>1. Owes(t)'
    BY <1>7, StoreEffect DEF Owes
  <2> QED BY <2>1, SomeoneOwes
<1>8. CASE RefuseAddress(t)
  BY <1>8 DEF RefuseAddress, Follows
<1> QED BY <1>1, <1>2, <1>3, <1>4, <1>5, <1>6, <1>7, <1>8

LEMMA FollowsAnswers ==
    ASSUME Typed, Follows, NEW t \in Threads, NEW listing \in Listings,
           AnsweredNothingNew(t, listing) \/ AnsweredNew(t, listing) \/ AnsweredLost(t, listing)
    PROVE  Follows'
<1>1. CASE AnsweredNothingNew(t, listing)
  <2>1. op[t].at = "awaiting" /\ providers' = providers /\ planner' = planner /\ stale' = stale
    BY <1>1 DEF AnsweredNothingNew, lists
  <2>2. Apart(t) /\ (Owes(t) => Owes(t)')
    BY <1>1, <2>1, NothingNewEffect DEF Owes
  <2> QED BY <2>1, <2>2, OwesNothing
<1>2. CASE AnsweredNew(t, listing)
  <2>1. Owes(t)'
    BY <1>2, NewEffect DEF Owes
  <2> QED BY <2>1, SomeoneOwes
<1>3. CASE AnsweredLost(t, listing)
  <2>1. /\ op[t].at = "awaiting" /\ End(t, "lost") /\ providers' = providers /\ planner' = planner
        /\ stale' = (stale \/ op[t].changed)
    BY <1>3 DEF AnsweredLost, lists
  <2>2. Owes(t) => stale'
    BY <2>1 DEF Owes
  <2> QED BY <2>1, <2>2, EndEffect, OwesNothing
<1> QED BY <1>1, <1>2, <1>3

LEMMA FollowsNext == Typed /\ Undisturbed /\ Follows /\ [Next]_vars => Follows'
<1> SUFFICES ASSUME Typed, Undisturbed, Follows, [Next]_vars PROVE Follows'
  OBVIOUS
<1>1. ASSUME op' = op, providers' = providers, planner' = planner, stale' = stale PROVE Follows'
  BY <1>1 DEF Follows, Owes
<1>2. CASE UNCHANGED vars
  BY <1>1, <1>2 DEF vars, lists
<1>3. ASSUME NEW s \in Starts, from_env(s) PROVE Follows'
  <2>1. op' = op /\ stale' = stale
    BY <1>3 DEF from_env
  <2>2. \/ providers' = planner'
        \/ providers' = providers /\ planner' = planner
    BY <1>3 DEF from_env, lists
  <2> QED BY <1>1, <2>1, <2>2 DEF Follows
<1>4. ASSUME NEW t \in Threads, NEW p \in NewPolicies, register_policy(t, p[1], p[2]) PROVE Follows'
  BY <1>1, <1>4 DEF register_policy, lists
<1>5. ASSUME NEW t \in Threads,
             \/ \E p \in MoreProviders : add_provider(t, p)
             \/ refresh_models(t)
             \/ \E wish \in Wishes : chat(t, wish) \/ ChatRefused(t, wish) \/ stream(t, wish)
      PROVE  Follows'
  BY <1>5, FollowsCalls
<1>6. ASSUME NEW t \in Threads,
             \/ AddAdapter(t) \/ Snapshot(t) \/ InstallPlanner(t) \/ AskProvider(t) \/ WalkEnds(t)
             \/ AnsweredMalformed(t) \/ MakePlan(t) \/ Store(t) \/ RefuseAddress(t)
      PROVE  Follows'
  BY <1>6, FollowsSteps
<1>7. ASSUME NEW t \in Threads, NEW listing \in Listings,
             AnsweredNothingNew(t, listing) \/ AnsweredNew(t, listing) \/ AnsweredLost(t, listing)
      PROVE  Follows'
  BY <1>7, FollowsAnswers
<1> QED BY <1>2, <1>3, <1>4, <1>5, <1>6, <1>7 DEF Next

\* When no call is under way the planner works on the client's list, unless calls
\* overlapped or one raised (add_provider(), refresh_models(), execute()).
THEOREM FollowingCorrect == Spec => []PlannerFollowsList
<1>1. Init => Follows
  BY DEF Init, Follows
<1>2. Follows => PlannerFollowsList
  <2> SUFFICES ASSUME Follows, \A t \in Threads : ~ Running(t), ~ stale PROVE planner = providers
    BY DEF PlannerFollowsList
  <2>1. \A t \in Threads : ~ Owes(t)
    BY DEF Owes, Running
  <2> QED BY <2>1 DEF Follows
<1> QED BY <1>1, <1>2, FollowsNext, TypedAlways, UndisturbedAlways, PTL DEF Spec
-----------------------------------------------------------------------------
\* Adapters and names only change in a few steps.
LEMMA NamesKept ==
    ASSUME NEW list \in Seq(AllProviders), NEW k \in DOMAIN list, NEW p, p.name = list[k].name
    PROVE  NamesIn([list EXCEPT ![k] = p]) = NamesIn(list)
<1> DEFINE new == [list EXCEPT ![k] = p]
<1>1. DOMAIN new = DOMAIN list /\ \A i \in DOMAIN list : new[i].name = list[i].name
  OBVIOUS
<1> HIDE DEF new
<1>2. NamesIn(new) = NamesIn(list)
  BY <1>1 DEF NamesIn
<1> QED BY <1>2 DEF new

\* Who may be listed without an adapter.
Excepted(n) == (\E t \in Threads : op[t].at = "listed" /\ op[t].provider.name = n) \/ \E p \in NoAddress : p.name = n

LEMMA ExceptedKept ==
    ASSUME NEW t \in Threads, Apart(t), NEW n, Excepted(n), op[t].at = "listed" => op[t].provider.name # n
    PROVE  Excepted(n)'
<1>1. ASSUME NEW s \in Threads, op[s].at = "listed", op[s].provider.name = n
      PROVE  op'[s].at = "listed" /\ op'[s].provider.name = n
  <2>1. s # t
    BY <1>1
  <2> QED BY <1>1, <2>1 DEF Apart, Same
<1> QED BY <1>1 DEF Excepted

LEMMA AdaptersKept ==
    ASSUME AvailableHaveAdapters, NEW t \in Threads, Apart(t), op[t].at # "listed",
           adapters' = adapters, NamesIn(providers') = NamesIn(providers)
    PROVE  AvailableHaveAdapters'
<1>1. ASSUME NEW n \in NamesIn(providers) \ adapters PROVE Excepted(n)'
  <2>1. Excepted(n)
    BY DEF AvailableHaveAdapters, Excepted
  <2> QED BY <2>1, ExceptedKept
<1> QED BY <1>1 DEF AvailableHaveAdapters, Excepted

LEMMA AdaptersAdded ==
    ASSUME Typed, AvailableHaveAdapters, NEW t \in Threads, NEW p \in MoreProviders, add_provider(t, p)
    PROVE  AvailableHaveAdapters'
<1>1. /\ ~ Running(t) /\ p \in AllProviders /\ Apart(t) /\ op'[t].at = "listed" /\ op'[t].provider = p
  BY AddEffect
<1>2. providers' = Append(providers, p) /\ adapters' = adapters /\ providers \in Seq(AllProviders)
  BY DEF add_provider, Typed
<1>3. NamesIn(providers') = NamesIn(providers) \cup {p.name}
  <2>1. /\ DOMAIN providers = 1 .. Len(providers) /\ DOMAIN providers' = 1 .. Len(providers) + 1
        /\ providers'[Len(providers) + 1] = p /\ Len(providers) \in Nat
        /\ \A i \in 1 .. Len(providers) : providers'[i] = providers[i]
    BY <1>1, <1>2
  <2>2. \A i \in 1 .. Len(providers) + 1 : i \in 1 .. Len(providers) \/ i = Len(providers) + 1
    BY <2>1
  <2>3. Len(providers) + 1 \in 1 .. Len(providers) + 1 /\ \A i \in 1 .. Len(providers) : i \in 1 .. Len(providers) + 1
    BY <2>1
  <2> QED BY <2>1, <2>2, <2>3 DEF NamesIn
<1>4. ASSUME NEW n \in NamesIn(providers') \ adapters' PROVE Excepted(n)'
  <2>1. CASE n = p.name
    BY <1>1, <2>1 DEF Excepted
  <2>2. CASE n # p.name
    <3>1. Excepted(n)
      BY <1>2, <1>3, <1>4, <2>2 DEF AvailableHaveAdapters, Excepted
    <3>2. op[t].at # "listed"
      BY <1>1 DEF Running
    <3> QED BY <1>1, <3>1, <3>2, ExceptedKept
  <2> QED BY <2>1, <2>2
<1> QED BY <1>2, <1>3, <1>4 DEF AvailableHaveAdapters, Excepted

LEMMA AdaptersMade ==
    ASSUME Typed, AvailableHaveAdapters, NEW t \in Threads, AddAdapter(t)
    PROVE  AvailableHaveAdapters'
<1> DEFINE name == op[t].provider.name
<1>1. /\ op[t].at = "listed" /\ Apart(t) /\ adapters' = adapters \cup {name} /\ providers' = providers
  BY AdapterEffect DEF AddAdapter
<1>2. name \in NamesIn(providers)
  BY <1>1 DEF Typed, InPlace
<1>3. ASSUME NEW n \in NamesIn(providers) \ adapters' PROVE Excepted(n)'
  <2>1. Excepted(n)
    BY <1>1, <1>3 DEF AvailableHaveAdapters, Excepted
  <2>2. op[t].provider.name # n
    BY <1>1, <1>3
  <2> QED BY <1>1, <2>1, <2>2, ExceptedKept
<1> HIDE DEF name
<1> QED BY <1>1, <1>2, <1>3 DEF AvailableHaveAdapters, Excepted

\* The provider of an addition that is refused has no address.
LEMMA AdaptersRefused ==
    ASSUME Typed, AvailableHaveAdapters, NEW t \in Threads, RefuseAddress(t)
    PROVE  AvailableHaveAdapters'
<1>1. /\ op[t].at = "listed" /\ op[t].provider \in NoAddress /\ Apart(t)
      /\ adapters' = adapters /\ providers' = providers
  BY EndEffect DEF RefuseAddress, lists
<1>2. ASSUME NEW n \in NamesIn(providers) \ adapters PROVE Excepted(n)'
  <2>1. Excepted(n)
    BY DEF AvailableHaveAdapters, Excepted
  <2>2. CASE op[t].provider.name = n
    BY <1>1, <2>2 DEF Excepted
  <2>3. CASE op[t].provider.name # n
    BY <1>1, <2>1, <2>3, ExceptedKept
  <2> QED BY <2>2, <2>3
<1> QED BY <1>1, <1>2 DEF AvailableHaveAdapters, Excepted

LEMMA AdaptersSteps ==
    ASSUME Typed, AvailableHaveAdapters, NEW t \in Threads,
           \/ AddAdapter(t) \/ Snapshot(t) \/ InstallPlanner(t) \/ AskProvider(t) \/ WalkEnds(t)
           \/ AnsweredMalformed(t) \/ MakePlan(t) \/ refresh_models(t) \/ Store(t) \/ RefuseAddress(t)
    PROVE  AvailableHaveAdapters'
<1>1. CASE AddAdapter(t)
  BY <1>1, AdaptersMade
<1>2. ASSUME Apart(t), op[t].at # "listed", adapters' = adapters, providers' = providers
      PROVE  AvailableHaveAdapters'
  BY <1>2, AdaptersKept
<1>3. CASE Snapshot(t)
  BY <1>2, <1>3, SnapshotEffect DEF Snapshot, lists
<1>4. CASE InstallPlanner(t)
  BY <1>2, <1>4, InstallEffect DEF InstallPlanner
<1>5. CASE AskProvider(t)
  BY <1>2, <1>5, AskEffect DEF AskProvider, lists
<1>6. CASE WalkEnds(t)
  BY <1>2, <1>6, WalkEffect DEF WalkEnds, lists
<1>7. CASE AnsweredMalformed(t)
  BY <1>2, <1>7, EndEffect DEF AnsweredMalformed, lists
<1>8. CASE MakePlan(t)
  BY <1>2, <1>8, PlanningEffect DEF MakePlan, lists
<1>9. CASE refresh_models(t)
  BY <1>2, <1>9, RefreshEffect DEF refresh_models, lists, Running
<1>10. CASE Store(t)
  <2> DEFINE k == op[t].idx
             p == op[t].provider
  <2>1. /\ Apart(t) /\ k \in DOMAIN providers /\ providers[k].name = p.name /\ op[t].at # "listed"
        /\ providers' = [providers EXCEPT ![k] = p]
    BY <1>10, StoreEffect
  <2>2. adapters' = adapters /\ providers \in Seq(AllProviders)
    BY <1>10 DEF Store, Typed
  <2> HIDE DEF k, p
  <2>3. NamesIn(providers') = NamesIn(providers)
    BY <2>1, <2>2, NamesKept
  <2> QED BY <2>1, <2>2, <2>3, AdaptersKept
<1>11. CASE RefuseAddress(t)
  BY <1>11, AdaptersRefused
<1> QED BY <1>1, <1>3, <1>4, <1>5, <1>6, <1>7, <1>8, <1>9, <1>10, <1>11

LEMMA AdaptersCalls ==
    ASSUME Typed, AvailableHaveAdapters, NEW t \in Threads, NEW wish \in Wishes,
           chat(t, wish) \/ ChatRefused(t, wish) \/ stream(t, wish)
    PROVE  AvailableHaveAdapters'
<1>1. adapters' = adapters /\ providers' = providers /\ op[t].at # "listed"
  BY DEF chat, ChatRefused, stream, lists, Begin, CallBy, Running
<1>2. Apart(t)
  BY ChatEffect, EndEffect, PlanningEffect DEF ChatRefused, stream
<1> QED BY <1>1, <1>2, AdaptersKept

LEMMA AdaptersAnswers ==
    ASSUME Typed, AvailableHaveAdapters, NEW t \in Threads, NEW listing \in Listings,
           AnsweredNothingNew(t, listing) \/ AnsweredNew(t, listing) \/ AnsweredLost(t, listing)
    PROVE  AvailableHaveAdapters'
<1>1. adapters' = adapters /\ op[t].at # "listed"
  BY DEF AnsweredNothingNew, AnsweredNew, AnsweredLost, lists
<1>2. CASE AnsweredNothingNew(t, listing)
  BY <1>1, <1>2, NothingNewEffect, AdaptersKept DEF AnsweredNothingNew, lists
<1>3. CASE AnsweredLost(t, listing)
  BY <1>1, <1>3, EndEffect, AdaptersKept DEF AnsweredLost, lists
<1>4. CASE AnsweredNew(t, listing)
  BY <1>1, <1>4, NewEffect, AdaptersKept DEF AnsweredNew, lists
<1> QED BY <1>2, <1>3, <1>4

LEMMA AdaptersNext == Typed /\ AvailableHaveAdapters /\ [Next]_vars => AvailableHaveAdapters'
<1> SUFFICES ASSUME Typed, AvailableHaveAdapters, [Next]_vars PROVE AvailableHaveAdapters'
  OBVIOUS
<1>1. ASSUME op' = op, adapters' = adapters, providers' = providers PROVE AvailableHaveAdapters'
  BY <1>1 DEF AvailableHaveAdapters
<1>2. CASE UNCHANGED vars
  BY <1>1, <1>2 DEF vars, lists
<1>3. ASSUME NEW s \in Starts, from_env(s) PROVE AvailableHaveAdapters'
  <2> DEFINE env == resolve_env(s.lines, s.environ)
             available == filter_available_providers(default_providers, env)
  <2>1. \/ providers' = available /\ adapters' = build_adapters(available, env)
        \/ op' = op /\ providers' = providers /\ adapters' = adapters
    BY <1>3 DEF from_env, lists
  <2>2. build_adapters(available, env) = NamesIn(available)
    <3> HIDE DEF env
    <3> QED BY AvailableProviders
  <2> HIDE DEF available, env
  <2> QED BY <1>1, <2>1, <2>2 DEF AvailableHaveAdapters
<1>4. ASSUME NEW t \in Threads, NEW p \in NewPolicies, register_policy(t, p[1], p[2]) PROVE AvailableHaveAdapters'
  BY <1>1, <1>4 DEF register_policy, lists
<1>5. ASSUME NEW t \in Threads, NEW p \in MoreProviders, add_provider(t, p) PROVE AvailableHaveAdapters'
  BY <1>5, AdaptersAdded
<1>6. ASSUME NEW t \in Threads,
             \/ AddAdapter(t) \/ Snapshot(t) \/ InstallPlanner(t) \/ AskProvider(t) \/ WalkEnds(t)
             \/ AnsweredMalformed(t) \/ MakePlan(t) \/ refresh_models(t) \/ Store(t) \/ RefuseAddress(t)
      PROVE  AvailableHaveAdapters'
  BY <1>6, AdaptersSteps
<1>7. ASSUME NEW t \in Threads, NEW wish \in Wishes, chat(t, wish) \/ ChatRefused(t, wish) \/ stream(t, wish)
      PROVE  AvailableHaveAdapters'
  BY <1>7, AdaptersCalls
<1>8. ASSUME NEW t \in Threads, NEW listing \in Listings,
             AnsweredNothingNew(t, listing) \/ AnsweredNew(t, listing) \/ AnsweredLost(t, listing)
      PROVE  AvailableHaveAdapters'
  BY <1>8, AdaptersAnswers
<1> QED BY <1>2, <1>3, <1>4, <1>5, <1>6, <1>7, <1>8 DEF Next

\* Whoever is listed can be called, but for a provider about to get its adapter or
\* refused one for its address, and nobody has an adapter who is not listed
\* (build_adapters(), add_provider()).
THEOREM AdaptersCorrect == Spec => []AvailableHaveAdapters
<1>1. Init => AvailableHaveAdapters
  <2>1. NamesIn(<<>>) = {}
    BY DEF NamesIn
  <2> QED BY <2>1 DEF Init, AvailableHaveAdapters
<1> QED BY <1>1, AdaptersNext, TypedAlways, PTL DEF Spec
-----------------------------------------------------------------------------
\* A list of which no provider loses a model.
Enlarged(old, new) == Grown(old, new) /\ \A i \in 1 .. Len(old) : IsPrefix(old[i].models, new[i].models)

\* The one step that may lose some.
Overwrites(i) == \E t \in Threads : op[t].at = "found" /\ op[t].idx = i /\ ~ op[t].alone

Retains ==
    /\ adapters \subseteq adapters' /\ Grown(providers, providers')
    /\ \A i \in 1 .. Len(providers) : IsPrefix(providers[i].models, providers'[i].models) \/ Overwrites(i)

LEMMA EnlargedSame == ASSUME NEW list \in Seq(AllProviders) PROVE Enlarged(list, list)
<1>1. \A i \in 1 .. Len(list) : list[i].models \in Seq(Models)
  BY ListedModels
<1> QED BY <1>1, GrownSame, SamePrefix DEF Enlarged

LEMMA EnlargedByOne ==
    ASSUME NEW list \in Seq(AllProviders), NEW p \in AllProviders
    PROVE  Enlarged(list, Append(list, p))
<1> DEFINE new == Append(list, p)
<1>1. \A i \in 1 .. Len(list) : new[i] = list[i]
  OBVIOUS
<1>2. \A i \in 1 .. Len(list) : list[i].models \in Seq(Models)
  BY ListedModels
<1>3. Grown(list, new)
  BY GrownByOne
<1> HIDE DEF new
<1>4. Enlarged(list, new)
  BY <1>1, <1>2, <1>3, SamePrefix DEF Enlarged
<1> QED BY <1>4 DEF new

\* A refresh stores what it found.
LEMMA StoreRetains == ASSUME Typed, Undisturbed, NEW t \in Threads, Store(t) PROVE Retains
<1> DEFINE k == op[t].idx
           p == op[t].provider
<1>1. /\ op[t].at = "found" /\ k \in DOMAIN providers /\ providers' = [providers EXCEPT ![k] = p]
      /\ Grown(providers, providers')
  BY StoreEffect
<1>2. adapters' = adapters /\ providers \in Seq(AllProviders)
  BY DEF Store, Typed
<1>3. op[t].alone => IsPrefix(providers[k].models, p.models)
  BY <1>1 DEF Undisturbed
<1>4. Overwrites(k) \/ op[t].alone
  BY <1>1 DEF Overwrites
<1> HIDE DEF k, p
<1>5. \A i \in 1 .. Len(providers) : (i # k => providers'[i] = providers[i]) /\ (i = k => providers'[i] = p)
  BY <1>1, <1>2
<1>6. \A i \in 1 .. Len(providers) : providers[i].models \in Seq(Models)
  BY <1>2, ListedModels
<1>7. ASSUME NEW i \in 1 .. Len(providers) PROVE IsPrefix(providers[i].models, providers'[i].models) \/ Overwrites(i)
  <2>1. CASE i = k
    BY <1>3, <1>4, <1>5, <2>1
  <2>2. CASE i # k
    BY <1>5, <1>6, <2>2, SamePrefix
  <2> QED BY <2>1, <2>2
<1> QED BY <1>1, <1>2, <1>7 DEF Retains

\* A step of a client keeps its adapters and, but for a store, its models.
LEMMA ListRetained == ASSUME Typed, Undisturbed, client = "built", [Next]_vars PROVE Retains
<1>0. providers \in Seq(AllProviders)
  BY DEF Typed
<1>1. ASSUME adapters \subseteq adapters', Enlarged(providers, providers') PROVE Retains
  BY <1>1 DEF Retains, Enlarged
<1>2. ASSUME adapters' = adapters, providers' = providers PROVE Retains
  BY <1>0, <1>1, <1>2, EnlargedSame
<1>3. CASE UNCHANGED vars
  BY <1>2, <1>3 DEF vars, lists
<1>4. ASSUME NEW s \in Starts PROVE ~ from_env(s)
  BY DEF from_env
<1>5. ASSUME NEW t \in Threads, NEW p \in NewPolicies, register_policy(t, p[1], p[2]) PROVE Retains
  BY <1>2, <1>5 DEF register_policy, lists
<1>6. ASSUME NEW t \in Threads, NEW p \in MoreProviders, add_provider(t, p) PROVE Retains
  <2>1. providers' = Append(providers, p) /\ adapters' = adapters /\ p \in AllProviders
    BY <1>6, AddEffect DEF add_provider
  <2> QED BY <1>0, <1>1, <2>1, EnlargedByOne
<1>7. ASSUME NEW t \in Threads, AddAdapter(t) PROVE Retains
  BY <1>0, <1>1, <1>7, EnlargedSame DEF AddAdapter
<1>8. ASSUME NEW t \in Threads,
             \/ Snapshot(t) \/ InstallPlanner(t) \/ AskProvider(t) \/ WalkEnds(t)
             \/ AnsweredMalformed(t) \/ MakePlan(t) \/ refresh_models(t) \/ RefuseAddress(t)
      PROVE  Retains
  BY <1>2, <1>8 DEF Snapshot, InstallPlanner, AskProvider, WalkEnds, AnsweredMalformed, MakePlan, refresh_models,
                    RefuseAddress, lists
<1>9. ASSUME NEW t \in Threads, NEW wish \in Wishes, chat(t, wish) \/ ChatRefused(t, wish) \/ stream(t, wish)
      PROVE  Retains
  BY <1>2, <1>9 DEF chat, ChatRefused, stream, lists
<1>10. ASSUME NEW t \in Threads, NEW listing \in Listings,
              AnsweredNothingNew(t, listing) \/ AnsweredNew(t, listing) \/ AnsweredLost(t, listing)
       PROVE  Retains
  BY <1>2, <1>10 DEF AnsweredNothingNew, AnsweredNew, AnsweredLost, lists
<1>11. ASSUME NEW t \in Threads, Store(t) PROVE Retains
  BY <1>11, StoreRetains
<1> QED BY <1>3, <1>4, <1>5, <1>6, <1>7, <1>8, <1>9, <1>10, <1>11 DEF Next

\* No call makes the client forget a provider, an adapter or a model, but for the
\* store of a refresh that overlapped another call (refresh_models(), add_provider()).
THEOREM CatalogueGrows == Spec => NothingForgotten
<1>1. ASSUME Typed, Undisturbed, [Next]_vars, client = "built"
      PROVE  /\ adapters \subseteq adapters'
             /\ \A i \in DOMAIN providers :
                   /\ i \in DOMAIN providers'
                   /\ providers'[i].name = providers[i].name
                   /\ \/ IsPrefix(providers[i].models, providers'[i].models)
                      \/ \E t \in Threads : op[t].at = "found" /\ op[t].idx = i /\ ~ op[t].alone
  <2>1. Retains /\ Typed'
    BY <1>1, ListRetained, TypedNext
  <2>2. DOMAIN providers = 1 .. Len(providers) /\ DOMAIN providers' = 1 .. Len(providers')
        /\ Len(providers) \in Nat /\ Len(providers') \in Nat
    BY <1>1, <2>1 DEF Typed
  <2>3. Len(providers) <= Len(providers')
    BY <2>1 DEF Retains, Grown
  <2>4. \A i \in 1 .. Len(providers) : i \in 1 .. Len(providers')
    BY <2>2, <2>3
  <2> QED BY <2>1, <2>2, <2>4 DEF Retains, Grown, Overwrites
<1>2. Typed /\ Undisturbed /\ [Next]_vars =>
        [client = "built" =>
          /\ adapters \subseteq adapters'
          /\ \A i \in DOMAIN providers :
              /\ i \in DOMAIN providers'
              /\ providers'[i].name = providers[i].name
              /\ \/ IsPrefix(providers[i].models, providers'[i].models)
                 \/ \E t \in Threads : op[t].at = "found" /\ op[t].idx = i /\ ~ op[t].alone]_vars
  BY <1>1
<1> QED BY <1>2, TypedAlways, UndisturbedAlways, PTL DEF Spec, NothingForgotten
-----------------------------------------------------------------------------
\* UniqueIn, of any set of names that are excused.
Unrepeated(list, excused) ==
    \A n \in NamesIn(list) \ excused :
        \A i, j \in DOMAIN list : list[i].name = n /\ list[j].name = n => i = j /\ DistinctIds(list[i].models)

\* A provider about to be stored has each model once, too.
Single(provider, excused) == provider.name \notin excused => DistinctIds(provider.models)

\* Every list there is, the copies in hand included.
Distinct ==
    /\ Unrepeated(providers, repeated) /\ Unrepeated(planner, repeated)
    /\ \A t \in Threads : op[t].at = "holding" => Unrepeated(op[t].list, repeated)
    /\ \A t \in Threads : op[t].at = "found" => Single(op[t].provider, repeated)

LEMMA MoreExcused ==
    ASSUME NEW list, NEW r1, NEW r2, r1 \subseteq r2, Unrepeated(list, r1) PROVE Unrepeated(list, r2)
BY DEF Unrepeated

LEMMA DistinctKept ==
    ASSUME Distinct, NEW t \in Threads, Apart(t), repeated \subseteq repeated',
           Unrepeated(providers', repeated'), Unrepeated(planner', repeated'),
           op'[t].at = "holding" => Unrepeated(op'[t].list, repeated'),
           op'[t].at = "found" => Single(op'[t].provider, repeated')
    PROVE  Distinct'
<1>1. ASSUME NEW s \in Threads, op'[s].at = "holding" PROVE Unrepeated(op'[s].list, repeated')
  <2>1. CASE s = t
    BY <1>1, <2>1
  <2>2. CASE s # t
    <3>1. op[s].at = "holding" /\ op'[s].list = op[s].list
      BY <1>1, <2>2 DEF Apart, Same
    <3>2. Unrepeated(op[s].list, repeated)
      BY <3>1 DEF Distinct
    <3> QED BY <3>1, <3>2, MoreExcused
  <2> QED BY <2>1, <2>2
<1>2. ASSUME NEW s \in Threads, op'[s].at = "found" PROVE Single(op'[s].provider, repeated')
  <2>1. CASE s = t
    BY <1>2, <2>1
  <2>2. CASE s # t
    <3>1. op[s].at = "found" /\ op'[s].provider = op[s].provider
      BY <1>2, <2>2 DEF Apart, Same
    <3>2. Single(op[s].provider, repeated)
      BY <3>1 DEF Distinct
    <3> QED BY <3>1, <3>2 DEF Single
  <2> QED BY <2>1, <2>2
<1> QED BY <1>1, <1>2 DEF Distinct

\* A provider that is added is excused if its name is taken or its models repeat.
LEMMA UniqueAdded ==
    ASSUME NEW list \in Seq(AllProviders), NEW p \in AllProviders, NEW r1, NEW r2, r1 \subseteq r2,
           p.name \in NamesIn(list) \/ ~ DistinctIds(p.models) => p.name \in r2, Unrepeated(list, r1)
    PROVE  Unrepeated(Append(list, p), r2)
<1> DEFINE new == Append(list, p)
           m == Len(list) + 1
<1>1. /\ DOMAIN list = 1 .. Len(list) /\ DOMAIN new = 1 .. m /\ new[m] = p /\ Len(list) \in Nat
      /\ \A i \in 1 .. Len(list) : new[i] = list[i]
      /\ \A i \in 1 .. m : i \in 1 .. Len(list) \/ i = m
  OBVIOUS
<1> HIDE DEF new, m
<1>2. ASSUME NEW n, n \notin r2, NEW i \in DOMAIN new, NEW j \in DOMAIN new, new[i].name = n, new[j].name = n
      PROVE  i = j /\ DistinctIds(new[i].models)
  <2>1. CASE n = p.name
    <3>1. p.name \notin NamesIn(list) /\ DistinctIds(p.models)
      BY <1>2, <2>1
    <3>2. i = m /\ j = m
      BY <1>1, <1>2, <2>1, <3>1 DEF NamesIn
    <3> QED BY <1>1, <3>1, <3>2
  <2>2. CASE n # p.name
    <3>1. i \in DOMAIN list /\ j \in DOMAIN list /\ new[i] = list[i] /\ new[j] = list[j]
      BY <1>1, <1>2, <2>2
    <3>2. n \in NamesIn(list) \ r1
      BY <1>2, <3>1 DEF NamesIn
    <3> QED BY <1>2, <3>1, <3>2 DEF Unrepeated
  <2> QED BY <2>1, <2>2
<1>3. Unrepeated(new, r2)
  BY <1>2 DEF Unrepeated
<1> QED BY <1>3 DEF new

\* New ids after others do not repeat one if they do not repeat each other.
LEMMA IdsJoined ==
    ASSUME NEW p \in AllProviders, NEW ids \in Seq(Nat), DistinctIds(p.models), IsInjective(ids),
           Range(ids) \cap IdsIn(p) = {}
    PROVE  DistinctIds(With(p, ids).models)
<1> DEFINE old == p.models
           more == [k \in DOMAIN ids |-> infer_model_metadata(ids[k])]
           all == old \o more
           m == Len(old)
<1>1. With(p, ids).models = all
  BY ExtendedProvider
<1>2. old \in Seq(Models) /\ more \in Seq(Range(more)) /\ Len(more) = Len(ids) /\ DOMAIN ids = 1 .. Len(ids)
  <2>1. old \in Seq(Models)
    BY DEF AllProviders
  <2>2. DOMAIN ids = 1 .. Len(ids) /\ Len(ids) \in Nat
    OBVIOUS
  <2>3. more \in Seq(Range(more)) /\ Len(more) = Len(ids)
    BY <2>2 DEF Range
  <2> QED BY <2>1, <2>2, <2>3
<1>3. \A k \in 1 .. Len(ids) : more[k].id = ids[k]
  BY <1>2 DEF infer_model_metadata
<1> HIDE DEF more, old
<1>4. /\ DOMAIN all = 1 .. m + Len(ids) /\ m \in Nat /\ Len(ids) \in Nat /\ DOMAIN old = 1 .. m
      /\ \A k \in 1 .. m : all[k] = old[k]
      /\ \A k \in 1 .. Len(ids) : all[m + k] = more[k]
  <2> DEFINE X == Models \cup Range(more)
  <2>1. old \in Seq(X) /\ more \in Seq(X) /\ all = old \o more
    BY <1>2
  <2> HIDE DEF X, all
  <2>2. /\ all \in Seq(X) /\ Len(all) = Len(old) + Len(more)
        /\ \A k \in 1 .. Len(old) : all[k] = old[k]
        /\ \A k \in 1 .. Len(more) : all[Len(old) + k] = more[k]
    BY <2>1, JoinedLists
  <2>3. DOMAIN all = 1 .. Len(all) /\ DOMAIN old = 1 .. Len(old) /\ Len(old) \in Nat /\ Len(ids) \in Nat
    BY <2>1, <2>2
  <2> QED BY <1>2, <2>2, <2>3
<1> HIDE DEF m, all
<1>5. \A k \in 1 .. m + Len(ids) : k \in 1 .. m \/ (k - m \in 1 .. Len(ids) /\ k = m + (k - m))
  BY <1>4
<1>6. ASSUME NEW k \in 1 .. m PROVE all[k].id \in IdsIn(p)
  BY <1>4, <1>6 DEF IdsIn, old
<1>7. ASSUME NEW k \in 1 .. m + Len(ids), k \notin 1 .. m PROVE all[k].id = ids[k - m] /\ all[k].id \in Range(ids)
  <2>1. k - m \in 1 .. Len(ids) /\ k = m + (k - m)
    BY <1>5, <1>7
  <2> DEFINE i == k - m
  <2>2. i \in 1 .. Len(ids) /\ k = m + i
    BY <2>1
  <2> HIDE DEF i
  <2>3. all[k].id = ids[i]
    BY <1>3, <1>4, <2>2
  <2>4. ids[i] \in Range(ids)
    BY <1>2, <2>2 DEF Range
  <2> QED BY <2>3, <2>4 DEF i
<1>8. ASSUME NEW k \in 1 .. m + Len(ids), NEW l \in 1 .. m + Len(ids), all[k].id = all[l].id PROVE k = l
  <2>1. CASE k \in 1 .. m /\ l \in 1 .. m
    BY <1>4, <1>8, <2>1 DEF DistinctIds, old
  <2>2. CASE k \notin 1 .. m /\ l \notin 1 .. m
    <3>1. k - m \in 1 .. Len(ids) /\ l - m \in 1 .. Len(ids) /\ ids[k - m] = ids[l - m]
      BY <1>5, <1>7, <1>8, <2>2
    <3> DEFINE i == k - m
               j == l - m
    <3>2. i = j
      <4> HIDE DEF i, j
      <4>1. i \in DOMAIN ids /\ j \in DOMAIN ids /\ ids[i] = ids[j]
        BY <1>2, <3>1 DEF i, j
      <4> QED BY <4>1 DEF IsInjective
    <3> QED BY <1>4, <3>2
  <2>3. CASE k \in 1 .. m /\ l \notin 1 .. m
    BY <1>6, <1>7, <1>8, <2>3
  <2>4. CASE k \notin 1 .. m /\ l \in 1 .. m
    BY <1>6, <1>7, <1>8, <2>4
  <2> QED BY <2>1, <2>2, <2>3, <2>4
<1> QED BY <1>1, <1>4, <1>8 DEF DistinctIds

LEMMA SingleExtended ==
    ASSUME NEW list \in Seq(AllProviders), NEW k \in DOMAIN list, NEW p \in AllProviders, list[k] = p,
           NEW ids \in Seq(Nat), Range(ids) \cap IdsIn(p) = {}, NEW r1, NEW r2, r1 \subseteq r2,
           ~ IsInjective(ids) => p.name \in r2, Unrepeated(list, r1)
    PROVE  Single(With(p, ids), r2)
<1>1. With(p, ids).name = p.name
  BY ExtendedProvider
<1>2. DistinctIds(p.models) /\ IsInjective(ids) => DistinctIds(With(p, ids).models)
  BY IdsJoined
<1>3. p.name \notin r1 => DistinctIds(p.models)
  BY DEF Unrepeated, NamesIn
<1> QED BY <1>1, <1>2, <1>3 DEF Single

LEMMA UniqueStored ==
    ASSUME NEW list \in Seq(AllProviders), NEW k \in DOMAIN list, NEW q, list[k].name = q.name,
           NEW r, Single(q, r), Unrepeated(list, r)
    PROVE  Unrepeated([list EXCEPT ![k] = q], r)
<1> DEFINE new == [list EXCEPT ![k] = q]
<1>1. DOMAIN new = DOMAIN list /\ new[k] = q /\ \A i \in DOMAIN list : i # k => new[i] = list[i]
  OBVIOUS
<1> HIDE DEF new
<1>2. \A i \in DOMAIN list : new[i].name = list[i].name
  BY <1>1
<1>3. ASSUME NEW n, n \notin r, NEW i \in DOMAIN new, NEW j \in DOMAIN new, new[i].name = n, new[j].name = n
      PROVE  i = j /\ DistinctIds(new[i].models)
  <2>1. n \in NamesIn(list) \ r /\ list[i].name = n /\ list[j].name = n /\ i \in DOMAIN list /\ j \in DOMAIN list
    BY <1>1, <1>2, <1>3 DEF NamesIn
  <2>2. i = j /\ DistinctIds(list[i].models)
    BY <2>1 DEF Unrepeated
  <2>3. CASE i = k
    BY <1>1, <1>3, <2>1, <2>2, <2>3 DEF Single
  <2>4. CASE i # k
    BY <1>1, <2>1, <2>2, <2>4
  <2> QED BY <2>2, <2>3, <2>4
<1>4. Unrepeated(new, r)
  BY <1>3 DEF Unrepeated
<1> QED BY <1>4 DEF new

\* What is available of the table is in it once, each of distinct models.
LEMMA TableUnique ==
    ASSUME NEW env, NEW excused
    PROVE  Unrepeated(filter_available_providers(default_providers, env), excused)
<1> DEFINE table == default_providers
           available == filter_available_providers(table, env)
           A == {pair \in Range(table) \X Range(table) : pair[1].name = pair[2].name}
           S == {p \in Range(table) : Available(p, env)}
<1>1. /\ table \in Seq(Range(table)) /\ \A p \in Range(table) : DistinctIds(p.models)
      /\ \A i, j \in DOMAIN table : table[i].name = table[j].name => i = j
  BY TableIsSound DEF Entered
<1>2. available = Picked(table, S)
  BY DEF filter_available_providers
<1>3. Range(available) \subseteq Range(table)
  <2> HIDE DEF S, table, available
  <2> QED BY <1>1, <1>2, PickedElements
<1>4. \A p, q \in Range(table) : p.name = q.name => <<p, q>> \in A
  OBVIOUS
<1>5. Parted(table, A)
  <2>1. \A p, q \in Range(table) : <<p, q>> \in A => p.name = q.name
    OBVIOUS
  <2>2. \A i \in DOMAIN table : table[i] \in Range(table)
    BY DEF Range
  <2> HIDE DEF A, table
  <2> QED BY <1>1, <2>1, <2>2 DEF Parted
<1>6. Parted(available, A)
  <2> HIDE DEF S, table, available, A
  <2> QED BY <1>1, <1>2, <1>5, PickedParted
<1> HIDE DEF available, table, A, S
<1>7. \A i \in DOMAIN available : available[i] \in Range(available)
  BY DEF Range
<1>8. \A i, j \in DOMAIN available : available[i].name = available[j].name => i = j
  BY <1>3, <1>4, <1>6, <1>7 DEF Parted
<1>9. \A i \in DOMAIN available : DistinctIds(available[i].models)
  BY <1>1, <1>3, <1>7
<1>10. Unrepeated(available, excused)
  BY <1>8, <1>9 DEF Unrepeated
<1> QED BY <1>10 DEF available, table

LEMMA DistinctSteps ==
    ASSUME Typed, Distinct, NEW t \in Threads,
           \/ AddAdapter(t) \/ Snapshot(t) \/ InstallPlanner(t) \/ AskProvider(t) \/ WalkEnds(t)
           \/ AnsweredMalformed(t) \/ MakePlan(t) \/ refresh_models(t) \/ Store(t) \/ RefuseAddress(t)
    PROVE  Distinct'
<1>1. ASSUME Apart(t), providers' = providers, planner' = planner, repeated' = repeated,
             op'[t].at \notin {"holding", "found"}
      PROVE  Distinct'
  BY <1>1, DistinctKept DEF Distinct
<1>2. CASE AddAdapter(t)
  BY <1>1, <1>2, AdapterEffect DEF AddAdapter
<1>3. CASE Snapshot(t)
  <2>1. /\ providers' = providers /\ planner' = planner /\ repeated' = repeated /\ Apart(t)
        /\ op'[t].list = providers /\ op'[t].at # "found"
    BY <1>3, SnapshotEffect DEF Snapshot, lists
  <2> QED BY <2>1, DistinctKept DEF Distinct
<1>4. CASE InstallPlanner(t)
  <2>1. /\ op[t].at = "holding" /\ planner' = op[t].list /\ providers' = providers /\ repeated' = repeated
        /\ Apart(t) /\ op'[t].at \notin {"holding", "found"}
    BY <1>4, InstallEffect DEF InstallPlanner
  <2>2. Unrepeated(planner', repeated')
    BY <2>1 DEF Distinct
  <2> QED BY <2>1, <2>2, DistinctKept DEF Distinct
<1>5. CASE AskProvider(t)
  BY <1>1, <1>5, AskEffect DEF AskProvider, lists
<1>6. CASE WalkEnds(t)
  BY <1>1, <1>6, WalkEffect DEF WalkEnds, lists
<1>7. CASE AnsweredMalformed(t)
  BY <1>1, <1>7, EndEffect DEF AnsweredMalformed, lists
<1>8. CASE MakePlan(t)
  BY <1>1, <1>8, PlanningEffect DEF MakePlan, lists
<1>9. CASE refresh_models(t)
  BY <1>1, <1>9, RefreshEffect DEF refresh_models, lists
<1>10. CASE Store(t)
  <2> DEFINE k == op[t].idx
             p == op[t].provider
  <2>1. /\ Apart(t) /\ k \in DOMAIN providers /\ providers[k].name = p.name /\ op'[t].at = "asking"
        /\ providers' = [providers EXCEPT ![k] = p] /\ op[t].at = "found"
    BY <1>10, StoreEffect
  <2>2. planner' = planner /\ repeated' = repeated /\ providers \in Seq(AllProviders)
    BY <1>10 DEF Store, Typed
  <2>3. Single(p, repeated)
    BY <2>1 DEF Distinct
  <2> HIDE DEF k, p
  <2>4. Unrepeated(providers', repeated)
    BY <2>1, <2>2, <2>3, UniqueStored DEF Distinct
  <2> QED BY <2>1, <2>2, <2>4, DistinctKept DEF Distinct
<1>11. CASE RefuseAddress(t)
  BY <1>1, <1>11, EndEffect DEF RefuseAddress, lists
<1> QED BY <1>2, <1>3, <1>4, <1>5, <1>6, <1>7, <1>8, <1>9, <1>10, <1>11

LEMMA DistinctCalls ==
    ASSUME Typed, Distinct, NEW t \in Threads, NEW wish \in Wishes,
           chat(t, wish) \/ ChatRefused(t, wish) \/ stream(t, wish)
    PROVE  Distinct'
<1>1. providers' = providers /\ planner' = planner /\ repeated' = repeated
  BY DEF chat, ChatRefused, stream, lists
<1>2. Apart(t) /\ (op'[t].at = "holding" => op'[t].list = providers) /\ op'[t].at # "found"
  BY ChatEffect, EndEffect, PlanningEffect DEF ChatRefused, stream
<1> QED BY <1>1, <1>2, DistinctKept DEF Distinct

LEMMA DistinctAdded ==
    ASSUME Typed, Distinct, NEW t \in Threads, NEW p \in MoreProviders, add_provider(t, p)
    PROVE  Distinct'
<1>1. /\ providers' = Append(providers, p) /\ planner' = planner /\ repeated \subseteq repeated'
      /\ p.name \in NamesIn(providers) \/ ~ DistinctIds(p.models) => p.name \in repeated'
  BY DEF add_provider
<1>2. p \in AllProviders /\ Apart(t) /\ op'[t].at \notin {"holding", "found"} /\ providers \in Seq(AllProviders)
  BY AddEffect DEF Typed
<1>3. Unrepeated(providers', repeated')
  BY <1>1, <1>2, UniqueAdded DEF Distinct
<1>4. Unrepeated(planner', repeated')
  BY <1>1, MoreExcused DEF Distinct
<1> QED BY <1>1, <1>2, <1>3, <1>4, DistinctKept

LEMMA DistinctAnswers ==
    ASSUME Typed, Distinct, NEW t \in Threads, NEW listing \in Listings,
           AnsweredNothingNew(t, listing) \/ AnsweredNew(t, listing) \/ AnsweredLost(t, listing)
    PROVE  Distinct'
<1>1. ASSUME Apart(t), providers' = providers, planner' = planner, repeated' = repeated,
             op'[t].at \notin {"holding", "found"}
      PROVE  Distinct'
  BY <1>1, DistinctKept DEF Distinct
<1>2. CASE AnsweredNothingNew(t, listing)
  BY <1>1, <1>2, NothingNewEffect DEF AnsweredNothingNew, lists
<1>3. CASE AnsweredLost(t, listing)
  BY <1>1, <1>3, EndEffect DEF AnsweredLost, lists
<1>4. CASE AnsweredNew(t, listing)
  <2> DEFINE ids == NewIds(t, listing)
             p == op[t].provider
             k == op'[t].idx
  <2>1. /\ Apart(t) /\ op'[t].at = "found" /\ p \in AllProviders /\ ids \in Seq(Nat)
        /\ op'[t].provider = With(p, ids) /\ providers[k] = p /\ k \in DOMAIN providers
    <3>1. /\ Apart(t) /\ op'[t].at = "found" /\ p \in AllProviders /\ ids \in Seq(Nat)
          /\ op'[t].provider = With(p, ids) /\ providers[k] = p /\ CallOK(op'[t]) /\ InPlace(op'[t], providers)
      BY <1>4, NewEffect
    <3>2. k \in Nat \ {0} /\ k <= Len(providers) /\ providers \in Seq(AllProviders)
      BY <3>1 DEF CallOK, InPlace, Typed
    <3>3. k \in DOMAIN providers
      <4> HIDE DEF k
      <4> QED BY <3>2
    <3> QED BY <3>1, <3>3
  <2>2. providers \in Seq(AllProviders) /\ Range(ids) \cap IdsIn(p) = {}
    BY IdsAreNumbers DEF Typed
  <2>3. /\ repeated \subseteq repeated' /\ (~ IsInjective(ids) => p.name \in repeated')
        /\ planner' = planner /\ providers' = providers
    BY <1>4 DEF AnsweredNew, Repeating, lists
  <2> HIDE DEF ids, p, k
  <2>4. Single(op'[t].provider, repeated')
    BY <2>1, <2>2, <2>3, SingleExtended DEF Distinct
  <2>5. Unrepeated(planner', repeated') /\ Unrepeated(providers', repeated')
    BY <2>3, MoreExcused DEF Distinct
  <2> QED BY <2>1, <2>3, <2>4, <2>5, DistinctKept
<1> QED BY <1>2, <1>3, <1>4

LEMMA DistinctNext == Typed /\ Distinct /\ [Next]_vars => Distinct'
<1> SUFFICES ASSUME Typed, Distinct, [Next]_vars PROVE Distinct'
  OBVIOUS
<1>1. ASSUME op' = op, providers' = providers, planner' = planner, repeated' = repeated PROVE Distinct'
  BY <1>1 DEF Distinct
<1>2. CASE UNCHANGED vars
  BY <1>1, <1>2 DEF vars, lists
<1>3. ASSUME NEW s \in Starts, from_env(s) PROVE Distinct'
  <2> DEFINE env == resolve_env(s.lines, s.environ)
             available == filter_available_providers(default_providers, env)
  <2>1. \/ providers' = available /\ planner' = available
        \/ providers' = providers /\ planner' = planner
    BY <1>3 DEF from_env, lists
  <2>2. op' = op /\ repeated' = repeated /\ \A t \in Threads : op[t].at \notin {"holding", "found"}
    BY <1>3 DEF from_env, Typed, Running
  <2>3. Unrepeated(available, repeated)
    <3> HIDE DEF env
    <3> QED BY TableUnique
  <2> HIDE DEF available
  <2> QED BY <1>1, <2>1, <2>2, <2>3 DEF Distinct
<1>4. ASSUME NEW t \in Threads, NEW p \in NewPolicies, register_policy(t, p[1], p[2]) PROVE Distinct'
  BY <1>1, <1>4 DEF register_policy, lists
<1>5. ASSUME NEW t \in Threads, NEW p \in MoreProviders, add_provider(t, p) PROVE Distinct'
  BY <1>5, DistinctAdded
<1>6. ASSUME NEW t \in Threads,
             \/ AddAdapter(t) \/ Snapshot(t) \/ InstallPlanner(t) \/ AskProvider(t) \/ WalkEnds(t)
             \/ AnsweredMalformed(t) \/ MakePlan(t) \/ refresh_models(t) \/ Store(t) \/ RefuseAddress(t)
      PROVE  Distinct'
  BY <1>6, DistinctSteps
<1>7. ASSUME NEW t \in Threads, NEW wish \in Wishes, chat(t, wish) \/ ChatRefused(t, wish) \/ stream(t, wish)
      PROVE  Distinct'
  BY <1>7, DistinctCalls
<1>8. ASSUME NEW t \in Threads, NEW listing \in Listings,
             AnsweredNothingNew(t, listing) \/ AnsweredNew(t, listing) \/ AnsweredLost(t, listing)
      PROVE  Distinct'
  BY <1>8, DistinctAnswers
<1> QED BY <1>2, <1>3, <1>4, <1>5, <1>6, <1>7, <1>8 DEF Next

\* Neither the client's list nor its planner's has a model twice, unless someone
\* gave it twice (add_provider(), refresh_models()).
THEOREM UniquenessKept == Spec => []PairsUnique
<1>1. Init => Distinct
  <2> SUFFICES ASSUME Init PROVE Distinct
    OBVIOUS
  <2>1. \A t \in Threads : op[t].at \notin {"holding", "found"}
    BY NoCall DEF Init
  <2>2. NamesIn(<<>>) = {}
    BY DEF NamesIn
  <2> QED BY <2>1, <2>2 DEF Init, Distinct, Unrepeated
<1>2. Distinct => PairsUnique
  BY DEF Distinct, PairsUnique, Unrepeated, UniqueIn
<1> QED BY <1>1, <1>2, DistinctNext, TypedAlways, PTL DEF Spec
-----------------------------------------------------------------------------
\* What the registry of plugins keeps: of each group, entry points of different names.
PluginsOK(plugins) ==
    plugins \in Seq(EntryPoints) /\ \A i, j \in DOMAIN plugins : plugins[i].name = plugins[j].name => i = j

RegistryOK(reg) ==
    /\ reg = [providers |-> reg.providers, policies |-> reg.policies]
    /\ PluginsOK(reg.providers) /\ PluginsOK(reg.policies)

Has(plugins, ep) == \E k \in DOMAIN plugins : plugins[k] = ep

\* A plugin takes the place of one of its name and of no other.
LEMMA RegisterEffect ==
    ASSUME NEW plugins, PluginsOK(plugins), NEW ep \in EntryPoints
    PROVE  /\ PluginsOK(Register(plugins, ep)) /\ Has(Register(plugins, ep), ep)
           /\ \A e : e.name # ep.name /\ Has(plugins, e) => Has(Register(plugins, ep), e)
<1> DEFINE new == Register(plugins, ep)
           m == Len(plugins) + 1
<1>0. plugins \in Seq(EntryPoints) /\ DOMAIN plugins = 1 .. Len(plugins) /\ Len(plugins) \in Nat
  BY DEF PluginsOK
<1>1. CASE \E i \in DOMAIN plugins : plugins[i].name = ep.name
  <2>1. new = [i \in DOMAIN plugins |-> IF plugins[i].name = ep.name THEN ep ELSE plugins[i]]
    BY <1>1 DEF Register
  <2> HIDE DEF new
  <2>2. new \in Seq(EntryPoints) /\ DOMAIN new = DOMAIN plugins
    BY <1>0, <2>1
  <2>3. \A i \in DOMAIN plugins : new[i] = IF plugins[i].name = ep.name THEN ep ELSE plugins[i]
    BY <2>1
  <2>4. \A i \in DOMAIN plugins : new[i].name = plugins[i].name
    BY <2>3
  <2>5. PluginsOK(new)
    BY <2>2, <2>4 DEF PluginsOK
  <2>6. Has(new, ep)
    BY <1>1, <2>2, <2>3 DEF Has
  <2>7. ASSUME NEW e, e.name # ep.name, Has(plugins, e) PROVE Has(new, e)
    BY <2>2, <2>3, <2>7 DEF Has
  <2> QED BY <2>5, <2>6, <2>7 DEF new
<1>2. CASE ~ \E i \in DOMAIN plugins : plugins[i].name = ep.name
  <2>1. new = Append(plugins, ep)
    BY <1>2 DEF Register
  <2> HIDE DEF new
  <2>2. /\ new \in Seq(EntryPoints) /\ DOMAIN new = 1 .. m /\ new[m] = ep /\ m \in 1 .. m
        /\ \A i \in 1 .. Len(plugins) : new[i] = plugins[i] /\ i \in 1 .. m
        /\ \A i \in 1 .. m : i \in 1 .. Len(plugins) \/ i = m
    BY <1>0, <2>1
  <2> HIDE DEF m
  <2>3. PluginsOK(new)
    BY <1>0, <1>2, <2>2 DEF PluginsOK
  <2>4. Has(new, ep)
    BY <2>2 DEF Has
  <2>5. ASSUME NEW e, e.name # ep.name, Has(plugins, e) PROVE Has(new, e)
    BY <1>0, <2>2, <2>5 DEF Has
  <2> QED BY <2>3, <2>4, <2>5 DEF new
<1> QED BY <1>1, <1>2

LEMMA LoadEffect ==
    ASSUME NEW reg, RegistryOK(reg), NEW ep \in EntryPoints
    PROVE  /\ RegistryOK(LoadEntryPoint(reg, ep))
           /\ ep.sound /\ ep.group = "policies" => Has(LoadEntryPoint(reg, ep).policies, ep)
           /\ \A e : (e.name = ep.name => ~ ep.sound) /\ Has(reg.policies, e)
                        => Has(LoadEntryPoint(reg, ep).policies, e)
<1> DEFINE new == LoadEntryPoint(reg, ep)
<1>1. CASE ~ ep.sound
  BY <1>1 DEF LoadEntryPoint
<1>2. CASE ep.sound /\ ep.group = "policies"
  <2> DEFINE policies2 == Register(reg.policies, ep)
  <2>1. new = [reg EXCEPT !["policies"] = policies2]
    BY <1>2 DEF LoadEntryPoint
  <2>2. /\ PluginsOK(policies2) /\ Has(policies2, ep)
        /\ \A e : e.name # ep.name /\ Has(reg.policies, e) => Has(policies2, e)
    BY RegisterEffect DEF RegistryOK
  <2> HIDE DEF new, policies2
  <2>3. new = [providers |-> reg.providers, policies |-> policies2]
    BY <2>1 DEF RegistryOK
  <2>4. new.providers = reg.providers /\ new.policies = policies2
    BY <2>3
  <2>5. RegistryOK(new)
    BY <2>2, <2>3, <2>4 DEF RegistryOK
  <2> QED BY <1>2, <2>2, <2>4, <2>5 DEF new
<1>3. CASE ep.sound /\ ep.group = "providers"
  <2> DEFINE providers2 == Register(reg.providers, ep)
  <2>1. new = [reg EXCEPT !["providers"] = providers2]
    BY <1>3 DEF LoadEntryPoint
  <2>2. PluginsOK(providers2)
    BY RegisterEffect DEF RegistryOK
  <2> HIDE DEF new, providers2
  <2>3. new = [providers |-> providers2, policies |-> reg.policies]
    BY <2>1 DEF RegistryOK
  <2>4. new.providers = providers2 /\ new.policies = reg.policies
    BY <2>3
  <2>5. RegistryOK(new)
    BY <2>2, <2>3, <2>4 DEF RegistryOK
  <2> QED BY <1>3, <2>4, <2>5 DEF new
<1> QED BY <1>1, <1>2, <1>3 DEF EntryPoints

\* Loading is the recursion of LoadEntryPoint along the entry points.
LoadedAt(f, reg, eps, n) == IF n = 0 THEN reg ELSE LoadEntryPoint(f[n - 1], eps[n])

IsLoading(f, reg, eps) == f = [n \in 0 .. Len(eps) |-> LoadedAt(f, reg, eps, n)]

LEMMA LoadingIsChosen ==
    ASSUME NEW reg, NEW eps
    PROVE  load_entry_points(reg, eps) = (CHOOSE f : IsLoading(f, reg, eps))[Len(eps)]
BY DEF load_entry_points, IsLoading, LoadedAt

LEMMA LoadingExists ==
    ASSUME NEW reg, RegistryOK(reg), NEW eps \in Seq(EntryPoints)
    PROVE  \E f : IsLoading(f, reg, eps)
<1> DEFINE N == Len(eps)
           V == {r \in [providers : Seq(EntryPoints), policies : Seq(EntryPoints)] : RegistryOK(r)}
           step(n, v) == IF n \in 1 .. N THEN LoadEntryPoint(v, eps[n]) ELSE v
           G == [a \in Nat \X V |-> step(a[1], a[2])]
<1>0. ASSUME NEW r, RegistryOK(r) PROVE r \in V
  <2>1. r = [providers |-> r.providers, policies |-> r.policies]
    BY <1>0 DEF RegistryOK
  <2>2. r.providers \in Seq(EntryPoints) /\ r.policies \in Seq(EntryPoints)
    BY <1>0 DEF RegistryOK, PluginsOK
  <2>3. r \in [providers : Seq(EntryPoints), policies : Seq(EntryPoints)]
    BY <2>1, <2>2
  <2> QED BY <1>0, <2>3
<1>1. N \in Nat /\ \A n \in 1 .. N : eps[n] \in EntryPoints
  OBVIOUS
<1>2. \A r \in V : RegistryOK(r)
  OBVIOUS
<1> HIDE DEF V, N
<1>3. \A n \in Nat, v \in V : step(n, v) \in V
  BY <1>0, <1>1, <1>2, LoadEffect
<1>4. \A n \in Nat, v \in V : G[<<n, v>>] = step(n, v)
  <2> HIDE DEF step
  <2> QED OBVIOUS
<1> HIDE DEF G
<1>5. PICK g : g \in [0 .. N -> V] /\ Recurs(g, reg, G, N)
  <2>1. reg \in V
    BY <1>0
  <2>2. \A n \in Nat, v \in V : G[<<n, v>>] \in V
    <3> HIDE DEF step
    <3> QED BY <1>3, <1>4
  <2> QED BY <1>1, <2>1, <2>2, Recursion
<1>6. ASSUME NEW n \in 0 .. N PROVE g[n] = LoadedAt(g, reg, eps, n)
  <2>1. CASE n = 0
    BY <1>5, <2>1 DEF LoadedAt, Recurs
  <2>2. CASE n # 0
    <3>1. n \in 1 .. N /\ n \in Nat /\ n - 1 \in 0 .. N
      BY <1>1, <2>2
    <3>2. g[n] = G[<<n, g[n - 1]>>] /\ g[n - 1] \in V
      BY <1>5, <3>1 DEF Recurs
    <3> QED BY <1>4, <2>2, <3>1, <3>2 DEF LoadedAt
  <2> QED BY <2>1, <2>2
<1>7. g = [n \in 0 .. N |-> LoadedAt(g, reg, eps, n)]
  <2>1. g = [n \in 0 .. N |-> g[n]]
    BY <1>5
  <2> QED BY <1>6, <2>1
<1> QED BY <1>7, Zenon DEF IsLoading, N

\* The i-th of n entry points is a sound policy, and none after it takes its place.
Lasting(eps, i, n) ==
    /\ eps[i].sound /\ eps[i].group = "policies"
    /\ \A j \in i + 1 .. n : eps[j].name = eps[i].name => ~ eps[j].sound

\* All that last are in the registry.
LEMMA LoadingKeeps ==
    ASSUME NEW reg, RegistryOK(reg), NEW eps \in Seq(EntryPoints)
    PROVE  /\ RegistryOK(load_entry_points(reg, eps))
           /\ \A i \in 1 .. Len(eps) : Lasting(eps, i, Len(eps)) => Has(load_entry_points(reg, eps).policies, eps[i])
<1> DEFINE N == Len(eps)
<1>1. PICK f : IsLoading(f, reg, eps) /\ load_entry_points(reg, eps) = f[N]
  BY LoadingIsChosen, LoadingExists
<1>2. N \in Nat /\ \A n \in 1 .. N : eps[n] \in EntryPoints
  OBVIOUS
<1>3. \A n \in 0 .. N : f[n] = LoadedAt(f, reg, eps, n)
  BY <1>1, Zenon DEF IsLoading
<1> HIDE DEF N
<1> DEFINE Kept(n) == /\ RegistryOK(f[n])
                      /\ \A i \in 1 .. n : Lasting(eps, i, n) => Has(f[n].policies, eps[i])
           T == {n \in Nat : n <= N => Kept(n)}
<1>4. 0 \in T
  <2>1. f[0] = reg
    BY <1>2, <1>3 DEF LoadedAt
  <2> QED BY <2>1
<1>5. ASSUME NEW n \in Nat, n \in T PROVE n + 1 \in T
  <2> SUFFICES ASSUME n + 1 <= N PROVE Kept(n + 1)
    OBVIOUS
  <2> DEFINE m == n + 1
             ep == eps[m]
  <2>1. m \in 0 .. N /\ m \in 1 .. N /\ m # 0 /\ m - 1 = n /\ Kept(n) /\ m \in Nat
    BY <1>2, <1>5
  <2>2. ep \in EntryPoints /\ f[m] = LoadEntryPoint(f[n], ep)
    <3>1. f[m] = LoadEntryPoint(f[m - 1], eps[m])
      BY <1>3, <2>1 DEF LoadedAt
    <3> QED BY <1>2, <2>1, <3>1
  <2>3. \A i \in 1 .. m : i \in 1 .. n \/ i = m
    OBVIOUS
  <2>4. \A i \in 1 .. n : m \in i + 1 .. m /\ \A j \in i + 1 .. n : j \in i + 1 .. m
    OBVIOUS
  <2> HIDE DEF m, ep
  <2>5. /\ RegistryOK(f[m])
        /\ ep.sound /\ ep.group = "policies" => Has(f[m].policies, ep)
        /\ \A e : (e.name = ep.name => ~ ep.sound) /\ Has(f[n].policies, e) => Has(f[m].policies, e)
    BY <2>1, <2>2, LoadEffect
  <2>6. ASSUME NEW i \in 1 .. m, Lasting(eps, i, m) PROVE Has(f[m].policies, eps[i])
    <3>1. CASE i = m
      BY <2>5, <2>6, <3>1 DEF Lasting, ep
    <3>2. CASE i \in 1 .. n
      <4>1. Lasting(eps, i, n)
        BY <2>4, <2>6, <3>2 DEF Lasting
      <4>2. ep.name = eps[i].name => ~ ep.sound
        BY <2>4, <2>6, <3>2 DEF Lasting, ep
      <4> DEFINE e == eps[i]
      <4>3. Has(f[n].policies, e) /\ (e.name = ep.name => ~ ep.sound)
        BY <2>1, <3>2, <4>1, <4>2
      <4> HIDE DEF e
      <4>4. Has(f[m].policies, e)
        BY <2>5, <4>3
      <4> QED BY <4>4 DEF e
    <3> QED BY <2>3, <3>1, <3>2
  <2> QED BY <2>5, <2>6 DEF m
<1>6. Nat \subseteq T
  <2> HIDE DEF T
  <2> QED BY <1>4, <1>5, Induction
<1>7. Kept(N)
  BY <1>2, <1>6
<1> QED BY <1>1, <1>7 DEF N
-----------------------------------------------------------------------------
\* Plugins of different names, and a policy class behind every name.
Registered ==
    /\ RegistryOK(registry)
    /\ \A n \in DOMAIN policies : policies[n] \in Policies

LEMMA OverlaidPolicies ==
    ASSUME NEW old, \A n \in DOMAIN old : old[n] \in Policies, NEW S, \A p \in S : p.class \in Policies
    PROVE  \A n \in DOMAIN Overlaid(old, S) : Overlaid(old, S)[n] \in Policies
<1> DEFINE new == Overlaid(old, S)
<1>1. /\ DOMAIN new = DOMAIN old \cup {p.name : p \in S}
      /\ \A n \in DOMAIN new :
            new[n] = IF \E p \in S : p.name = n THEN (CHOOSE p \in S : p.name = n).class ELSE old[n]
  BY DEF Overlaid
<1> HIDE DEF new
<1>2. ASSUME NEW n \in DOMAIN new PROVE new[n] \in Policies
  <2>1. CASE \E p \in S : p.name = n
    <3>1. (CHOOSE p \in S : p.name = n) \in S
      BY <2>1
    <3> QED BY <1>1, <2>1, <3>1
  <2>2. CASE ~ \E p \in S : p.name = n
    BY <1>1, <2>2
  <2> QED BY <2>1, <2>2
<1> QED BY <1>2 DEF new

\* The policies of plugins that can be made, and of different names.
LEMMA MadePolicies ==
    ASSUME NEW plugins, PluginsOK(plugins), NEW k \in DOMAIN plugins, Creates(plugins[k])
    PROVE  plugins[k].class \in Policies
<1>1. plugins[k] \in EntryPoints
  BY DEF PluginsOK
<1> QED BY <1>1 DEF EntryPoints, Creates

LEMMA PoliciesOfPlugins ==
    ASSUME NEW old, \A n \in DOMAIN old : old[n] \in Policies, NEW plugins, PluginsOK(plugins)
    PROVE  \A n \in DOMAIN RegisterPolicies(old, plugins) : RegisterPolicies(old, plugins)[n] \in Policies
<1> DEFINE S == {plugins[i] : i \in {k \in DOMAIN plugins : \A j \in 1 .. k : Creates(plugins[j])}}
<1>1. ASSUME NEW p \in S PROVE p.class \in Policies
  <2>1. PICK i \in DOMAIN plugins : p = plugins[i] /\ \A j \in 1 .. i : Creates(plugins[j])
    BY <1>1
  <2>2. i \in 1 .. i
    BY DEF PluginsOK
  <2> QED BY <2>1, <2>2, MadePolicies
<1>2. RegisterPolicies(old, plugins) = Overlaid(old, S)
  BY DEF RegisterPolicies
<1> HIDE DEF S
<1> QED BY <1>1, <1>2, OverlaidPolicies

LEMMA EnvRegisters ==
    ASSUME Registered, NEW s \in Starts, from_env(s)
    PROVE  Registered'
<1>1. RegistryOK(registry')
  <2>1. s.entry_points \in Seq(EntryPoints)
    BY CatalogueAssumption DEF CatalogueAssumption
  <2>2. RegistryOK(load_entry_points(registry, s.entry_points))
    BY <2>1, LoadingKeeps DEF Registered
  <2> QED BY <2>2 DEF from_env, Registered
<1>2. PluginsOK(registry'.policies)
  BY <1>1 DEF RegistryOK
<1>3. policies' = RegisterPolicies(policies, registry'.policies) \/ policies' = policies
  BY DEF from_env
<1>4. \A n \in DOMAIN RegisterPolicies(policies, registry'.policies) :
          RegisterPolicies(policies, registry'.policies)[n] \in Policies
  <2>1. PICK plugins : plugins = registry'.policies
    OBVIOUS
  <2>2. PICK old : old = policies
    OBVIOUS
  <2>3. PluginsOK(plugins)
    BY <1>2, <2>1
  <2>4. \A n \in DOMAIN old : old[n] \in Policies
    BY <2>2 DEF Registered
  <2>5. \A n \in DOMAIN RegisterPolicies(old, plugins) : RegisterPolicies(old, plugins)[n] \in Policies
    BY <2>3, <2>4, PoliciesOfPlugins
  <2> QED BY <2>1, <2>2, <2>5
<1> QED BY <1>1, <1>3, <1>4 DEF Registered

LEMMA RegisteredNext == Registered /\ [Next]_vars => Registered'
<1> SUFFICES ASSUME Registered, [Next]_vars PROVE Registered'
  OBVIOUS
<1>1. ASSUME registry' = registry, policies' = policies PROVE Registered'
  BY <1>1 DEF Registered
<1>2. CASE UNCHANGED vars
  BY <1>1, <1>2 DEF vars, setup
<1>3. ASSUME NEW s \in Starts, from_env(s) PROVE Registered'
  BY <1>3, EnvRegisters
<1>4. ASSUME NEW t \in Threads, NEW p \in NewPolicies, register_policy(t, p[1], p[2]) PROVE Registered'
  <2> DEFINE S == {[name |-> p[1], class |-> p[2]]}
  <2>1. registry' = registry /\ policies' = Overlaid(policies, S)
    BY <1>4 DEF register_policy, setup
  <2>2. \A e \in S : e.class \in Policies
    BY CatalogueAssumption DEF CatalogueAssumption
  <2> HIDE DEF S
  <2> QED BY <2>1, <2>2, OverlaidPolicies DEF Registered
<1>5. ASSUME NEW t \in Threads,
             \/ AddAdapter(t) \/ Snapshot(t) \/ InstallPlanner(t) \/ AskProvider(t) \/ WalkEnds(t)
             \/ AnsweredMalformed(t) \/ MakePlan(t) \/ refresh_models(t) \/ Store(t) \/ RefuseAddress(t)
      PROVE  Registered'
  BY <1>1, <1>5 DEF AddAdapter, Snapshot, InstallPlanner, AskProvider, WalkEnds, AnsweredMalformed, MakePlan,
                    refresh_models, Store, RefuseAddress, setup
<1>6. ASSUME NEW t \in Threads, NEW wish \in Wishes, chat(t, wish) \/ ChatRefused(t, wish) \/ stream(t, wish)
      PROVE  Registered'
  BY <1>1, <1>6 DEF chat, ChatRefused, stream, setup
<1>7. ASSUME NEW t \in Threads, NEW listing \in Listings,
             AnsweredNothingNew(t, listing) \/ AnsweredNew(t, listing) \/ AnsweredLost(t, listing)
      PROVE  Registered'
  BY <1>1, <1>7 DEF AnsweredNothingNew, AnsweredNew, AnsweredLost, setup
<1>8. ASSUME NEW t \in Threads, NEW p \in MoreProviders, add_provider(t, p) PROVE Registered'
  BY <1>1, <1>8 DEF add_provider, setup
<1> QED BY <1>2, <1>3, <1>4, <1>5, <1>6, <1>7, <1>8 DEF Next

LEMMA RegisteredAlways == Spec => []Registered
<1>1. Init => Registered
  <2> SUFFICES ASSUME Init PROVE Registered
    OBVIOUS
  <2>1. PluginsOK(<<>>)
    BY DEF PluginsOK
  <2>2. EmptyRegistry = [providers |-> <<>>, policies |-> <<>>]
    BY DEF EmptyRegistry
  <2> DEFINE none == <<>>
  <2>3. EmptyRegistry.providers = none /\ EmptyRegistry.policies = none /\ PluginsOK(none)
        /\ EmptyRegistry = [providers |-> none, policies |-> none]
    BY <2>1, <2>2
  <2> HIDE DEF none
  <2>4. RegistryOK(EmptyRegistry)
    BY <2>3 DEF RegistryOK
  <2>5. \A n \in DOMAIN BuiltinPolicies : BuiltinPolicies[n] \in Policies
    BY DEF BuiltinPolicies, Policies
  <2> QED BY <2>4, <2>5 DEF Init, Registered
<1> QED BY <1>1, RegisteredNext, PTL DEF Spec

\* A client is there only after it was built, and calls only when it is.
THEOREM TypeCorrect == Spec => []TypeOK
<1>1. Typed /\ Registered => TypeOK
  <2> SUFFICES ASSUME Typed, Registered PROVE TypeOK
    OBVIOUS
  <2>1. ASSUME NEW t \in Threads
        PROVE  /\ op[t].at \in {"idle", "listed", "resync", "holding", "asking", "awaiting", "found", "planning"}
               /\ op[t].pos \in 1 .. Len(providers) + 1 /\ op[t].idx \in Nat
               /\ op[t].at = "found" => op[t].idx \in DOMAIN providers
               /\ Running(t) => client = "built"
               /\ op[t].plan # <<>> => op[t].outcome = "planned"
    <3>1. CallOK(op[t]) /\ InPlace(op[t], providers) /\ (Running(t) => client = "built") /\ Len(providers) \in Nat
      BY DEF Typed
    <3>2. /\ op[t].pos \in Nat \ {0} /\ op[t].pos <= Len(providers) + 1 /\ op[t].idx \in Nat \ {0}
          /\ op[t].at = "found" => op[t].idx <= Len(providers)
      BY <3>1 DEF CallOK, InPlace
    <3>3. op[t].pos \in 1 .. Len(providers) + 1 /\ op[t].idx \in Nat
      BY <3>1, <3>2
    <3>4. op[t].at = "found" => op[t].idx \in DOMAIN providers
      <4>1. DOMAIN providers = 1 .. Len(providers)
        BY DEF Typed
      <4> QED BY <3>1, <3>2, <4>1
    <3> QED BY <3>1, <3>3, <3>4 DEF CallOK, CodePlaces
  <2> QED BY <2>1 DEF Typed, Registered, TypeOK
<1> QED BY <1>1, TypedAlways, RegisteredAlways, PTL

\* What from_env() builds knows the last sound plugin of every name
\* (load_entry_points(), and from_env() registering its policies).
LEMMA LastPluginsCount ==
    ASSUME Registered, NEW s \in Starts, from_env(s), client' = "built", s.plugins,
           NEW i \in DOMAIN s.entry_points, Lasting(s.entry_points, i, Len(s.entry_points))
    PROVE  /\ s.entry_points[i].name \in DOMAIN policies'
           /\ policies'[s.entry_points[i].name] = s.entry_points[i].class
<1> DEFINE eps == s.entry_points
           ep == eps[i]
           plugins == registry'.policies
           S == {plugins[k] : k \in {l \in DOMAIN plugins : \A j \in 1 .. l : Creates(plugins[j])}}
<1>1. eps \in Seq(EntryPoints)
  BY CatalogueAssumption DEF CatalogueAssumption
<1>2. registry' = load_entry_points(registry, eps) /\ policies' = RegisterPolicies(policies, plugins)
  BY DEF from_env
<1>3. \A p \in Range(plugins) : Creates(p)
  BY DEF from_env
<1>4. PluginsOK(plugins) /\ Has(plugins, ep)
  <2>1. DOMAIN eps = 1 .. Len(eps)
    BY <1>1
  <2>2. RegistryOK(load_entry_points(registry, eps)) /\ Has(load_entry_points(registry, eps).policies, eps[i])
    BY <1>1, <2>1, LoadingKeeps DEF Registered
  <2> QED BY <1>2, <2>2 DEF RegistryOK
<1>5. policies' = Overlaid(policies, S)
  BY <1>2 DEF RegisterPolicies
<1> HIDE DEF plugins
<1>6. S = Range(plugins)
  <2>1. DOMAIN plugins = 1 .. Len(plugins) /\ Len(plugins) \in Nat
    BY <1>4 DEF PluginsOK
  <2>2. \A l \in DOMAIN plugins : \A j \in 1 .. l : j \in DOMAIN plugins
    BY <2>1
  <2>3. \A l \in DOMAIN plugins : Creates(plugins[l])
    BY <1>3 DEF Range
  <2> QED BY <2>2, <2>3 DEF Range
<1> HIDE DEF S
<1>7. \A p, q \in S : p.name = q.name => p = q
  BY <1>4, <1>6 DEF PluginsOK, Range
<1>8. ep \in S
  BY <1>4, <1>6 DEF Has, Range
<1> HIDE DEF ep
<1>9. (CHOOSE p \in S : p.name = ep.name) = ep
  BY <1>7, <1>8
<1>10. ep.name \in DOMAIN policies' /\ policies'[ep.name] = ep.class
  BY <1>5, <1>8, <1>9 DEF Overlaid
<1> QED BY <1>10 DEF ep

\* One plugin that cannot be loaded takes no other with it.
THEOREM PluginsCorrect == Spec => GoodPluginsLoaded
<1>1. ASSUME Registered, [Next]_vars, client # "built", client' = "built", start'.plugins,
             NEW i \in DOMAIN start'.entry_points,
             LET eps == start'.entry_points
             IN  /\ eps[i].sound /\ eps[i].group = "policies"
                 /\ \A j \in DOMAIN eps : j > i /\ eps[j].name = eps[i].name => ~ eps[j].sound
      PROVE  /\ start'.entry_points[i].name \in DOMAIN policies'
             /\ policies'[start'.entry_points[i].name] = start'.entry_points[i].class
  <2>1. PICK s \in Starts : from_env(s)
    BY <1>1 DEF Next, vars, setup, add_provider, AddAdapter, Snapshot, InstallPlanner, AskProvider, WalkEnds,
                AnsweredMalformed, MakePlan, refresh_models, chat, ChatRefused, stream, register_policy,
                AnsweredNothingNew, AnsweredNew, AnsweredLost, Store, RefuseAddress
  <2>2. start' = s
    BY <2>1 DEF from_env
  <2> DEFINE eps == s.entry_points
  <2>3. eps \in Seq(EntryPoints)
    BY CatalogueAssumption DEF CatalogueAssumption
  <2>4. i \in DOMAIN eps /\ Lasting(eps, i, Len(eps))
    <3>1. i \in DOMAIN eps /\ eps[i].sound /\ eps[i].group = "policies"
          /\ \A j \in DOMAIN eps : j > i /\ eps[j].name = eps[i].name => ~ eps[j].sound
      BY <1>1, <2>2
    <3>2. \A j \in i + 1 .. Len(eps) : j \in DOMAIN eps /\ j > i
      <4> HIDE DEF eps
      <4>1. DOMAIN eps = 1 .. Len(eps) /\ Len(eps) \in Nat /\ i \in Nat \ {0}
        BY <2>3, <3>1
      <4> QED BY <4>1
    <3> QED BY <3>1, <3>2 DEF Lasting
  <2>5. /\ eps[i].name \in DOMAIN policies' /\ policies'[eps[i].name] = eps[i].class
    BY <1>1, <2>1, <2>2, <2>4, LastPluginsCount
  <2> QED BY <2>2, <2>5
<1>2. Registered /\ [Next]_vars =>
        [client # "built" /\ client' = "built" /\ start'.plugins =>
          LET eps == start'.entry_points
          IN  \A i \in DOMAIN eps :
                 eps[i].sound /\ eps[i].group = "policies"
                   /\ (\A j \in DOMAIN eps : j > i /\ eps[j].name = eps[i].name => ~ eps[j].sound)
                 => eps[i].name \in DOMAIN policies' /\ policies'[eps[i].name] = eps[i].class]_vars
  BY <1>1
<1> QED BY <1>2, RegisteredAlways, PTL DEF Spec, GoodPluginsLoaded
=============================================================================
