------------------------------- MODULE Extract -------------------------------
(***************************************************************************)
(* Reading articles.  A run takes the prompt that is in force when its     *)
(* extract stage begins, reads its items one after the other (filters, the *)
(* cache of replies, the model behind its two clients, patterns when no    *)
(* model answers), and only then folds what was read into the companies.   *)
(* The prompt is edited from the control room at any moment; the run may   *)
(* die at any moment.                                                      *)
(* A text is a sequence of sentences, a sentence the set of things it      *)
(* says: a company, an amount, a round, "spinout"...; a quote is a part of *)
(* one sentence, or of none.  What a reply claims is one of these things,  *)
(* so a claim is true of a company when one sentence says both.            *)
(***************************************************************************)
EXTENDS Integers, Sequences, FiniteSets

CONSTANTS
    Items,          \* what sources deliver
    Page,           \* item -> what is known of it
    Texts,          \* text -> sequence of sentences
    MayReply,       \* text -> names of what a model may answer
    Reply,          \* name -> the reply: claims and quotes
    Batches,        \* the items a run may be given, in their order: sequences
    Ventures,       \* names of companies
    Worth,          \* amount -> pounds, with the day's rates
    Sterling,       \* the amounts in pounds
    Rounds,         \* words for rounds
    Universities,
    Bodies,         \* texts that an operator may put in place of the prompt
    ShippedPrompt,  \* the prompt in the code
    Trip,           \* failures in a row after which Hermes is skipped
    MaxRuns, MaxPromptEdits

NoFact == "none"
NoQuote == [at |-> 0, says |-> {}, long |-> FALSE]
NoQuotes == [company |-> NoQuote, amount |-> NoQuote, round |-> NoQuote, spinout |-> NoQuote]

VARIABLES
    prompts,      \* [active: the override or Shipped, edits]: table prompt_override
    cache,        \* <<version, text>> -> [reply, prompt]: the reply's name, and to which prompt
    companies,    \* name -> row
    quarantined,  \* items in table quarantine
    readingRun,   \* the run under way
    unflagged     \* history: companies a dead run had no time to flag

extractVars == <<prompts, cache, companies, quarantined, readingRun, unflagged>>

NoClaim == [fits |-> TRUE, single |-> TRUE, reason |-> NoFact, role |-> "startup",
            company |-> NoFact, about |-> NoFact, raised |-> NoFact, original |-> NoFact,
            grant |-> NoFact, round |-> NoFact, spinout |-> NoFact, university |-> NoFact,
            country |-> NoFact, founded |-> NoFact, founders |-> {},
            sure |-> TRUE, quotes |-> NoQuotes, review |-> FALSE, method |-> "llm"]

\* What the schema asks of a reply: amounts, and a quote for each kind of claim, here
\* of a sentence of the text or of none.
OfTheSchema(p, text) ==
    /\ DOMAIN p = DOMAIN NoClaim
    /\ {p.single, p.sure, p.review} \subseteq BOOLEAN
    /\ {p.raised, p.grant, p.original} \subseteq DOMAIN Worth \cup {NoFact}
    /\ DOMAIN p.quotes = DOMAIN NoQuotes
    /\ \A f \in DOMAIN NoQuotes : p.quotes[f].at \in {0} \cup DOMAIN Texts[text]

ASSUME ExtractAssumption ==
    /\ Trip \in Nat
    /\ Batches \subseteq Seq(Items)
    /\ \A i \in Items : \A r \in MayReply[Page[i].text] :
          Reply[r].fits => OfTheSchema(Reply[r], Page[i].text)

NoReply == [reply |-> NoFact, prompt |-> NoFact]

NoRun == [at |-> "idle", number |-> 0, todo |-> <<>>, read |-> <<>>, prompt |-> ShippedPrompt,
          client |-> NoFact,
          failures |-> 0, json |-> TRUE, attempt |-> 0, again |-> FALSE, unanswered |-> 0]

NoCompany == [exists |-> FALSE, date |-> NoFact, total |-> 0, round |-> NoFact,
              university |-> NoFact, country |-> NoFact, about |-> NoFact, method |-> NoFact,
              route |-> NoFact, flagged |-> FALSE,
              signals |-> {}, press |-> 0]

-----------------------------------------------------------------------------
(* Prompts.                                                                *)

\* override_version: of the shipped prompt, the shipped version.
Version(prompt) == IF prompt = ShippedPrompt THEN <<"base">> ELSE <<"base", prompt>>

\* cache_key: the text as extracted, whatever its title.  The model's name is
\* the one in Settings, which the runs of a model share.
Key(prompt, item) == <<Version(prompt), Page[item].text>>

TextIds == {Page[i].text : i \in Items}

ExtractInit ==
    /\ prompts = [active |-> ShippedPrompt, edits |-> 0]
    /\ cache = [k \in {<<Version(p), t>> : p \in Bodies \cup {ShippedPrompt}, t \in TextIds} |-> NoReply]
    /\ companies = [c \in Ventures |-> NoCompany]
    /\ quarantined = {}
    /\ readingRun = NoRun
    /\ unflagged = {}

EditPrompt(prompt) ==
    /\ prompts.edits < MaxPromptEdits
    /\ prompts.active # prompt
    /\ prompts' = [active |-> prompt, edits |-> prompts.edits + 1]
    /\ UNCHANGED <<cache, companies, quarantined, readingRun, unflagged>>

\* In one transaction; the body that is active already, and an empty one, change nothing.
SaveOverride(body) == EditPrompt(body)

\* The same for a body that is the shipped one.
ResetPrompt == EditPrompt(ShippedPrompt)

-----------------------------------------------------------------------------
(* The free filters.                                                       *)

QuoteSays(text) == UNION {Texts[text][k] : k \in DOMAIN Texts[text]}

\* extract_html's noindex and the cascade of `prefilter`.
WorthReading(item) ==
    LET p == Page[item]
    IN  /\ "noindex" \notin p.marks
        /\ "index page" \notin p.marks
        /\ "roundup" \notin p.marks
        /\ "short" \notin p.marks
        /\ "no signal" \notin p.marks
        /\ "many organisations" \notin p.marks

\* extract_stage: a source that parsed its page is not read.
Structured(item) == Page[item].filed # NoFact

-----------------------------------------------------------------------------
(* Grounding.                                                              *)

\* QUOTE_BINDINGS.
Bound == [company |-> {"company", "about"}, amount |-> {"raised", "original", "grant"},
          round |-> {"round"}, spinout |-> {"spinout", "university"}]

\* appears_verbatim: a quote of twelve characters or more.
Verbatim(q, text) == q.long /\ q.at # 0 /\ q.says \subseteq Texts[text][q.at]

\* _supports without its look at the quote's own sentence.
SupportsAnywhere(f, p, q, text) ==
    /\ f = "company" => p.company \in q.says
    /\ f = "amount" => \A a \in {"raised", "original", "grant"} : p[a] # NoFact => p[a] \in q.says
    /\ f = "round" => p.round \in q.says
    /\ f = "spinout" => "spinout" \in q.says /\ (p.university # NoFact => p.university \in q.says)

\* _supports: apart from the company's own quote, the company is named in the
\* sentence, and what is claimed in the quote, an amount in the currency it is in.
Supports(f, p, q, text) ==
    /\ IF f = "company" THEN p.company \in q.says ELSE p.company \in Texts[text][q.at]
    /\ f = "amount" =>
          /\ \A a \in {"raised", "original", "grant"} : p[a] # NoFact => p[a] \in q.says
          /\ \A a \in {"raised", "grant"} : p[a] # NoFact => p[a] \in Sterling
    /\ f = "round" => p.round \in q.says
    /\ f = "spinout" => "spinout" \in q.says /\ (p.university # NoFact => p.university \in q.says)

Stands(f, p, text) == Verbatim(p.quotes[f], text) /\ Supports(f, p, p.quotes[f], text)

Claims(f, p) == \E x \in Bound[f] : p[x] # NoFact

\* What is left of a reading once some of its quotes are checked, as in `ground`: what
\* a quote that does not stand was evidence for goes with it; a claim without a quote
\* stays; either is flagged.
Lost(fs, p, text) == {f \in fs : p.quotes[f] # NoQuote /\ ~Stands(f, p, text)}
Unquoted(fs, p) == {f \in fs : p.quotes[f] = NoQuote}

CheckedReading(fs, p, text) ==
    LET lost == Lost(fs, p, text)
    IN  [x \in DOMAIN p |->
            IF \E f \in lost : x \in Bound[f] THEN NoFact
            ELSE IF x = "quotes" THEN [f \in DOMAIN p.quotes |-> IF f \in lost THEN NoQuote ELSE p.quotes[f]]
            ELSE IF x = "review" THEN p.review \/ \E f \in lost \cup Unquoted(fs, p) : Claims(f, p)
            ELSE p[x]]

\* A founder whose quote does not name them beside the company.
Invented(founder, p, text) ==
    /\ founder.quote # NoQuote
    /\ \/ ~Verbatim(founder.quote, text)
       \/ founder.name \notin founder.quote.says
       \/ p.company \notin Texts[text][founder.quote.at]

FoundersChecked(p, text) ==
    [p EXCEPT !.founders = {m \in @ : ~Invented(m, p, text)},
              !.review = @ \/ \E m \in p.founders : m.quote = NoQuote \/ Invented(m, p, text)]

\* The company's quote first: the others are looked at for the name it leaves, and
\* each for what it is bound to, so that their order does not matter.
Ground(p, text) ==
    FoundersChecked(CheckedReading({"amount", "round", "spinout"},
                                   CheckedReading({"company"}, p, text), text), text)

-----------------------------------------------------------------------------
(* Records.                                                                *)

\* Extraction's validators, of a reply that fits the schema.
Validated(p) ==
    LET other == p.role # "startup"
    IN  [p EXCEPT !.reason = IF other THEN "not_a_startup" ELSE @,
                  !.single = @ /\ ~other /\ p.reason = NoFact]

IsUsable(p) == p.single /\ p.company # NoFact

\* The first sentence that says one of these things, 0 for none.
FirstWith(text, things) ==
    LET found == {k \in DOMAIN Texts[text] : Texts[text][k] \cap things # {}}
    IN  IF found = {} THEN 0 ELSE CHOOSE k \in found : \A o \in found : k <= o

\* _sentence_containing: the whole sentence, so long enough to be a quote.
Sentence(text, things) ==
    LET k == FirstWith(text, things)
    IN  IF k = 0 THEN NoQuote ELSE [at |-> k, says |-> Texts[text][k], long |-> TRUE]

\* The one thing of a kind that is found first, in the title and then in the text.
FoundIn(item, things) ==
    LET p == Page[item]
        k == FirstWith(p.text, things)
    IN  IF p.title \cap things # {} THEN CHOOSE x \in p.title \cap things : TRUE
        ELSE IF k # 0 THEN CHOOSE x \in Texts[p.text][k] \cap things : TRUE
        ELSE NoFact

\* find_hq_country and find_one_line_description.
HqCountry(item) == FoundIn(item, {"based in GB", "based in US"})

OneLine(text, firm) ==
    IF \E k \in DOMAIN Texts[text] : {firm, "makes"} \subseteq Texts[text][k] THEN "makes" ELSE NoFact

\* find_amount.
AmountOf(item) == FoundIn(item, DOMAIN Worth)

\* GRANT_CONTEXT in the title or where the text begins.
GrantContext(item) == "grant" \in Page[item].title \cup Texts[Page[item].text][1]

\* _detect_stage, of a text without a listing.
StageOf(item) == FoundIn(item, Rounds)

\* heuristic_extract.  A text that speaks of a listing, or names nobody, is no lead.
Heuristic(item) ==
    LET text   == Page[item].text
        name   == Page[item].named
        amount == AmountOf(item)
        grant  == amount \in Sterling /\ GrantContext(item)
        school == FoundIn(item, Universities)
        plain   == [NoClaim EXCEPT !.method = "heuristic", !.company = name, !.sure = FALSE,
                                  !.quotes.company = Sentence(text, {name})]
    IN  IF "IPO" \in Page[item].title \cup QuoteSays(text)
        THEN [plain EXCEPT !.single = FALSE, !.reason = "already_large_company"]
        ELSE IF name = NoFact
        THEN [plain EXCEPT !.single = FALSE, !.reason = "no_company_identified"]
        ELSE [plain EXCEPT
                !.country = HqCountry(item),
                !.about = OneLine(text, name),
                !.raised = IF amount \in Sterling /\ ~grant THEN amount ELSE NoFact,
                !.grant = IF grant THEN amount ELSE NoFact,
                !.original = IF amount \in Sterling THEN NoFact ELSE amount,
                !.quotes.amount = Sentence(text, {amount}),
                !.spinout = IF "spinout" \in QuoteSays(text) THEN "yes" ELSE NoFact,
                !.university = IF "spinout" \in QuoteSays(text) THEN school ELSE NoFact,
                !.quotes.spinout = IF "spinout" \in QuoteSays(text)
                                   THEN Sentence(text, {IF school = NoFact THEN "spinout" ELSE school})
                                   ELSE NoQuote,
                !.round = StageOf(item),
                !.quotes.round = Sentence(text, {StageOf(item)})]

\* _finish_heuristic: always for a human to look at.
FinishHeuristic(item) == [Ground(Heuristic(item), Page[item].text) EXCEPT !.review = TRUE]

\* _finish_llm: what the page states plainly fills what the reply left out.
FinishLlm(reply, item) ==
    LET text     == Page[item].text
        record   == Ground(Validated(reply), text)
        country  == IF record.country = NoFact THEN HqCountry(item) ELSE record.country
        about    == IF record.about = NoFact /\ record.company # NoFact
                    THEN OneLine(text, record.company) ELSE record.about
        filled   == country # record.country \/ about # record.about
    IN  [record EXCEPT !.country = country,
                       !.about = about,
                       !.review = @ \/ filled \/ ~record.sure \/ record.original # NoFact]

\* What comes of each item by the patterns, and of each reply to it.
ByPattern == [i \in Items |-> FinishHeuristic(i)]
ByModel ==
    [i \in Items |-> [r \in {n \in MayReply[Page[i].text] : Reply[n].fits} |-> FinishLlm(Reply[r], i)]]

-----------------------------------------------------------------------------
(* The extract stage.                                                      *)

\* What was read: the item, and the reply, or "pattern", or None.
RecordOf(entry) ==
    IF entry.from = NoFact THEN NoClaim
    ELSE IF entry.from = "pattern" THEN ByPattern[entry.item]
    ELSE ByModel[entry.item][entry.from]

\* build_llm: Hermes with a gateway behind it, Hermes or Claude alone, a gateway
\* alone, nothing.
ModelClients == {"both", "hermes", "gateway", NoFact}

\* extract_stage begins; `effective` falls back on the shipped prompt when the
\* table cannot be read.
StartReading(items, model, prompt) ==
    /\ readingRun.at = "idle"
    /\ readingRun.number < MaxRuns
    /\ prompt \in {prompts.active, ShippedPrompt}
    /\ readingRun' = [NoRun EXCEPT !.at = "reading", !.number = readingRun.number + 1,
                            !.todo = items,
                            !.prompt = prompt, !.client = model]
    /\ UNCHANGED <<prompts, cache, companies, quarantined, unflagged>>

Item == Head(readingRun.todo)

Reading == readingRun.at = "reading" /\ readingRun.todo # <<>>

\* The record of the item at hand, and where the reply came from.
ReadPage(r, from, prompt) ==
    [r EXCEPT !.at = "reading", !.todo = Tail(@), !.again = FALSE, !.attempt = 0,
              !.read = Append(@, [item |-> Item, from |-> from, prompt |-> prompt])]

\* Not read at all: a structured item, or one the filters reject.
PassOver ==
    /\ Reading
    /\ Structured(Item) \/ ~WorthReading(Item)
    /\ readingRun' = ReadPage(readingRun, NoFact, NoFact)
    /\ UNCHANGED <<prompts, cache, companies, quarantined, unflagged>>

ToRead == Reading /\ ~Structured(Item) /\ WorthReading(Item)

\* --no-llm, llm_enabled off, or no client.
ReadPlainly ==
    /\ ToRead
    /\ readingRun.client = NoFact
    /\ readingRun' = ReadPage(readingRun, "pattern", NoFact)
    /\ UNCHANGED <<prompts, cache, companies, quarantined, unflagged>>

Hit == cache[Key(readingRun.prompt, Item)]

\* A cached reply that does not validate is as good as none.
UsableReply(entry) == entry.reply # NoFact /\ Reply[entry.reply].fits

ReadFromCache ==
    /\ ToRead
    /\ readingRun.client # NoFact
    /\ UsableReply(Hit)
    /\ readingRun' = ReadPage(readingRun, Hit.reply, Hit.prompt)
    /\ UNCHANGED <<prompts, cache, companies, quarantined, unflagged>>

\* FallbackLLM.complete: which of the two is asked first.
FirstAsked(r) ==
    IF r.client = "gateway" \/ (r.client = "both" /\ r.failures >= Trip) THEN "gateway" ELSE "hermes"

AskModel ==
    /\ ToRead
    /\ readingRun.client # NoFact
    /\ ~UsableReply(Hit)
    /\ readingRun' = [readingRun EXCEPT !.at = FirstAsked(readingRun)]
    /\ UNCHANGED <<prompts, cache, companies, quarantined, unflagged>>

\* extract_html once a reply is there: it is cached before it is validated; one
\* more call for a reply that does not fit, then quarantine and the patterns.
Replied(r, reply) ==
    /\ cache' = [cache EXCEPT ![Key(r.prompt, Item)] = [reply |-> reply, prompt |-> r.prompt]]
    /\ \/ /\ Reply[reply].fits
          /\ readingRun' = ReadPage(r, reply, r.prompt)
          /\ UNCHANGED quarantined
       \/ /\ ~Reply[reply].fits /\ ~r.again
          /\ readingRun' = [r EXCEPT !.at = FirstAsked(r), !.again = TRUE, !.attempt = 0]
          /\ UNCHANGED quarantined
       \/ /\ ~Reply[reply].fits /\ r.again
          /\ readingRun' = ReadPage(r, "pattern", NoFact)
          /\ quarantined' = quarantined \cup {Item}
    /\ UNCHANGED <<prompts, companies, unflagged>>

\* Any exception of the client: the patterns, at the first call and at the second.
Unavailable(r) ==
    /\ readingRun' = ReadPage(r, "pattern", NoFact)
    /\ UNCHANGED <<prompts, cache, companies, quarantined, unflagged>>

\* HermesLLM.complete, or AnthropicLLM's: an answer that is JSON.
HermesReplies ==
    /\ readingRun.at = "hermes"
    /\ \E reply \in MayReply[Page[Item].text] : Replied([readingRun EXCEPT !.failures = 0, !.unanswered = 0], reply)

\* InvalidModelJSON is no failure of the provider, and no success either.
HermesTalks ==
    /\ readingRun.at = "hermes"
    /\ Unavailable([readingRun EXCEPT !.unanswered = 0])

\* FallbackLLM.complete counts the failure.
Failed(r) == [r EXCEPT !.failures = @ + 1, !.unanswered = @ + 1]

\* ProviderDown: no binary, no answer in time, an exit code, nothing printed.
HermesDown ==
    /\ readingRun.at = "hermes"
    /\ IF readingRun.client = "both"
       THEN /\ readingRun' = [Failed(readingRun) EXCEPT !.at = "gateway"]
            /\ UNCHANGED <<prompts, cache, companies, quarantined, unflagged>>
       ELSE Unavailable(Failed(readingRun))

GatewayIsAsked ==
    /\ readingRun.at = "gateway"
    /\ readingRun' = [readingRun EXCEPT !.at = "posted"]
    /\ UNCHANGED <<prompts, cache, companies, quarantined, unflagged>>

\* OpenAILLM.complete, of a 400 to a request in JSON mode: once more without it,
\* for this call and for all calls to come.
WithoutJson(r) == [r EXCEPT !.at = "gateway", !.json = FALSE]

GatewayRefusesJson ==
    /\ readingRun.at = "posted"
    /\ readingRun.json
    /\ readingRun' = WithoutJson(readingRun)
    /\ UNCHANGED <<prompts, cache, companies, quarantined, unflagged>>

\* Nothing but thinking: one more draw.
GatewayIsEmpty ==
    /\ readingRun.at = "posted"
    /\ readingRun.attempt = 0
    /\ readingRun' = [readingRun EXCEPT !.at = "gateway", !.attempt = 1]
    /\ UNCHANGED <<prompts, cache, companies, quarantined, unflagged>>

\* ProviderDown, an empty second draw, or no JSON: nobody is behind the gateway.
GatewayFails ==
    /\ readingRun.at = "posted"
    /\ Unavailable(readingRun)

GatewayReplies ==
    /\ readingRun.at = "posted"
    /\ \E reply \in MayReply[Page[Item].text] : Replied(readingRun, reply)

-----------------------------------------------------------------------------
(* Folding what was read into the companies.                               *)

ToResolve == readingRun.at = "reading" /\ readingRun.todo = <<>>

\* `attach` and `create_company`: knowledge is added where there was none.
FilledIn(old, new) == IF old = NoFact THEN new ELSE old

\* _route_of.
RouteOf(item) ==
    CASE Page[item].kind = "grant_award" -> "grant"
      [] Page[item].kind = "incorporation" -> "registry"
      [] OTHER -> "news"

\* _fields_from_extraction: a grant takes the place of what was raised; an amount
\* in another currency is converted.
TotalOf(record) ==
    IF record.grant # NoFact THEN Worth[record.grant]
    ELSE IF record.raised # NoFact THEN Worth[record.raised]
    ELSE IF record.original # NoFact THEN Worth[record.original]
    ELSE 0

\* _fields_from_structured runs after it: a filed date beats a stated year.
DateOf(entry, record) == IF Structured(entry.item) THEN Page[entry.item].filed ELSE record.founded

\* resolve_item: only a structured source or the reader names a company.
NameIn(entry, record) ==
    IF Structured(entry.item) THEN Page[entry.item].named
    ELSE IF IsUsable(record) THEN record.company
    ELSE NoFact

NameOf(entry) == NameIn(entry, RecordOf(entry))

PressKinds == {"news_mention"}

Press(signals) == Cardinality({s \in signals : s.kind \in PressKinds})

\* _record_signal, INSERT OR IGNORE, and _refresh_press_count.
WithSignal(row, item) ==
    LET signals == row.signals \cup {[kind |-> Page[item].kind, url |-> item]}
    IN  [row EXCEPT !.signals = signals,
                    !.press = IF Page[item].kind \in PressKinds THEN Press(signals) ELSE @]

Folded(row, entry, record) ==
    [row EXCEPT !.exists = TRUE,
                !.date = FilledIn(@, DateOf(entry, record)),
                !.total = IF @ = 0 THEN TotalOf(record) ELSE @,
                !.round = FilledIn(@, record.round),
                !.university = FilledIn(@, record.university),
                !.country = FilledIn(@, record.country),
                !.about = FilledIn(@, record.about),
                !.method = FilledIn(@, IF Structured(entry.item) THEN NoFact ELSE record.method),
                !.route = FilledIn(@, RouteOf(entry.item))]

\* resolve_item of the next item; the row of a record to be looked at is flagged
\* by a statement of its own.
Resolve ==
    /\ ToResolve
    /\ readingRun.read # <<>>
    /\ LET entry == Head(readingRun.read) IN
       \E record \in {RecordOf(entry)}, name \in {NameOf(entry)} :
           IF name = NoFact
           THEN readingRun' = [readingRun EXCEPT !.read = Tail(@)] /\ UNCHANGED companies
           ELSE /\ companies' = [companies EXCEPT
                                   ![name] = WithSignal(Folded(@, entry, record), entry.item)]
                /\ readingRun' = IF record.review THEN [readingRun EXCEPT !.at = "flagging"]
                                 ELSE [readingRun EXCEPT !.read = Tail(@)]
    /\ UNCHANGED <<prompts, cache, quarantined, unflagged>>

\* _run_pipeline: needs_review = 1.
Flag ==
    /\ readingRun.at = "flagging"
    /\ companies' = [companies EXCEPT ![NameOf(Head(readingRun.read))].flagged = TRUE]
    /\ readingRun' = [readingRun EXCEPT !.at = "reading", !.read = Tail(@)]
    /\ UNCHANGED <<prompts, cache, quarantined, unflagged>>

Ended == [NoRun EXCEPT !.number = readingRun.number]

\* The stages that follow are other modules'.
Finish ==
    /\ ToResolve
    /\ readingRun.read = <<>>
    /\ readingRun' = Ended
    /\ UNCHANGED <<prompts, cache, companies, quarantined, unflagged>>

\* The process dies; what it read and had not resolved is lost.
ReaderDies ==
    /\ readingRun.at # "idle"
    /\ unflagged' = IF readingRun.at = "flagging"
                    THEN unflagged \cup {NameOf(Head(readingRun.read))} ELSE unflagged
    /\ readingRun' = Ended
    /\ UNCHANGED <<prompts, cache, companies, quarantined>>

ReadingStep ==
    \/ PassOver
    \/ ReadPlainly
    \/ ReadFromCache
    \/ AskModel
    \/ HermesReplies
    \/ HermesTalks
    \/ HermesDown
    \/ GatewayIsAsked
    \/ GatewayRefusesJson
    \/ GatewayIsEmpty
    \/ GatewayFails
    \/ GatewayReplies
    \/ Resolve
    \/ Flag
    \/ Finish

Running == readingRun.at # "idle"
ReaderStep == Running /\ ReadingStep

ExtractNext ==
    \/ \E body \in Bodies : SaveOverride(body)
    \/ ResetPrompt
    \/ \E items \in Batches, model \in ModelClients, prompt \in Bodies \cup {ShippedPrompt} :
          StartReading(items, model, prompt)
    \/ ReaderStep
    \/ ReaderDies

ExtractSpec == ExtractInit /\ [][ExtractNext]_extractVars /\ WF_extractVars(ReaderStep)

-----------------------------------------------------------------------------
(* Properties.                                                             *)

\* One sentence of some article says this of the company.
StatedTogether(firm, things) ==
    \E t \in TextIds : \E k \in DOMAIN Texts[t] :
        firm \in Texts[t][k] /\ Texts[t][k] \cap things # {}

\* Its flag is the next step.
Flagging(c) == readingRun.at = "flagging" /\ c = NameOf(Head(readingRun.read))

\* What a row says that was raised, of which round, from which university, stands
\* in a sentence with the company's name, or a human is asked to look.
GroundedOrFlagged ==
    \A c \in Ventures : ~companies[c].flagged /\ ~Flagging(c) /\ c \notin unflagged =>
        /\ companies[c].total # 0 =>
              StatedTogether(c, {m \in DOMAIN Worth : Worth[m] = companies[c].total})
        /\ companies[c].round # NoFact => StatedTogether(c, {companies[c].round})
        /\ companies[c].university # NoFact => StatedTogether(c, {companies[c].university})

\* A run uses no reply that was given to another prompt.
OfThisPrompt ==
    \A k \in DOMAIN readingRun.read : readingRun.read[k].prompt \in {NoFact, readingRun.prompt}

\* "a dead Hermes costs three timeouts, not one per article".
HermesRests == readingRun.client = "both" => readingRun.unanswered <= Trip

\* The count of press mentions is the count of articles, however often one is read.
PressIsCounted == \A c \in Ventures : companies[c].press = Press(companies[c].signals)

ReadingIsHonest == GroundedOrFlagged /\ OfThisPrompt /\ HermesRests /\ PressIsCounted

\* "The pipeline never stops because a provider did".
RunsEnd == []<>~Running

=============================================================================
