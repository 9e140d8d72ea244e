# gotlai in TLA+

gotlai translates documents: a processor extracts the texts of a document, the
translator looks each text up in a cache, asks a provider for the ones it does
not find, stores the answers and has the processor put them back. It is a
library with a command around it: any number of goroutines may call one
translator, several translators may share one cache, and providers are wrapped in
retries and rate limits. These modules model that, TLC checks it on small
instances, and TLAPS proves every safety property of the runs for all sizes. `PROJECT.json` lists,
for every definition that models code, the lines it models; for every property, a
plausible bug in that code (a definition beside the original, such as `CheckBlind`
beside `Check`) that makes TLC find the property violated.

## 1. The system

| Component | State | Operations | What is hard | What makes it correct |
|---|---|---|---|---|
| Cache interface (`cache/cache.go`, `translator.go`) | a map | `Get`, `Set` | several implementations, which may forget | a value is never invented or moved to another key |
| `InMemoryCache` (`cache/memory.go`) | map with timestamps, RWMutex | `Get`, `Set`, `Len`, `Clear`, `Entries` | `Get` is three critical sections with an age check outside the lock | nothing older than the TTL is served; a fresh entry is lost only to a `Get` that saw an older one |
| `RedisCache` (`cache/redis.go`) | the server's map | `Get`, `Set` over a network | lost answers, commands executed late or twice, expiry, eviction | errors are misses; late commands neither invent values nor defeat the TTL |
| Export, import (`cache/export.go`) | one file, entries in flight | `ExportToFile`, `ImportFromFile` | truncation before the snapshot, overlapping exports, crashes, an import beside other users | exports that succeed and close their file leave one moment of the cache; an import reports what it lost |
| `Translator` (`translator.go`, `hash.go`) | tables of one call, shared cache | `Process` | lookups, request and stores of several goroutines interleave | no mixture of texts or languages, no text forgotten or sent twice, honest counts |
| `ParallelTranslator` (`parallel.go`) | goroutines, channel, WaitGroup | `TranslateBatchParallel` | answers in any order, closing the channel | same result as the sequential loop, no panic, no goroutine left |
| Retry (`retry.go`, `errors.go`) | attempt, last error | `WithRetry`, `IsRetryable` | cancellation against timers, overflow of the pause | budget kept, honest error, returns if its function does |
| `RateLimiter` (`ratelimit.go`) | token bucket | `Wait`, `TryAcquire`, `Available` | lazy refill, waiters without a queue | the rate is never exceeded, no token is lost, waiting is bounded |
| `OpenAIProvider` (`provider/openai.go`) | none | `Translate` | classification of errors, answers of any shape | one array of one response with one item per text, or an error |
| Provider stack (`retry.go:94`, `ratelimit.go:100`) | the bucket, one loop per call | `RetryableProvider` over `RateLimitedProvider` over a provider | three layers that each look at the context at their own time | at most one late request, no request without an attempt, a call waits for ever only for the API |
| Diff (`diff.go`) | two versions of a document | `DiffContentWithContext`, `NeedsTranslation` | lists come out of Go maps in any order | each text is accounted for once |
| `HTMLProcessor` (`processor/html.go`) | parsed tree | `Extract`, `Apply` | repeated texts, a tree changed while it is searched | each text extracted once, each occurrence replaced once, white space kept |
| `GoProcessor` (`processor/go.go`) | syntax tree | `Extract`, `Apply` | collection by text, replacement by position; escaping | exactly the first place of a text changes, and Go reads the translation there |
| Command line (`cmd/gotlai/main.go`) | the flags, an output file | one run | modes that exclude each other by early returns, flags after the input, an output file emptied before it is written | nothing is paid for in vain, the file and the exit status agree |
| Languages, types, example, mock | tables | lookups | nothing concurrent | |

How they interact: `Process` calls `Extract`, then `translateBatch` (cache and
provider), then `Apply`, all in the caller's goroutine. The cache is the only
state that goroutines share, together with the bucket of a rate limiter, the
channel and WaitGroup of one parallel lookup, and the file of an export. The
provider is called without any lock held. The command runs one `ProcessHTML`
with a new cache, or a diff, or a dry run, in one goroutine.

## 2. Modules

| Module | Models | State and actions |
|---|---|---|
| `TranslationCache` | the promise of a cache (abstract) | `store`, what each client does, and Sets that may still arrive; one action per visible effect |
| `InMemoryCache` | `cache/memory.go` | one action per critical section: `GetLookup` (under RLock), `GetCheck` (age, no lock), `GetCollect` (delete under Lock), `Set`, `Clear`, `Len`, `Entries`; `Tick` is the clock |
| `RedisCache` | `cache/redis.go` and the server | a call is sent, executed, answered in separate actions; `GetFails`, `SetFails`, `Resend`, `Arrive`, `Evict`, `ServerTick` |
| `CacheTransfer` | `cache/export.go` | an export: `Create` (empties the file), `Take` (the snapshot) or `Unsupported`, `Write` or `WriteFails`, `Exported` or `CloseFails`; an import: `Open`, `Decode`, `Store` and `StoreFails` entry by entry, `Imported`; `Put` and `Lose` are other users, `Crash` ends the process |
| `TranslationService` | the promise of `Process` (abstract) | one call per goroutine: submitted, then echoed, failed or delivered |
| `Translator` | `Process`, `translateBatch` | `pc` per goroutine; each turn of the cache loop (`LookupHit`, `LookupMiss`), `Send`, `Answer`, each turn of the store loop (`StoreResult`, `StorePanics`), `Apply` |
| `ParallelTranslator` | `ParallelCacheLookup`, `TranslateBatchParallel` | `Launch`, `Get`, `SendLookup`, `Done` per goroutine, `Close`; the caller's `Collect` and `LookupDone`, its second pass over the batch node by node (`Gather`, `Gathered`), then the request and the store loop |
| `Retry` | `WithRetry`, `IsRetryable` | `Check`, `Call`, the three ways an attempt ends, `Wake`, `StopSleeping`, `CancelContext` |
| `RateLimiter` | `ratelimit.go` | `Wait`, `Acquire`, `Refuse`, `Timer`, `GiveUp`, `Available`, `Cancel`, `Tick` |
| `ProviderStack` | `RetryableProvider`, `RateLimitedProvider`, `OpenAIProvider.Translate`, composed | per goroutine the loop of `WithRetry` (`Check`, `Call`, `Wake`, `StopSleeping`), in it the wait for a token (`Acquire`, `Refuse`, `Timer`, `GiveUp`), in it the request (`ApiFails`, `NoChoices`, `NoTexts`, `Answer`); `Refill`, `Cancel` |
| `Diff` | `diff.go` | `DiffContent`, one turn of the pairing loop (`Match`), `Filter`; map order is a choice |
| `CommandLine` | `cmd/gotlai/main.go`, over `Diff` | `Parse`, `Read`, `ReadPrevious`, `Compare` (a step of `Diff`), `PrintDiff`, `DryRun`, `Key`, `Translate`, `Create`, `Write`, `Close`, `Kill` |
| `HTMLProcessor` | `processor/html.go` | one turn of either walk (`Extract`, `Apply`) and the ends of the walks; `Translate` is its caller |
| `ContentProcessor` | `translator.go:47`, `strings.Trim` | what both processors declare: the content, the walk, the nodes and the table |
| `OrderedSets` | the loops that copy what passes a test (`diff.go:135`, `html.go:109`, the walk of `go.go`) | `InOrder`: a set of places as a list, from the first to the last |
| `GoProcessor` | `processor/go.go` | one place of either walk (`ExtractItem`, `ApplyToItem`), `TranslateTexts`, `AppliedToFile`; the choice of literals (`IsTranslatableString`) and the escaping (`EscapeString`) are operators on short sequences of characters |

`MCxxx` gives module `xxx` its small sets. The theorems are in modules of their own:
`CacheProofs` (`InMemoryCache`, `RedisCache`, `CacheTransfer`), `TranslatorProofs`,
`ParallelTranslatorProofs`, `ProviderWrapperProofs` (`RateLimiter`, `Retry`),
`ProviderStackProofs`, `OrderedSetsProofs`, `CommandLineProofs` (`Diff`, `CommandLine`) and
`ProcessorProofs` (`HTMLProcessor`, `GoProcessor`). A module that speaks of several
components extends them all. So related components have no name in common but what is
the same for both: what is kept under which keys (`CacheEntries`), the goroutines, TTL and
clock of a cache (`CacheClients`), the state of a walk (`ContentProcessor`); and of two
specifications one has the plain names and the others `RedisSpec`, `TransferSpec`,
`RetrySpec` and `GoSpec`.

Refinements, each by a mapping at the end of the detailed module:
`InMemoryCache` and `RedisCache` implement `TranslationCache`, `Translator`
implements `TranslationService`, and each goroutine of `ProviderStack` implements `Retry`
(`RetriesAsSpecified`: all that limiter and API do is "running"). That one is stated
for the loop of `Observed`, a constant that is any of the goroutines.

Compositions: `ProviderStack` instantiates `Retry` for its errors, outcomes and
classification and shares one bucket among the callers; the clock of the bucket is
left out there (a token appears by `Refill`), since `RateLimiter` has it.
`CommandLine` extends `Diff` and runs it as one of its modes. `Translator` uses the cache as
the abstract map, each `Get` and `Set` at one moment. That is what the refinements
allow: `TranslationCache` also lets an entry disappear at a `Get`, which is `Lose` in
`Translator`, and lets a Set fail. A Set that arrives late is not in `Translator`;
its effect on a reader is that of another goroutine which stores the same key, and
only `BatchIsCached` speaks of the newest value being there at all, not of which
value. `CacheTransfer` uses the cache in the same way.

What is abstracted everywhere: a hash stands for its text (SHA-256 without
collisions); a text, a context and the settings of a translator are model values;
a translation is a record of what it was made from, so that a property can ask
whose it is. In `Translator` a provider answers with any prefix of the results;
OpenAI's counts them (`CountMismatchError`), other implementations of `AIProvider`
need not. In `ProviderStack` a response of the API is any object or array of arrays
of results, one item too few or one that is no string among them.

The file of `CacheTransfer` is what a decoder finds at its path. The encoder
writes its document with one write, from the start of the file, and the decoder reads
one document and nothing behind it: a short export over a longer one, both begun
before either wrote, is whole for it. A write that is cut short leaves a beginning,
which does not decode, or, over the document of another export, a mixture that may
decode to anything (`Mixed`); so may bytes read while the file changes
(`"disturbed"`). The close at the end is deferred and its error dropped
(`export.go:68`): where it fails, the same may be left (`CloseFails`), and the caller is
told nothing.

## 3. Runs

All bounds are in the `.cfg` files and `MC` modules. Deadlock is checked where a
system never stops by itself (the caches, both translators, and `CacheTransfer`, whose
cache can always be used); the other modules model calls that end, and in `RateLimiter` the
clock and the requests are bounded (`MaxTime`, `Requests`).

| Run | Bounds | What it shows |
|---|---|---|
| `InMemoryCache` | 2 goroutines, 2 keys, 2 values, TTL 1, clock to 2 | `NothingStale`: no answer or listing is older than the TTL. `SnapshotInv`: the copy a `Get` works on was really stored under its key. `FreshLostOnlyToStaleGet`: the only way to lose one fresh entry. `ImplementsCache`. |
| `RedisCache` | the same | `ExpiresInTime` also for late and repeated commands; `ImplementsRemoteMap` with failing calls |
| `CacheTransfer` | 2 keys, 2 values, 2 exporting goroutines, 2 exports, 1 import; a file of another process or none; crashes at any point | `ExportSurvives`: overlapping exports that all succeeded, their closes included, leave the whole of one. `ImportsAreExports`: whatever crashes left, an import is one moment of a cache, but for a file written while it is read or by two exports of which one was cut short. `ImportIsComplete`: what it does not report as failed is back. `TransferTypeOK` includes the counts of `ImportResult`. |
| `Translator` | 2 goroutines; documents `<<a, a, b>>` and one without text; five translators: two languages, no provider, no cache, the source language | `Faithful`, `EveryTextOnce` (none forgotten, none sent twice), `CountsAddUp`, `BatchIsCached`, `ImplementsService`, while the cache loses entries at any moment, Sets fail and answers are too short |
| `TranslatorSettings` | two translators with different styles | violated by the code, see section 5 |
| `ParallelTranslator` | up to 3 lookup goroutines, a repeated text, a batch below the threshold, other users of the cache | `AnsweredOnce`, `SendIsSafe`, `BatchIsComplete` (with the misses in the order of the texts), and `EveryCallReturns`; its `TypeOK` holds the bounds of counter and channel |
| `Retry` | budgets -1 to 4 and 9, five base delays around the cap, 8-bit Durations, seven error chains | `Budget` (at most one late attempt), `HonestOutcome`, `BackoffIsExponential` (also what is left of it after the overflow), `Terminates` |
| `RateLimiter` | 2 goroutines, 2 calls each, a token in 3 ticks, timer unit 2, clock to 9 | `RateBound`, `RefusesOnlyExcess`, and `ServedInTime` while nothing was late |
| `ProviderStack` | 2 callers, 2 retries, a bucket of 1, a request of two texts of which one has a context and an empty request | `RequestsAreWanted`: limiter and loop together send at most one request after the context is done, and an attempt without a request is one that waits for its token. `AnswerIsItsOwn`: whatever the API says, an answer is one array of one response, and the right one if the model obeyed. `RetriesAsSpecified`. `EveryCallReturnsOrAwaitsApi`: a call ends, or the API is silent to it for ever, and then the other one ends all the same. |
| `HTMLProcessor` | trees of 6 nodes with four texts, skipped elements, no-break spaces, translations that are texts of the document | `NodesAreTheTexts`, `EveryOccurrenceIsReplaced`, `WhitespaceIsKept` |
| `GoProcessor` | files of up to 3 of 12 comments and literals, translations with backslashes, quotes, line ends, tabs, carriage returns and closing markers | `NodesAreFirstPlaces`, `FirstPlacesAreReplaced` |
| `CommandLine` | 14 command lines, 3 languages, all old versions of up to 2 nodes against all new ones of up to 2 and some of 3 | `OutputIsHonest`: what the output file holds after each failure, also of the close, or kill. `NothingAskedInVain`: which runs may ask the provider or touch the file. `DiffIsExact`, `PairingIsMaximal` for every map order. |

Why the bounds are enough to be interesting. Two goroutines and two keys contain
every race of the cache: a third adds no new pair of critical sections, and the
theorems below hold for any number. With TTL 1 and three clock values an entry
is fresh, exactly as old as the TTL, and too old. Two exports overlap in every way, or
one follows a crash of the other; an import sees the file before, between and
during them, and two keys make a file of which half is stored. `<<a, a, b>>` has a text that is
looked up twice; between the two lookups the other goroutine can store it or the
cache can lose it. Three goroutines fill a channel of
capacity three in every order. Eight bits overflow in the run with nine
retries and nowhere else. The timer's unit of 2 against a token of 3 ticks makes a
sleeper wake before its token has accrued, so that it must sleep again: the run reaches
the bound of `ServedInTime`. With one
token and two callers of three attempts each, one takes the other's token at
every attempt. Three places of a Go file are a text, its repetition of another kind
in front of it or behind it, and a third that must not change.

Symmetry is used where no liveness is checked: goroutines, keys and values are
alike in the caches and in `CacheTransfer`, goroutines in `Translator` and `RateLimiter`.

History variables (they guard no action): `lastSet` in `InMemoryCache`; `intact` in `Translator`
(calls since whose begin the cache lost nothing and that had no failed Set);
`taken`, `claims`, `broken`, `touched`, `torn` in `CacheTransfer`;
`calls`, `lateCalls`, `slept` in `Retry`; `requests` (it also bounds the run),
`since`, `spent`, `spentBefore`, `prompt` in `RateLimiter`; `got`, `calls`, `lateCalls`,
`pauses`, `requests`, `lateRequests` in `ProviderStack`; `source` in `HTMLProcessor` and
`GoProcessor`; `asked` in `CommandLine`.

### Fairness

`Retry`, `ParallelTranslator` and `ProviderStack` have liveness properties, all under weak
fairness of the steps that run in a goroutine of the program: the Go scheduler
runs every goroutine that can run, and timers fire. `ProviderStack` also
assumes that time passes (`Refill`), and that a request ends when its context does.

That the API answers is not assumed there, since nothing in the code ensures it: the client
is made from `openai.DefaultConfig` without a timeout (`openai.go:30`), the wrappers hand on the
caller's context as it is (`retry.go:41`, `ratelimit.go:126`), and the command's is
`context.Background()` (`main.go:164`). A server that takes a request and stays silent hangs
the call. `FairSpec` therefore exempts a goroutine at that place (`AwaitsApi`), and
`EveryCallReturnsOrAwaitsApi` has the hanging call as its other outcome. In `Retry` the function, and in
`ParallelTranslator` the provider and the cache, are parameters of the code; that they return
is an assumption on them, of which `Terminates` and `EveryCallReturns` speak.

Nothing is assumed of
`Cancel`, of the other users of a cache (`Others`), or of a caller's next call
(`Begin`). `Terminates` needs fairness only of the loop as a whole, so the
function under retry may fail for ever. In `ProviderStack` a waiter may lose its token to the
other caller again and again, but not for ever, since attempts are bounded; callers without end
could starve it. `RateLimiter` has no fairness:
`ServedInTime` is a bound on the clock while `prompt` holds, and promises nothing once a
goroutine was late.

## 4. Proofs

Checked by TLAPS for every value of the constants that satisfies the named
assumptions of each module. These give types, "absent is not a value", and here and there
finiteness, of the keys where entries are counted and of the goroutines where a wait
is bounded by their number. In `ProviderStack` what the API sends instead of a string is
none of the translations it was asked for. `HTMLAssumption` says that a document is a tree in
document order: a parent comes before its children, subtrees lie together, and only
elements have children. `GoAssumption` says that the items of a file are comments and
literals and that a translation is a finite sequence of characters.

- **`InMemoryCache`** (`CacheProofs`). The inductive invariant is `TypeOK /\ SnapshotInv`.
  `SnapshotInv` ties the copy that a goroutine holds between two critical sections to
  the Sets that happened; without it nothing bounds the age of what `Get` answers.
  From it: `HitsAreFresh` and `ListingsAreFresh` (together `NothingStaleAlways`),
  `LostOnlyToStaleGet`, `NothingExpiresWithoutTTL` (not a run's property; with TTL 0 the
  cache loses entries only to `Clear`) and `InMemoryImplements`, the refinement of
  `TranslationCache`: `GetCheck` and `GetCollect` map to the abstract answer to a
  Get that read the map at `GetLookup`.
- **`RedisCache`** (`CacheProofs`). `RedisTypeOK` is inductive with `ExpiresInTime`, as every command,
  late or repeated, carries the TTL and never a deadline (`RedisCorrect`). `RedisImplements`: an
  execution on the server is the abstract moment of a call, a lost one a failed
  Set that may still arrive, expiry and eviction are the cache's right to forget.
- **`CacheTransfer`** (`CacheProofs`). `ExportSurvives` speaks of a file at rest, but several
  exports may be under way: `Surviving` says that as long as none has failed, someone
  has yet to write everything again, or the file is whole and its writer has
  claimed it or will. A failed close ends the claims until the next round. `Sources` follows the entries from the snapshot through the file to the
  import. `Accounted` says which entries an import has stored that nobody changed
  since. All four properties of the run are theorems, for any number of
  exporters, keys, values and crashes.
- **`Translator`**. `Inv` is `TypeOK`, `Faithful`, `NothingForgotten` and
  `NoTextTwice` (together `EveryTextOnce`, theorem `Coverage`); each is preserved with the
  help of the ones before. `Faithful` is stated for the cache, the tables and the pending
  answers at once because each is filled from another. `BatchesAreCached` needs one more
  invariant, that the table of an intact call is in the cache. `Implements` shows that the
  whole of caching, batching and sharing is invisible but for the settings: each call
  behaves as if it were alone. `CountsAlwaysAddUp` counts while the loop of the cache
  runs (`Counted`): a node is counted once at most, every text it came past once at
  least, and the two counts are equal to neither when a text was missed and then hit.
- **`ParallelTranslator`**. All four invariants, for batches of any length. `IInv`
  follows a text through the lookup: its goroutine and the counter of the WaitGroup, which
  is the number of goroutines that have not called `Done` (`GoroutinesInv`); its one answer,
  in flight, collected as a hit, or collected as a miss (`ChannelInv`); the place of a
  miss in the request, by the first node that has it (`MissesInv`); what the store loop has
  done (`RequestInv`). `SendIsSafeAlways` needs the count: the channel is closed at zero, and
  zero means that no goroutine has still to send.
- **`Retry`** (`ProviderWrapperProofs`). `RetryInv` says for each place of the loop how `attempt`, the
  history and `lastErr` are related; `RetryCorrect` gives `Budget`, of which
  `OneLateCall` is a part, and `HonestOutcome` for every width, configuration and error. `BackoffAlways` is arithmetic
  modulo `2^Width`: `1 << attempt` may itself leave the width and the product still be
  right, namely zero. Beyond the overflow it proves that no pause exceeds `MaxDelay` and that
  there is none once the shifted bit has left the width. That powers of two grow and double is proved by counting subsets:
  `2^n` is the number of subsets of a set of `n` members.
- **`RateLimiter`** (`ProviderWrapperProofs`). `RateBound` is not inductive, because the tokens in the
  bucket could still be handed out: `RateInv` adds them. `Tight` says that some
  window reaches the bound exactly, the one since the bucket was last full; hence
  `RefusalsAreNeeded`: a refusal is never unjustified. `ServedInTimeAlways` has an invariant
  of its own, `TimeInv`: when a goroutine goes to sleep it has waited no longer than the
  tokens served beyond the burst account for, and each return to sleep is charged to a
  token served meanwhile or to one sleep that the timer's unit made too short
  (`AsleepSince`). The bound is therefore up to two sleeps for a token. A token's time for each
  goroutine beyond the burst and one sleep more, which two or three goroutines keep at the
  run's rate, is not enough for four: the shortfalls of truncated sleeps add up.
- **`ProviderStack`**. A step moves one goroutine (`Same`), so the invariant is one of
  each goroutine: how many requests an attempt has sent at each place, that a late request
  belongs to an attempt begun in time, and what the answer was read from. `RefinesRetry` maps
  each action to one of `Retry` or to a stutter, the refill and the steps of all other
  goroutines among them. It speaks of `Observed` since the prover cannot expand an instance
  with a parameter.
- **`OrderedSets`**. `InOrderLists`: for every finite set of numbers `InOrder` is a sequence
  of its members and no others, increasing. Its definition takes the member that has `k`
  members up to it; such a one exists because the places of different members differ, so
  that they are all the numbers up to the size of the set. `TailLists` and `ConcatLists` say
  how a list that is worked off from its head, or has another put before it, stays in order:
  the walks of both processors.
- **`Diff`, `CommandLine`** (`CommandLineProofs`). `DiffInv` follows the two lists by their
  indices: which texts are in which list at every turn of the pairing loop, and that no text
  is in a list twice. The properties count occurrences, and of a list without repetitions
  each text is counted once (`TimesOfOnce`), so no count is needed before the end.
  `PairingIsMaximal` holds because a removed node passes over an added one only when that is
  taken or no match. `RunImplementsDiff` shows that a run of the command takes steps of
  `Diff` and no others with its lists; `RunDiffCorrect` follows. `RunCorrect` is
  `OutputIsHonest` and `NothingAskedInVain`; its `RunInv` says stage by stage what is still
  untouched, and why the provider was asked.
- **`HTMLProcessor`** (`ProcessorProofs`). The walk of a recursive function is a list of
  nodes still to visit. `Frontier` says which these are: the nodes from here on whose parents
  lie before, which is the order of the document because subtrees lie together
  (`HTMLAssumption`). Then the nodes collected so far, and the places replaced so far, are
  those before the head of the list (`Extracting`, `Applying`). A replaced text lies
  behind the walk, so it is not found again though it may be another's text. `TrimAround`
  shows that white space around a text is not part of what `TrimSpace` leaves of it.
- **`GoProcessor`** (`ProcessorProofs`). `GoInv` is of the same kind, but the walk visits all
  comments before all literals, so the order is `Before`. `GoApplyCorrect` also needs that
  Go reads what `escapeString` wrote as the translation. `ReadsSpelling` proves it for
  translations of any length: each of the five replacements, one after the other, maps each
  character to a piece, and the reader, a function that recurses over the literal, gives the
  characters back piece by piece. That recursion ends is shown by an induction over a set of
  lengths (`UpTo`).

Only model-checked: liveness (`EveryCallReturns`, `EveryCallReturnsOrAwaitsApi`, `Terminates`), which under fairness is
outside the prover's reach. All safety properties of the passing runs are theorems.

## 5. Where the code and its documents disagree

Shown by a run: `TranslatorSettings`. Style and glossary control a translator's
translations (`README.md:86`, `:98`), but the cache key is text and language, so
translators that share a cache serve each other's style. `CacheKeyExtended`
(`hash.go:23`) exists and is not used.

Stated by a property that holds, as the exact extent of the divergence:

- `memory.go:47` ("Entry expired - clean it up"): what is deleted may be a fresh entry
  that was stored after the age check. `FreshLostOnlyToStaleGet` shows that this is the
  only way to lose one.
- `retry.go:28` ("executes a function"): with `MaxRetries` below 0 the function is not
  called and the error is nil. `HonestOutcome` states this as the only such case.
- `retry.go:55`: the pause overflows when `BaseDelay * 2^attempt` leaves 63 bits
  (attempt 34 for a base of one second) and then collapses to nothing.
  `BackoffIsExponential` states both: the doubled pause up to there, and beyond nothing but that
  it is never longer than `MaxDelay` and at last none.
- `html.go:271` ("preserves the original leading/trailing whitespace"): `strings.TrimSpace`
  takes away a no-break space that `preserveWhitespace` does not put back.
  `WhitespaceIsKept` says what remains: the text still begins and ends with its ASCII
  blanks. So `EveryOccurrenceIsReplaced` compares the texts without the white space around them.
- `go.go:14` ("translates string literals and comments"): a repeated text is
  replaced only at its first place, a literal never when a comment has the same text
  (`FirstPlacesAreReplaced`). A raw `\n` in a literal is escaped once more when it is put
  back (`go.go:267`); a translation with a backquote in a raw literal, `*/` in a block
  comment or a line end in a line comment breaks the source, and Go drops a carriage return
  in a raw literal or a comment.
- `openai.go:215`: without a "translations" key the first array in the order of a Go
  map is taken, and a JSON null becomes `<nil>` (`openai.go:240`); `AnswerIsItsOwn` says
  what remains true.
- `main.go:173`, `:185`: the output file is emptied before the page is written and without `--json`
  the result of the write is ignored: a full disk leaves a part of a page and exit
  status 0. The error of the deferred `f.Close()` (`:177`) is dropped with `--json` too, so a
  page that was written may still be lost under exit status 0 (`OutputIsHonest`).
- `README.md:179` (`gotlai --lang ja_JP --context "E-commerce website" input.html -o output.html`):
  `flag.Parse` stops at the input, so flags behind it have no effect, `--dry-run`
  among them. `NothingAskedInVain` is about the flags before it.
- `export.go:63` truncates the file before it is known whether the cache can be
  exported; a failed export destroys the previous one. The deferred `f.Close()` (`:68`) may fail unseen, so that
  `ExportToFile` returns nil over a file that is not whole. `ExportSurvives` says when neither
  happens.
- `openai.go:30`, `retry.go:41`, `ratelimit.go:126`, `main.go:164`: no timeout anywhere between the command and
  the API (`docs/gotlai-plan.md:492` lists "Add timeout handling" as not done), so a silent
  server hangs a call until its context ends, and the command for ever.
  `EveryCallReturnsOrAwaitsApi` says that this is the only way a call hangs.

Seen while reading, without a property:

- `parallel.go:120` carries neither glossary nor style, unlike the sequential request
  (`CHANGELOG.md:47`).
- `README.md:11` ("Disambiguates words based on surrounding HTML context"): the cache
  key does not know the context, and `HTMLProcessor.Extract` keeps only the context
  of the first place of a text.
- `diff.go:110`, `:121`: "Match by ID (same position in document)" does not come before
  "Match by similar context", both are tried on one added node after another, in the
  order of a Go map. The pairing of one pair of versions differs between runs.
- `openai.go:96`: the source language is never told to the model. `openai.go:254`: errors are
  retryable when their text contains "timeout", "503" and the like.
- `translator.go` and `languages.go` split a language code at `_` only: `en-GB` is not taken for a
  variant of `en_US`, and `ar-SA` is written from left to right.
- `main.go:54` ("Only translate new/changed content"): `--update` with `--diff` prints one more line
  and translates nothing (`main.go:383`).
- `go.go:73`, `:103`: directives (`//go:build`) and import paths without a slash
  count as comments and literals like any other.

## 6. What is not modelled

`NewRedisCache`, `Ping`, `Close` (connection set-up); `buildContext` and the wording of
the prompts; parsing and serialising of HTML, Go, JSON and the environment (libraries);
the tables of names in `languages.go`; progress messages, statistics and the layout of
reports; the example and the mock provider; error and version types, whose use is in
`Retry` and `ProviderStack`; options and getters of a translator, which are set before
the first call; float64 rounding in `RateLimiter` (tokens are
counted in ticks, and the truncation of the sleep is modelled).

## 7. Plan

A composition of `Translator` with `InMemoryCache` in place of the abstract map, so that the
time to live meets the two loops of a call directly and not only through the refinement.
