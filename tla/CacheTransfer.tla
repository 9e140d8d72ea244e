------------------------------ MODULE CacheTransfer ------------------------------
(***************************************************************************)
(* Exporter and Importer (src/cache/export.go): goroutines write a cache to  *)
(* one file and read it back while others use the cache.  The process may    *)
(* crash; the file stays as it is, an in-memory cache starts empty again.    *)
(* An encoder writes its document at once, from the start of the file, and a  *)
(* decoder reads one document and nothing behind it.  A cache is a map that    *)
(* may lose entries.                                                          *)
(***************************************************************************)
EXTENDS CacheEntries, Integers, FiniteSets

CONSTANTS
    Exporters,      \* goroutines that call ExportToFile, all with the same path
    MaxExports,     \* bound: calls of ExportToFile
    MaxImports      \* bound: calls of ImportFromFile, one after the other

ASSUME TransferAssumption ==
    /\ IsFiniteSet(Keys)
    /\ MaxExports \in Nat
    /\ MaxImports \in Nat

VARIABLES
    inMemory,   \* the cache is an *InMemoryCache, the only type that can be exported
    stored,     \* the entries of the cache
    file,       \* [state, data]: what a reader of the path finds
    exporter,   \* per goroutine: [pc, data], data being the entries it took
    importer,   \* [pc, data, rest, imported, failed], rest being the keys not yet stored;
                \* "reading" is "disturbed" once the file has changed under it
    exports, imports,
    taken,      \* history: what the exporters took from the cache
    claims,     \* history: what the exports wrote that returned nil in this round, unless it is broken
    broken,     \* history: an export of this round failed, was cut off, or closed its file in vain
    touched,    \* history: keys that others changed since the import began
    torn        \* history: the import read what several exports wrote

transfers == <<exporter, importer, exports, imports>>
history == <<taken, claims, broken, touched, torn>>
transferVars == <<inMemory, stored, file, transfers, history>>

Maps == UNION {[K -> Values] : K \in SUBSET Keys}
None == <<>>

Missing == [state |-> "missing", data |-> None]
Truncated == [state |-> "damaged", data |-> None]
Whole(entries) == [state |-> "whole", data |-> entries]
Mixed == [state |-> "mixed", data |-> None]

\* What a write that was cut short leaves: what was there, the beginning of its document,
\* all of it but the last line end, or its beginning in front of the rest of another one,
\* which may decode to anything.
Parts(entries) ==
    {[state |-> "damaged", data |-> [k \in K |-> entries[k]]] : K \in SUBSET DOMAIN entries}
Mixtures == IF file.state \in {"whole", "mixed"} THEN {Mixed} ELSE {}
CutShort(entries) == {file, Whole(entries)} \cup Parts(entries) \cup Mixtures

\* json.Decoder returns an error unless the whole document is there.
DecodesAnything(f) == f.state # "missing"
Decodes(f) == f.state = "whole"

IdleExporter == [pc |-> "idle", data |-> None]
IdleImporter == [pc |-> "idle", data |-> None, rest |-> {}, imported |-> 0, failed |-> 0]
Storing(entries) == [pc |-> "storing", data |-> entries, rest |-> DOMAIN entries, imported |-> 0, failed |-> 0]

\* The file changes, under an import that reads it too.
Rewritten == importer' = IF importer.pc = "reading" THEN [importer EXCEPT !.pc = "disturbed"] ELSE importer

\* Nothing is claimed of the file any more until the next round.
Break == broken' = TRUE /\ claims' = {}

\* The cache after Set.
With(key, value) == [k \in DOMAIN stored \cup {key} |-> IF k = key THEN value ELSE stored[k]]

Active == {e \in Exporters : exporter[e].pc # "idle"}

\* The file is missing, or another process has exported its cache to it.
TransferInit ==
    /\ inMemory \in BOOLEAN
    /\ stored = None
    /\ \/ file = Missing /\ claims = {}
       \/ \E entries \in Maps : file = Whole(entries) /\ claims = {entries}
    /\ taken = claims
    /\ exporter = [e \in Exporters |-> IdleExporter]
    /\ importer = IdleImporter
    /\ exports = 0 /\ imports = 0
    /\ broken = FALSE /\ touched = {} /\ torn = FALSE

-----------------------------------------------------------------------------
\* ExportToFile: os.Create empties the file.  A round begins when nobody else exports.
Create(e) ==
    /\ exporter[e].pc = "idle"
    /\ exports < MaxExports
    /\ exports' = exports + 1
    /\ exporter' = [exporter EXCEPT ![e].pc = "created"]
    /\ file' = Truncated
    /\ Rewritten
    /\ IF Active = {} THEN claims' = {} /\ broken' = FALSE ELSE UNCHANGED <<claims, broken>>
    /\ UNCHANGED <<inMemory, stored, imports, taken, touched, torn>>

\* getAllEntries: Entries under the lock of the in-memory cache.
Take(e) ==
    /\ exporter[e].pc = "created"
    /\ inMemory
    /\ exporter' = [exporter EXCEPT ![e] = [pc |-> "taken", data |-> stored]]
    /\ taken' = taken \cup {stored}
    /\ UNCHANGED <<inMemory, stored, file, importer, exports, imports, claims, broken, touched, torn>>

\* Any other cache cannot be exported; the file is empty by now.
Unsupported(e) ==
    /\ exporter[e].pc = "created"
    /\ ~inMemory
    /\ exporter' = [exporter EXCEPT ![e] = IdleExporter]
    /\ Break
    /\ UNCHANGED <<inMemory, stored, file, importer, exports, imports, taken, touched, torn>>

\* The encoder writes the document.
Write(e) ==
    /\ exporter[e].pc = "taken"
    /\ file' = Whole(exporter[e].data)
    /\ exporter' = [exporter EXCEPT ![e].pc = "written"]
    /\ Rewritten
    /\ UNCHANGED <<inMemory, stored, exports, imports, history>>

Claim(entries) == claims' = (IF broken THEN {} ELSE claims \cup {entries}) /\ UNCHANGED broken

\* What a failed write means for the caller: an error, no claim.
FailureIgnored(entries) == Claim(entries)
Failure(entries) == Break

\* The write fails on the way, on a full disk for instance.
WriteFails(e) ==
    /\ exporter[e].pc = "taken"
    /\ file' \in CutShort(exporter[e].data)
    /\ Rewritten
    /\ Failure(exporter[e].data)
    /\ exporter' = [exporter EXCEPT ![e] = IdleExporter]
    /\ UNCHANGED <<inMemory, stored, exports, imports, taken, touched, torn>>

Exported(e) ==
    /\ exporter[e].pc = "written"
    /\ Claim(exporter[e].data)
    /\ exporter' = [exporter EXCEPT ![e] = IdleExporter]
    /\ UNCHANGED <<inMemory, stored, file, importer, exports, imports, taken, touched, torn>>

\* No other export of this round has written.
Alone(e) == claims = {} /\ ~broken /\ \A d \in Exporters \ {e} : exporter[d].pc # "written"

\* The deferred f.Close() fails, say because a remote disk is full: of what was written only
\* a part may have arrived, over another document if there was one.  The error is dropped,
\* ExportToFile returns nil.
CloseFails(e) ==
    /\ exporter[e].pc = "written"
    /\ file' \in {file} \cup Parts(file.data) \cup (IF Alone(e) THEN {} ELSE Mixtures)
    /\ Rewritten
    /\ Break
    /\ exporter' = [exporter EXCEPT ![e] = IdleExporter]
    /\ UNCHANGED <<inMemory, stored, exports, imports, taken, touched, torn>>

-----------------------------------------------------------------------------
\* ImportFromFile
Open ==
    /\ importer.pc \in {"idle", "done", "failed"}
    /\ imports < MaxImports
    /\ imports' = imports + 1
    /\ importer' = [IdleImporter EXCEPT !.pc = IF file = Missing THEN "failed" ELSE "reading"]
    /\ UNCHANGED <<inMemory, stored, file, exporter, exports, history>>

\* The bytes read are of several documents.
Torn == importer.pc = "disturbed" \/ file.state = "mixed"

\* The document is decoded before anything is stored.
Decode ==
    /\ importer.pc \in {"reading", "disturbed"}
    /\ \/ /\ Torn \/ Decodes(file)
          /\ \E entries \in IF Torn THEN Maps ELSE {file.data} : importer' = Storing(entries)
       \/ /\ Torn \/ ~Decodes(file)
          /\ importer' = [IdleImporter EXCEPT !.pc = "failed"]
    /\ touched' = {}
    /\ torn' = Torn
    /\ UNCHANGED <<inMemory, stored, file, exporter, exports, imports, taken, claims, broken>>

\* ImportResult after one Set.
CountedAsImported == [importer EXCEPT !.imported = @ + 1]
NotCounted == importer
CountedAsFailed == [importer EXCEPT !.failed = @ + 1]

\* cache.Set of one entry; the order of the file's entries is any.
Store(k) ==
    /\ importer.pc = "storing"
    /\ k \in importer.rest
    /\ stored' = With(k, importer.data[k])
    /\ importer' = [CountedAsImported EXCEPT !.rest = @ \ {k}]
    /\ touched' = touched \ {k}
    /\ UNCHANGED <<inMemory, file, exporter, exports, imports, taken, claims, broken, torn>>

\* A remote cache answers with an error; the entry may have been stored all the same.
StoreFails(k) ==
    /\ importer.pc = "storing"
    /\ ~inMemory
    /\ k \in importer.rest
    /\ stored' \in {stored, With(k, importer.data[k])}
    /\ importer' = [CountedAsFailed EXCEPT !.rest = @ \ {k}]
    /\ UNCHANGED <<inMemory, file, exporter, exports, imports, history>>

Imported ==
    /\ importer.pc = "storing"
    /\ importer.rest = {}
    /\ importer' = [importer EXCEPT !.pc = "done"]
    /\ UNCHANGED <<inMemory, stored, file, exporter, exports, imports, history>>

-----------------------------------------------------------------------------
\* A translation stores a result, an entry expires or is evicted, somebody clears the cache.
Put(k, v) ==
    /\ stored' = With(k, v)
    /\ touched' = touched \cup {k}
    /\ UNCHANGED <<inMemory, file, transfers, taken, claims, broken, torn>>

Lose(K) ==
    /\ K # {} /\ K \subseteq DOMAIN stored
    /\ stored' = [k \in DOMAIN stored \ K |-> stored[k]]
    /\ touched' = touched \cup K
    /\ UNCHANGED <<inMemory, file, transfers, taken, claims, broken, torn>>

\* The process ends in the middle of everything, and starts again.
Crash ==
    /\ stored' = IF inMemory THEN None ELSE stored
    /\ \/ UNCHANGED file
       \/ \E e \in Exporters : exporter[e].pc = "taken" /\ file' \in CutShort(exporter[e].data)
    /\ IF Active = {} THEN UNCHANGED <<claims, broken>> ELSE Break
    /\ exporter' = [e \in Exporters |-> IdleExporter]
    /\ importer' = IdleImporter
    /\ touched' = {}
    /\ UNCHANGED <<inMemory, exports, imports, taken, torn>>

TransferNext ==
    \/ \E e \in Exporters : \/ Create(e) \/ Take(e) \/ Unsupported(e)
                            \/ Write(e) \/ WriteFails(e) \/ Exported(e) \/ CloseFails(e)
    \/ Open \/ Decode
    \/ \E k \in Keys : Store(k) \/ StoreFails(k)
    \/ Imported
    \/ \E k \in Keys, v \in Values : Put(k, v)
    \/ \E K \in SUBSET Keys : Lose(K)
    \/ Crash

TransferSpec == TransferInit /\ [][TransferNext]_transferVars

-----------------------------------------------------------------------------
(* Every transfer is at a stage of export.go, and the counts of ImportResult   *)
(* (export.go:120-127) add up to the entries of the file at every stage.       *)
TransferTypeOK ==
    /\ inMemory \in BOOLEAN
    /\ stored \in Maps
    /\ file \in [state : {"missing", "damaged", "mixed", "whole"}, data : Maps]
    /\ exporter \in [Exporters -> [pc : {"idle", "created", "taken", "written"}, data : Maps]]
    /\ importer \in [pc : {"idle", "reading", "disturbed", "storing", "done", "failed"}, data : Maps,
                     rest : SUBSET Keys, imported : Nat, failed : Nat]
    /\ importer.imported + importer.failed + Cardinality(importer.rest)
          = Cardinality(DOMAIN importer.data)
    /\ exports \in 0..MaxExports /\ imports \in 0..MaxImports
    /\ taken \subseteq Maps /\ claims \subseteq taken
    /\ broken \in BOOLEAN /\ torn \in BOOLEAN
    /\ touched \subseteq Keys

(* ExportToFile (export.go:63) empties the file before it has anything to write, *)
(* so an export may destroy the one before it.  But when nobody is exporting and *)
(* every export since the file was last at rest returned nil, overlapping ones   *)
(* on the same path included, a decoder finds the whole of one of them (what a    *)
(* longer one may have left behind it is not read), and a crash changes nothing.  *)
(* One nil is worth nothing: when f.Close() fails (:68), which nobody is told.     *)
ExportSurvives ==
    Active = {} /\ ~broken /\ file # Missing =>
        file.state = "whole" /\ file.data \in claims

(* Import (export.go:110) decodes first: whatever crashes, failed writes and      *)
(* failed closes left behind, the entries it stores are the whole of one moment   *)
(* of the cache.  The exceptions are a file that was written while it was read,   *)
(* and one in which an export was cut short over the document of another that had *)
(* begun beside it.                                                                *)
ImportsAreExports == importer.pc \in {"storing", "done"} /\ ~torn => importer.data \in taken

(* An import that reports no failure (export.go:121) has brought back every      *)
(* entry of the file that nobody else has changed since it was stored.           *)
ImportIsComplete ==
    importer.pc = "done" /\ importer.failed = 0 =>
        \A k \in DOMAIN importer.data \ touched :
            k \in DOMAIN stored /\ stored[k] = importer.data[k]
=============================================================================
