----------------------------- MODULE Bootstrap -----------------------------
(***************************************************************************)
(* How corpusctl fills the corpus beside the agents: the import of a       *)
(* directory, of a container image (registry or docker save) and of        *)
(* MalwareBazaar samples, and the indicators of a TAXII feed with the      *)
(* exact-hash hunt they start.  The catalog keeps what module Ingest       *)
(* promises: one artifact per digest, with the scope of its first commit.  *)
(* A path is a number (imports go in path order), a digest is a name.      *)
(***************************************************************************)
EXTENDS Integers, Sequences, FiniteSets, FiniteSetsExt, SequencesExt

CONSTANTS ImportPath, BytesOf, \* files offered, and the digest of each
          CodePath,            \* files classify does not call unknown
          LargePath,           \* files above max_artifact_bytes
          Layer, LayerOf,      \* layers of the image, layer of a file
          Image,               \* images to import, [layers, index]
          Feed, TaxiiBundle,   \* indicator lists posted, STIX bundles fetched
          MaxImports,          \* bound: runs of corpusctl
          MaxImportFaults      \* bound: calls that fail

ASSUME BootstrapAssumption ==
    /\ IsFiniteSet(ImportPath) /\ ImportPath \subseteq Nat
    /\ CodePath \cup LargePath \subseteq ImportPath
    /\ LayerOf \in [ImportPath -> Layer]
    /\ MaxImports \in Nat /\ MaxImportFaults \in Nat

VARIABLES
    image,    \* [layers, index]: layer -> [tar, gzip], platforms of its index
    catalog,  \* [scope, host, gaps]: artifacts, host occurrences, gap rows
    imp,      \* the import under way
    upsert,   \* the indicators call under way
    intel,    \* [auto, stored, detected, fired]: indicators and detections
    bfault    \* faults so far

BootstrapVars == <<image, catalog, imp, upsert, intel, bfault>>

Digests == {BytesOf[p] : p \in ImportPath}
OciSources == {"docker_save", "registry"}
Sources == {"dir", "malwarebazaar"} \cup OciSources
NoImport == [pc |-> "idle", source |-> "none", runs |-> 0, listed |-> {}, todo |-> {}, mine |-> {},
             unheard |-> {}, captured |-> 0, dedup |-> 0, too_large |-> 0, skipped |-> 0, failed |-> 0]
NoUpsert == [pc |-> "idle", feed |-> <<>>, at |-> 1, left |-> {}, hits |-> {}, held |-> {}, record |-> "none"]
ImportFault == bfault < MaxImportFaults /\ bfault' = bfault + 1

(***************************************************************************)
(* What a source lists.                                                    *)
(***************************************************************************)
\* Only members named *.tar are taken for layers; the others are left out.
walk_docker_save == {p \in ImportPath : image.layers[LayerOf[p]].tar}

\* The recent samples, each with the files of its zip.
mb_recent_hashes == ImportPath

Listed(source) ==
    CASE source = "docker_save" -> walk_docker_save
      [] source = "malwarebazaar" -> mb_recent_hashes
      [] OTHER -> ImportPath

\* linux/amd64, or else the first; an index may be empty, a manifest flat.
select_platform_manifest(index) ==
    IF index = <<>> THEN "refused" ELSE IF Contains(index, "amd64") THEN "amd64" ELSE Head(index)

\* A registry's layers are read as gzip, those of docker save as plain tar.
walk_layer(source) ==
    CASE source = "registry" -> /\ select_platform_manifest(image.index) # "refused"
                                /\ \A l \in Layer : image.layers[l].gzip
      [] source = "docker_save" -> \A l \in Layer : image.layers[l].tar => ~image.layers[l].gzip
      [] OTHER -> TRUE

(***************************************************************************)
(* One run of corpusctl.  The layers of an image are fetched and walked    *)
(* before the first file is sent.                                          *)
(***************************************************************************)
StartImport(source) ==
    /\ imp.pc \in {"idle", "complete", "aborted"}
    /\ imp.runs < MaxImports
    /\ imp' = [NoImport EXCEPT !.source = source, !.runs = imp.runs + 1,
                 !.listed = Listed(source), !.todo = Listed(source),
                 !.pc = IF walk_layer(source) THEN "next" ELSE "aborted"]
    /\ UNCHANGED <<image, catalog, upsert, intel, bfault>>

\* Entries of a directory that cannot be read are left out of the walk; they
\* are neither printed nor counted.
ListsPartly ==
    /\ imp.pc \in {"idle", "complete", "aborted"}
    /\ imp.runs < MaxImports
    /\ ImportFault
    /\ \E listed \in SUBSET Listed("dir") :
         imp' = [NoImport EXCEPT !.source = "dir", !.runs = imp.runs + 1, !.listed = listed,
                   !.todo = listed, !.pc = "next"]
    /\ UNCHANGED <<image, catalog, upsert, intel>>

\* The registry or MalwareBazaar does not answer: no token, manifest, layer
\* or list, and nothing has been sent.
FetchFails(source) ==
    /\ source \in {"registry", "malwarebazaar"}
    /\ imp.pc \in {"idle", "complete", "aborted"}
    /\ imp.runs < MaxImports
    /\ ImportFault
    /\ imp' = [NoImport EXCEPT !.source = source, !.runs = imp.runs + 1, !.pc = "aborted"]
    /\ UNCHANGED <<image, catalog, upsert, intel>>

Current == Min(imp.todo)
Done(i) == [i EXCEPT !.pc = "next", !.todo = @ \ {Current}]

NextFile ==
    /\ imp.pc = "next"
    /\ imp' = IF imp.todo = {} THEN [imp EXCEPT !.pc = "complete"]
              ELSE CASE imp.source \in OciSources /\ Current \in LargePath ->
                          [imp EXCEPT !.pc = "gap"]
                     [] imp.source \in OciSources /\ Current \notin LargePath \cup CodePath ->
                          [Done(imp) EXCEPT !.skipped = @ + 1]
                     [] OTHER -> [imp EXCEPT !.pc = "announce"]
    /\ UNCHANGED <<image, catalog, upsert, intel, bfault>>

\* A file of a directory that cannot be read is counted and passed over.
ReadFailed ==
    /\ imp.pc = "next" /\ imp.source = "dir" /\ imp.todo # {}
    /\ ImportFault
    /\ imp' = [Done(imp) EXCEPT !.failed = @ + 1]
    /\ UNCHANGED <<image, catalog, upsert, intel>>

\* report_gap does not look at the status of the answer.
report_gap ==
    /\ imp.pc = "gap"
    /\ \/ /\ catalog' = [catalog EXCEPT !.gaps = @ \cup {Current}]
          /\ imp' = [Done(imp) EXCEPT !.too_large = @ + 1]
          /\ UNCHANGED bfault
       \/ /\ ImportFault
          /\ imp' = [Done(imp) EXCEPT !.too_large = @ + 1, !.unheard = @ \cup {Current}]
          /\ UNCHANGED catalog
    /\ UNCHANGED <<image, upsert, intel>>

\* MalwareBazaar samples come without an occurrence.
WithOccurrence(c) ==
    IF imp.source = "malwarebazaar" THEN c ELSE [c EXCEPT !.host = @ \cup {BytesOf[Current]}]
Recorded(i) == [i EXCEPT !.mine = @ \cup {Current}]

announce ==
    /\ imp.pc = "announce"
    /\ IF catalog.scope[BytesOf[Current]] = "none"
       THEN imp' = [imp EXCEPT !.pc = "upload"] /\ UNCHANGED catalog
       ELSE /\ catalog' = WithOccurrence(catalog)
            /\ imp' = [Done(Recorded(imp)) EXCEPT !.dedup = @ + 1]
    /\ UNCHANGED <<image, upsert, intel, bfault>>

upload ==
    /\ imp.pc = "upload"
    /\ imp' = [imp EXCEPT !.pc = "finalize"]
    /\ UNCHANGED <<image, catalog, upsert, intel, bfault>>

\* Mutant: the refused file is passed over without being counted.
UploadRefused_Silent ==
    /\ imp.pc = "upload"
    /\ ImportFault
    /\ imp' = IF imp.source = "dir" THEN Done(imp) ELSE [imp EXCEPT !.pc = "aborted"]
    /\ UNCHANGED <<image, catalog, upsert, intel>>

\* import_dir counts a refused upload and goes on, commit_bytes gives up.
UploadRefused ==
    /\ imp.pc = "upload"
    /\ ImportFault
    /\ imp' = IF imp.source = "dir" THEN [Done(imp) EXCEPT !.failed = @ + 1]
              ELSE [imp EXCEPT !.pc = "aborted"]
    /\ UNCHANGED <<image, catalog, upsert, intel>>

\* The first commit of a digest sets its scope.
Committed(scope, d) == [catalog EXCEPT !.scope[d] = IF @ = "none" THEN scope ELSE @]
ScopeOf(source) == IF source = "malwarebazaar" THEN "intel" ELSE "endpoint"

finalize ==
    /\ imp.pc = "finalize"
    /\ catalog' = WithOccurrence(Committed(ScopeOf(imp.source), BytesOf[Current]))
    /\ imp' = [Done(Recorded(imp)) EXCEPT !.captured = @ + 1]
    /\ UNCHANGED <<image, upsert, intel, bfault>>

\* Samples are fetched one by one: an error ends the command half-way.
mb_fetch_zip ==
    /\ imp.pc = "next" /\ imp.source = "malwarebazaar" /\ imp.todo # {}
    /\ ImportFault
    /\ imp' = [imp EXCEPT !.pc = "aborted"]
    /\ UNCHANGED <<image, catalog, upsert, intel>>

\* Any other error ends the command; the call may have taken effect.
ImportAborts ==
    /\ imp.pc \in {"gap", "announce", "upload", "finalize"}
    /\ ImportFault
    /\ imp' = [imp EXCEPT !.pc = "aborted"]
    /\ \/ UNCHANGED catalog
       \/ imp.pc = "gap" /\ catalog' = [catalog EXCEPT !.gaps = @ \cup {Current}]
       \/ imp.pc = "announce" /\ catalog.scope[BytesOf[Current]] # "none" /\ catalog' = WithOccurrence(catalog)
       \/ imp.pc = "finalize" /\ catalog' = WithOccurrence(Committed(ScopeOf(imp.source), BytesOf[Current]))
    /\ UNCHANGED <<image, upsert, intel>>

\* An agent captures the bytes (module Capture).
AgentCaptures(d) ==
    /\ catalog' = [Committed("endpoint", d) EXCEPT !.host = @ \cup {d}]
    /\ UNCHANGED <<image, imp, upsert, intel, bfault>>

(***************************************************************************)
(* Indicators.  A posted value is [ioc_type, digest, form].                *)
(***************************************************************************)
\* The tokens of hash length in the patterns of indicator objects.
extract_hash_iocs(objects) ==
    LET tokens == FlattenSeq([i \in DOMAIN objects |->
                    IF objects[i].type = "indicator" THEN objects[i].tokens ELSE <<>>])
        hashes == SelectSeq(tokens, LAMBDA t : t.len \in {64, 40, 32})
    IN  [i \in DOMAIN hashes |->
           [ioc_type |-> CASE hashes[i].len = 64 -> "sha256" [] hashes[i].len = 40 -> "sha1" [] OTHER -> "md5",
            digest |-> hashes[i].digest, form |-> "lower"]]

fetch_taxii_indicators == {extract_hash_iocs(b) : b \in TaxiiBundle}

BeginUpsert ==
    /\ upsert.pc = "idle"
    /\ \E feed \in Feed \cup fetch_taxii_indicators :
         upsert' = [NoUpsert EXCEPT !.pc = "store", !.feed = feed,
                      !.held = {d \in catalog.host : catalog.scope[d] # "none"}]
    /\ UNCHANGED <<image, catalog, imp, intel, bfault>>

\* Mutant: the type is compared as it was written.
sha_hashes_Exact == {n \in DOMAIN upsert.feed : upsert.feed[n].ioc_type = "sha256"}
\* The positions of the values to be hunted.
sha_hashes == {n \in DOMAIN upsert.feed : upsert.feed[n].ioc_type \in {"sha256", "SHA256"}}

upsert_indicators ==
    /\ upsert.pc = "store"
    /\ IF upsert.at > Len(upsert.feed)
       THEN upsert' = [upsert EXCEPT !.pc = "hunt", !.left = sha_hashes] /\ UNCHANGED intel
       ELSE LET i == upsert.feed[upsert.at] IN
            /\ intel' = [intel EXCEPT !.stored = @ \cup {<<i.ioc_type, i.digest>>}]
            /\ upsert' = [upsert EXCEPT !.at = @ + 1]
    /\ UNCHANGED <<image, catalog, imp, bfault>>

\* Exact digests of endpoint artifacts; a value that is no hash ends the call.
hash_hunt ==
    /\ upsert.pc = "hunt"
    /\ upsert' =
         CASE ~intel.auto \/ sha_hashes = {} -> [upsert EXCEPT !.pc = "answered"]
           [] intel.auto /\ sha_hashes # {} /\ upsert.left = {} ->
                [upsert EXCEPT !.pc = "detect", !.record = IF upsert.hits = {} THEN "no_hits" ELSE "hits"]
           [] intel.auto /\ sha_hashes # {} /\ upsert.left # {} ->
                LET n == Min(upsert.left)
                    h == upsert.feed[n] IN
                IF h.form = "invalid" THEN [upsert EXCEPT !.pc = "error"]
                ELSE [upsert EXCEPT !.left = @ \ {n},
                        !.hits = @ \cup {d \in {h.digest} : catalog.scope[d] = "endpoint"}]
    /\ UNCHANGED <<image, catalog, imp, intel, bfault>>

\* One detection per hit; a trigger that cannot be fired is passed over.
record ==
    /\ upsert.pc = "detect" /\ upsert.hits # {}
    /\ \E d \in upsert.hits, fired \in BOOLEAN :
         /\ intel' = [intel EXCEPT !.detected = @ \cup {d},
                                   !.fired = IF fired THEN @ \cup {d} ELSE @]
         /\ upsert' = [upsert EXCEPT !.hits = @ \ {d}]
    /\ UNCHANGED <<image, catalog, imp, bfault>>

insert_record ==
    /\ upsert.pc = "detect" /\ upsert.hits = {}
    /\ upsert' = [upsert EXCEPT !.pc = "answered"]
    /\ UNCHANGED <<image, catalog, imp, intel, bfault>>

UpsertDropped ==
    /\ upsert.pc \in {"store", "hunt", "detect"}
    /\ ImportFault
    /\ upsert' = [upsert EXCEPT !.pc = "error"]
    /\ UNCHANGED <<image, catalog, imp, intel>>
----------------------------------------------------------------------------
BootstrapInit ==
    /\ image \in Image
    /\ catalog = [scope |-> [d \in Digests |-> "none"], host |-> {}, gaps |-> {}]
    /\ imp = NoImport
    /\ upsert = NoUpsert
    /\ \E auto \in BOOLEAN : intel = [auto |-> auto, stored |-> {}, detected |-> {}, fired |-> {}]
    /\ bfault = 0

BootstrapNext ==
    \/ \E s \in Sources : StartImport(s) \/ FetchFails(s)
    \/ ListsPartly \/ NextFile \/ ReadFailed \/ report_gap \/ announce \/ upload \/ UploadRefused \/ finalize
    \/ mb_fetch_zip \/ ImportAborts
    \/ \E d \in Digests : AgentCaptures(d)
    \/ BeginUpsert \/ upsert_indicators \/ hash_hunt \/ record \/ insert_record \/ UpsertDropped

BootstrapSpec == BootstrapInit /\ [][BootstrapNext]_BootstrapVars
----------------------------------------------------------------------------
\* An import that prints "complete" has accounted for every file its source
\* listed: it is in the corpus, with an occurrence of this run unless it is
\* an intelligence sample, or it was too large for an image and its gap was
\* stored, or the server refused that gap and the answer was not looked at,
\* or it is no code of an image, or it is among the failures; and the printed
\* numbers add up.
Large == IF imp.source \in OciSources THEN imp.listed \cap LargePath ELSE {}
ImportAccounted ==
    imp.pc = "complete" =>
        LET listed == imp.listed
            large == Large
            noCode == IF imp.source \in OciSources THEN listed \ (LargePath \cup CodePath) ELSE {}
        IN  /\ imp.mine \subseteq listed \ (large \cup noCode)
            /\ \A p \in imp.mine : /\ catalog.scope[BytesOf[p]] # "none"
                                   /\ imp.source # "malwarebazaar" => BytesOf[p] \in catalog.host
            /\ \A p \in large : p \in catalog.gaps \cup imp.unheard
            /\ imp.captured + imp.dedup = Cardinality(imp.mine)
            /\ imp.too_large = Cardinality(large) /\ imp.skipped = Cardinality(noCode)
            /\ imp.failed = Cardinality(listed \ (large \cup noCode \cup imp.mine))
            /\ imp.failed > 0 => imp.source = "dir"

\* cmd_import_oci: every file left out of an image for its size has a gap row
\* when the import is complete ("failed capture is recorded, not dropped").
LargeFilesRecorded == imp.pc = "complete" => Large \subseteq catalog.gaps

\* An answered upsert has detected every sha256 it named, in either case,
\* among the files hosts were known to hold when it began, whatever imports
\* and captures ran meanwhile, unless an intelligence import had committed
\* the bytes first: their scope stays "intel" and hash_hunt looks past them.
\* "no_hits" is recorded only when there was nothing to find.
HashIntelComplete ==
    upsert.pc = "answered" /\ intel.auto =>
        LET named == {i.digest : i \in {i \in ToSet(upsert.feed) : i.ioc_type \in {"sha256", "SHA256"}}}
            found == {d \in named \cap upsert.held : catalog.scope[d] # "intel"}
        IN  found \subseteq intel.detected /\ (upsert.record = "no_hits" => found = {})
=============================================================================
