---------------------------- MODULE Localization ----------------------------
(***************************************************************************)
(* The catalogue of the game's texts: the store and its languages          *)
(* (src/localization/catalog.rs), the task that refreshes them from the    *)
(* game's web data and the cache it leaves for the next start              *)
(* (src/localization/updater.rs, src/localization/mod.rs).                 *)
(*                                                                         *)
(* A language has a pack, named by its hash, and packs are numbered in the *)
(* order in which they are published; of a pack only matters which wording *)
(* it gives to which key.  The wording of a key in pack h is h, that of    *)
(* the bundled fallback 0.  A snapshot maps languages to entries; the      *)
(* empty one stands for a file that does not exist, which load_cached_     *)
(* snapshot takes it for.                                                  *)
(***************************************************************************)
EXTENDS Integers, FiniteSets, SequencesExt

CONSTANTS
    Languages,  \* those the manifest may list
    Bundled,    \* those of the bundled fallback
    Keys,       \* the texts events are recognised by
    Optional,   \* keys that the packs in Partial do not have
    Partial,
    Broken,     \* packs with a text that makes no pattern
    MaxPacks,   \* bound: packs published for a language
    MaxFailures,\* bound: failed downloads and file operations
    ItemKeys,   \* the keys of items
    ItemNames,  \* their names, in any language
    ItemTypes,  \* each as the set of the keys that are of this type
    Nameless    \* keys without a Russian name

ASSUME LocalizationAssumption ==
    /\ Bundled \subseteq Languages
    /\ Optional \subseteq Keys
    /\ Partial \union Broken \subseteq 1 .. MaxPacks
    /\ MaxPacks \in Nat \ {0} /\ MaxFailures \in Nat

ASSUME ItemAssumption ==
    /\ IsFiniteSet(ItemKeys)
    /\ "none" \notin ItemKeys

VARIABLES
    published, \* the service's manifest: the pack of each language, or 0
    catalog,   \* SaoLocalizationStore
    cache,     \* catalog.json
    pc,        \* the refresh task's next step
    manifest,  \* as it was downloaded
    todo,      \* languages of the manifest that have not been looked at
    languages, \* the local of that name
    changed,   \* the local of that name
    failures,  \* failures so far
    refreshed  \* history: the store was replaced since the start

service == published
store == <<catalog, refreshed>>
task == <<pc, manifest, todo, languages, changed>>
vars == <<service, store, cache, task, failures>>

-----------------------------------------------------------------------------
NoWording == -1
Empty == [l \in {} |-> 0]

PackWording(h) ==
    [k \in Keys |-> IF h \in Partial /\ k \in Optional THEN NoWording ELSE h]

Pack(h) == [hash |-> h, complete |-> TRUE, wording |-> PackWording(h)]

(* resources/sao-localization-fallback.json: complete is false.             *)
Fallback ==
    [l \in Bundled |-> [hash |-> 0, complete |-> FALSE, wording |-> [k \in Keys |-> 0]]]

(* Mutant of MergeMissing: only whole languages are taken from it.          *)
MergeLanguages(s) ==
    [l \in DOMAIN s \union Bundled |-> IF l \in DOMAIN s THEN s[l] ELSE Fallback[l]]

(* LocalizationSnapshot::merge_missing_from the fallback.                   *)
MergeMissing(s) ==
    [l \in DOMAIN s \union Bundled |->
        IF l \notin DOMAIN s THEN Fallback[l]
        ELSE IF l \notin Bundled THEN s[l]
        ELSE [s[l] EXCEPT !.wording =
                  [k \in Keys |-> IF @[k] = NoWording THEN Fallback[l].wording[k] ELSE @[k]]]]

(* SaoLocalizationCatalog::from_snapshot compiles every text or none.       *)
Compiles(s) == \A l \in DOMAIN s, k \in Keys : s[l].wording[k] \notin Broken

(* raid_open_locations, is_raid_close, parse_item_drop, parse_booster and   *)
(* parse_global: some language's wording of the key is that of the line.    *)
Recognises(l, k, wording) == l \in DOMAIN catalog /\ catalog[l].wording[k] = wording

(* GLOBAL_STORE at the start: the cache, if there is a usable one.          *)
Loaded ==
    IF cache # Empty /\ Compiles(MergeMissing(cache)) THEN MergeMissing(cache) ELSE Fallback

-----------------------------------------------------------------------------
(* parse_item_drop.  Items have keys; the names of a language are a table   *)
(* from keys to names, whose HashMap lists the keys in any order.           *)
ItemKeyMatchesType(key, type) == key \in type

(* build_item_index, for the keys in the order they are listed: the places  *)
(* of those with that name.                                                 *)
KeysByName(names, listed, name) == {i \in DOMAIN listed : names[listed[i]] = name}

Matching(names, listed, name, type) ==
    {i \in KeysByName(names, listed, name) : ItemKeyMatchesType(listed[i], type)}

FirstOf(indices) == CHOOSE i \in indices : \A j \in indices : i <= j

(* Mutant of ResolveItemKey: the first that matches is taken.               *)
ResolveFirst(names, listed, name, type) ==
    LET matching == Matching(names, listed, name, type)
    IN  IF matching # {} THEN listed[FirstOf(matching)] ELSE "none"

(* CompiledLanguage::resolve_item_key; "none" is None.                      *)
ResolveItemKey(names, listed, name, type) ==
    LET matching == Matching(names, listed, name, type)
    IN  IF Cardinality(matching) = 1 THEN listed[FirstOf(matching)] ELSE "none"

(* The languages are asked in the order of their locales: the first whose   *)
(* template matches and which knows the rarity, by the key or by the label, *)
(* names the item, in Russian if there is a name for the key.  asked is a   *)
(* sequence of records: the names, the keys as they are listed, those whose *)
(* name has a style prefix (styled), and whether the rarity's label is      *)
(* known (labelled).                                                        *)
ParseDrop(asked, canonical, name, type) ==
    LET key(i) == ResolveItemKey(asked[i].names, asked[i].listed, name, type)
        answers == {i \in DOMAIN asked : key(i) \in asked[i].styled \/ asked[i].labelled}
        answered == key(FirstOf(answers))
    IN  IF answers = {} THEN "none"
        ELSE IF answered \in DOMAIN canonical THEN canonical[answered] ELSE name

-----------------------------------------------------------------------------
Init ==
    /\ published \in [Languages -> {0, 1}]
    /\ catalog = Fallback
    /\ cache = Empty
    /\ pc = "sleep"
    /\ manifest = [l \in Languages |-> 0]
    /\ todo = {}
    /\ languages = Empty
    /\ changed = FALSE
    /\ failures = 0
    /\ refreshed = FALSE

(* The service publishes a new pack for a language, or drops the language.  *)
Publish(l) ==
    /\ published[l] < MaxPacks
    /\ published' = [published EXCEPT ![l] = @ + 1]
    /\ UNCHANGED <<store, cache, task, failures>>

Withdraw(l) ==
    /\ failures < MaxFailures
    /\ failures' = failures + 1
    /\ published[l] # 0
    /\ published' = [published EXCEPT ![l] = 0]
    /\ UNCHANGED <<store, cache, task>>

Goto(step) == pc' = step /\ UNCHANGED <<manifest, todo, languages, changed>>

(* refresh_once returns, with an error or without: refresh_loop sleeps.     *)
Return ==
    /\ pc' = "sleep"
    /\ manifest' = [l \in Languages |-> 0]
    /\ todo' = {}
    /\ languages' = Empty
    /\ changed' = FALSE

(* The delay is over and one of MANIFEST_URLS answers.                      *)
DownloadManifest ==
    /\ pc = "sleep"
    /\ pc' = "packs"
    /\ manifest' = published
    /\ todo' = {l \in Languages : published[l] # 0}
    /\ UNCHANGED <<service, store, cache, languages, changed, failures>>

Take(l, entry) ==
    /\ todo' = todo \ {l}
    /\ languages' = [m \in DOMAIN languages \union {l} |->
                        IF m = l THEN entry ELSE languages[m]]

(* Mutant of UpToDate: a complete language is never downloaded again.       *)
UpToDateOnce(l) == l \in DOMAIN catalog /\ catalog[l].complete

UpToDate(l) ==
    l \in DOMAIN catalog /\ catalog[l].complete /\ catalog[l].hash = manifest[l]

KeepLanguage(l) ==
    /\ pc = "packs"
    /\ l \in todo
    /\ UpToDate(l)
    /\ Take(l, catalog[l])
    /\ UNCHANGED <<service, store, cache, pc, manifest, changed, failures>>

(* download_language_pack: what is served is the pack of the manifest or,   *)
(* by now, a newer one, which its hash betrays.                             *)
Matches(l, served) == served = manifest[l]

DownloadPack(l) ==
    /\ pc = "packs"
    /\ l \in todo
    /\ ~UpToDate(l)
    /\ \E served \in {manifest[l], published[l]} :
         /\ Matches(l, served)
         /\ Take(l, [Pack(served) EXCEPT !.hash = manifest[l]])
    /\ changed' = TRUE
    /\ UNCHANGED <<service, store, cache, pc, manifest, failures>>

(* The download fails or is not what the manifest says; the language stays  *)
(* as it is.                                                                *)
PackFails(l) ==
    /\ pc = "packs"
    /\ l \in todo
    /\ ~UpToDate(l)
    /\ failures < MaxFailures \/ manifest[l] # published[l]
    /\ failures' = failures + (IF manifest[l] # published[l] THEN 0 ELSE 1)
    /\ IF l \in DOMAIN catalog
       THEN Take(l, catalog[l])
       ELSE todo' = todo \ {l} /\ UNCHANGED languages
    /\ UNCHANGED <<service, store, cache, pc, manifest, changed>>

CatalogChanged ==
    changed \/ Cardinality(DOMAIN catalog) # Cardinality(DOMAIN languages)

(* The snapshot that is persisted and put in the store.                     *)
Snapshot == MergeMissing(languages)

(* Mutant of PacksDone: the store is replaced and nothing is persisted.     *)
PacksDoneInMemory ==
    /\ pc = "packs"
    /\ todo = {}
    /\ IF languages # Empty /\ CatalogChanged THEN Goto("replace") ELSE Return
    /\ UNCHANGED <<service, store, cache, failures>>

PacksDone ==
    /\ pc = "packs"
    /\ todo = {}
    /\ IF languages # Empty /\ CatalogChanged THEN Goto("write") ELSE Return
    /\ UNCHANGED <<service, store, cache, failures>>

(* persist_snapshot: the temporary file, the removal, the rename.           *)
WriteTemporary ==
    /\ pc = "write"
    /\ Goto(IF cache # Empty THEN "remove" ELSE "rename")
    /\ UNCHANGED <<service, store, cache, failures>>

RemoveCache ==
    /\ pc = "remove"
    /\ Goto("rename")
    /\ cache' = Empty
    /\ UNCHANGED <<service, store, failures>>

RenameCache ==
    /\ pc = "rename"
    /\ Goto("replace")
    /\ cache' = Snapshot
    /\ UNCHANGED <<service, store, failures>>

(* store.replace: a snapshot that does not compile leaves the store alone.  *)
Replace ==
    /\ pc = "replace"
    /\ IF Compiles(Snapshot)
       THEN catalog' = Snapshot /\ refreshed' = TRUE
       ELSE UNCHANGED store
    /\ Return
    /\ UNCHANGED <<service, cache, failures>>

(* Any of the operations fails: the refresh returns and is tried again.     *)
OperationFails ==
    /\ pc \in {"sleep", "write", "remove", "rename"}
    /\ failures < MaxFailures
    /\ failures' = failures + 1
    /\ Return
    /\ UNCHANGED <<service, store, cache>>

(* The collector ends at any point and is started again.                    *)
Restart ==
    /\ failures < MaxFailures
    /\ failures' = failures + 1
    /\ catalog' = Loaded
    /\ refreshed' = FALSE
    /\ Return
    /\ UNCHANGED <<service, cache>>

Refresh ==
    \/ DownloadManifest
    \/ \E l \in Languages : KeepLanguage(l) \/ DownloadPack(l)
    \/ PacksDone
    \/ WriteTemporary \/ RemoveCache \/ RenameCache \/ Replace

Next ==
    \/ Refresh
    \/ \E l \in Languages : Publish(l) \/ Withdraw(l) \/ PackFails(l)
    \/ OperationFails
    \/ Restart

Spec == Init /\ [][Next]_vars

(* The refresh task is a task of the runtime, and each request has a        *)
(* timeout.  The service owes nothing.                                      *)
FairSpec ==
    /\ Spec
    /\ WF_vars(Refresh \/ \E l \in Languages : PackFails(l))

-----------------------------------------------------------------------------
TypeOK ==
    /\ published \in [Languages -> 0 .. MaxPacks]
    /\ DOMAIN catalog \subseteq Languages
    /\ DOMAIN cache \subseteq Languages
    /\ pc \in {"sleep", "packs", "write", "remove", "rename", "replace"}
    /\ todo \subseteq Languages
    /\ DOMAIN languages \subseteq Languages

(* What the bundled catalogue recognises in a language is recognised in it, *)
(* in some wording, whatever is downloaded, cached and restarted.           *)
BundledCovered ==
    \A l \in Bundled : l \in DOMAIN catalog /\ \A k \in Keys : catalog[l].wording[k] # NoWording

(* An entry that takes itself for a complete pack has that pack's wordings: *)
(* it will not be downloaded again.  Only what the pack does not have is    *)
(* taken from the fallback.                                                 *)
Honest(s) ==
    \A l \in DOMAIN s : s[l].complete =>
        \A k \in Keys :
            \/ s[l].wording[k] = PackWording(s[l].hash)[k]
            \/ PackWording(s[l].hash)[k] = NoWording /\ s[l].wording[k] = 0
CompleteIsPack == Honest(catalog) /\ Honest(cache)

(* Neither the languages the collector came with lose a wording, nor is a    *)
(* merged or partial entry taken for a pack that needs no download.          *)
CatalogIsSound == BundledCovered /\ CompleteIsPack

(* Once the store has been refreshed, a restart finds what is in use, unless *)
(* the refresh is replacing the cache, failed there, or left one in it that *)
(* does not compile.                                                        *)
RestartFindsCatalog ==
    pc \in {"sleep", "packs", "write"} /\ refreshed =>
        \/ Loaded = catalog
        \/ ~Compiles(cache)
        \/ cache = Empty /\ failures > 0

(* A manifest that no longer changes is followed, unless a pack of it is    *)
(* broken: the catalogue has what it lists, after failures and restarts.    *)
FollowsManifest ==
    \A l \in Languages : \A h \in 1 .. MaxPacks :
        <>[](published[l] = h /\ \A m \in Languages : published[m] \notin Broken)
          => <>[](\A k \in Keys : PackWording(h)[k] = h => Recognises(l, k, h))

(* The Russian names of the items, all different.                           *)
Canonical == [key \in ItemKeys \ Nameless |-> key]

(* ParseDrop is what its description says for any two languages: an item of *)
(* the first language that knows the rarity, if its name and type stand for *)
(* one item only, in whatever order its names are listed.                   *)
AskedLanguages ==
    [names : [ItemKeys -> ItemNames], listed : SetToSeqs(ItemKeys),
     styled : SUBSET ItemKeys, labelled : BOOLEAN]

Meant(language, name, type) ==
    {key \in ItemKeys : language.names[key] = name /\ ItemKeyMatchesType(key, type)}

KnowsRarity(language, name, type) ==
    \/ language.labelled
    \/ \E key \in language.styled : Meant(language, name, type) = {key}

NameOf(language, name, type) ==
    IF \E key \in ItemKeys \ Nameless : Meant(language, name, type) = {key}
    THEN CHOOSE key \in ItemKeys : Meant(language, name, type) = {key}
    ELSE name

DropTable ==
    \A first, second \in AskedLanguages, name \in ItemNames, type \in ItemTypes :
        ParseDrop(<<first, second>>, Canonical, name, type) =
            IF KnowsRarity(first, name, type) THEN NameOf(first, name, type)
            ELSE IF KnowsRarity(second, name, type) THEN NameOf(second, name, type)
            ELSE "none"

(* A drop is attributed to the item its name and type stand for, and to     *)
(* none if they stand for several: never to the one a map lists first.      *)
(* Looked at whenever a catalogue is compiled.                              *)
DropIsUnambiguous == pc = "replace" => DropTable
=============================================================================
