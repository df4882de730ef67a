------------------------- MODULE LocalizationProofs -------------------------
(***************************************************************************)
(* Safety of the catalogue, for any languages, texts and packs.            *)
(*                                                                         *)
(* What is true of the catalogue and of the file is true of every snapshot *)
(* the refresh task handles, and merging the fallback keeps it so.  That a *)
(* restart finds the catalogue needs, for each step of the replacement of  *)
(* the file, what is in it.  The drops are about operators alone.          *)
(***************************************************************************)
EXTENDS Localization, FiniteSetTheorems, TLAPS

Entries == [hash : 0 .. MaxPacks, complete : BOOLEAN, wording : [Keys -> Int]]

Snapshots == UNION {[D -> Entries] : D \in SUBSET Languages}

(* Every wording of a bundled language is there.                            *)
Covers(s) == \A l \in Bundled : l \in DOMAIN s /\ \A k \in Keys : s[l].wording[k] # NoWording

Typed ==
    /\ published \in [Languages -> 0 .. MaxPacks]
    /\ manifest \in [Languages -> 0 .. MaxPacks]
    /\ todo \subseteq Languages
    /\ pc \in {"sleep", "packs", "write", "remove", "rename", "replace"}
    /\ {catalog, cache, languages} \subseteq Snapshots
    /\ failures \in Nat
    /\ refreshed \in BOOLEAN

SoundInv ==
    /\ Covers(catalog)
    /\ Honest(catalog) /\ Honest(cache) /\ Honest(languages)

(* What the file holds at each step of its replacement, and after it.       *)
CacheInv ==
    /\ pc \in {"write", "remove", "rename", "replace"} => languages # Empty
    /\ pc = "rename" => cache = Empty
    /\ pc = "replace" => cache = Snapshot
    /\ refreshed => Compiles(catalog)
    /\ refreshed /\ pc \in {"sleep", "packs", "write", "remove"} =>
         \/ cache # Empty /\ MergeMissing(cache) = catalog
         \/ ~Compiles(cache)
         \/ cache = Empty /\ failures > 0

LocalizationInv == Typed /\ SoundInv /\ CacheInv

-----------------------------------------------------------------------------
(* The merge with the fallback.                                             *)

LEMMA SnapshotType ==
  ASSUME NEW s \in Snapshots
  PROVE  /\ DOMAIN s \subseteq Languages
         /\ s \in [DOMAIN s -> Entries]
         /\ s = [l \in DOMAIN s |-> s[l]]
  BY DEF Snapshots

LEMMA SnapshotMade ==
  ASSUME NEW D \in SUBSET Languages, NEW s \in [D -> Entries]
  PROVE  s \in Snapshots /\ DOMAIN s = D
  BY DEF Snapshots

LEMMA EmptySnapshot ==
  /\ Empty \in Snapshots /\ DOMAIN Empty = {} /\ Honest(Empty)
  /\ \A s \in Snapshots : DOMAIN s = {} => s = Empty
<1>1. Empty \in [{} -> Entries] /\ DOMAIN Empty = {}
  BY DEF Empty
<1>2. Empty \in Snapshots /\ Honest(Empty)
  BY <1>1, SnapshotMade DEF Honest
<1>3. ASSUME NEW s \in Snapshots, DOMAIN s = {} PROVE s = Empty
  BY <1>3, SnapshotType DEF Empty
<1> QED
  BY <1>1, <1>2, <1>3

LEMMA FallbackSound ==
  /\ Fallback \in Snapshots /\ DOMAIN Fallback = Bundled
  /\ \A l \in Bundled, k \in Keys : Fallback[l].wording[k] = 0
  /\ Honest(Fallback) /\ Covers(Fallback)
<1>1. Fallback \in [Bundled -> Entries]
  BY LocalizationAssumption DEF Fallback, Entries
<1>2. Fallback \in Snapshots /\ DOMAIN Fallback = Bundled
  BY <1>1, SnapshotMade, LocalizationAssumption
<1>3. \A l \in Bundled : ~Fallback[l].complete /\ \A k \in Keys : Fallback[l].wording[k] = 0
  BY DEF Fallback
<1> QED
  BY <1>2, <1>3 DEF Honest, Covers, NoWording

LEMMA PackSound ==
  ASSUME NEW h \in 0 .. MaxPacks
  PROVE  /\ [Pack(h) EXCEPT !.hash = h] \in Entries
         /\ [Pack(h) EXCEPT !.hash = h].hash = h
         /\ [Pack(h) EXCEPT !.hash = h].wording = PackWording(h)
<1>1. PackWording(h) \in [Keys -> Int]
  BY LocalizationAssumption DEF PackWording, NoWording
<1> QED
  BY <1>1 DEF Pack, Entries

(* An entry of a merged snapshot: the language's own, with the missing      *)
(* wordings filled in, or the fallback's.                                   *)
LEMMA MergedEntry ==
  ASSUME NEW s \in Snapshots, NEW l \in DOMAIN s \union Bundled
  PROVE  /\ l \notin DOMAIN s => MergeMissing(s)[l] = Fallback[l]
         /\ l \in DOMAIN s =>
              /\ MergeMissing(s)[l].hash = s[l].hash
              /\ MergeMissing(s)[l].complete = s[l].complete
              /\ \A k \in Keys :
                   MergeMissing(s)[l].wording[k] =
                     IF l \in Bundled /\ s[l].wording[k] = NoWording THEN 0 ELSE s[l].wording[k]
         /\ MergeMissing(s)[l] \in Entries
<1>1. CASE l \notin DOMAIN s
  <2>1. MergeMissing(s)[l] = Fallback[l]
    BY <1>1 DEF MergeMissing
  <2>2. Fallback[l] \in Entries
    BY <1>1, FallbackSound, SnapshotType
  <2> QED
    BY <1>1, <2>1, <2>2
<1>2. CASE l \in DOMAIN s /\ l \notin Bundled
  BY <1>2, SnapshotType DEF MergeMissing
<1>3. CASE l \in DOMAIN s /\ l \in Bundled
  <2> DEFINE w == [k \in Keys |-> IF s[l].wording[k] = NoWording
                                  THEN Fallback[l].wording[k] ELSE s[l].wording[k]]
  <2>1. s[l] \in Entries
    BY <1>3, SnapshotType
  <2>2. MergeMissing(s)[l] = [s[l] EXCEPT !.wording = w]
    BY <1>3 DEF MergeMissing
  <2>3. w \in [Keys -> Int] /\ \A k \in Keys :
          w[k] = IF s[l].wording[k] = NoWording THEN 0 ELSE s[l].wording[k]
    BY <1>3, <2>1, FallbackSound DEF Entries
  <2> HIDE DEF w
  <2> QED
    BY <1>3, <2>1, <2>2, <2>3 DEF Entries
<1> QED
  BY <1>1, <1>2, <1>3

LEMMA MergeType ==
  ASSUME NEW s \in Snapshots
  PROVE  MergeMissing(s) \in Snapshots /\ DOMAIN MergeMissing(s) = DOMAIN s \union Bundled
<1>1. DOMAIN MergeMissing(s) = DOMAIN s \union Bundled
  BY DEF MergeMissing
<1>2. DOMAIN s \union Bundled \in SUBSET Languages
  BY SnapshotType, LocalizationAssumption
<1>3. MergeMissing(s) = [l \in DOMAIN s \union Bundled |-> MergeMissing(s)[l]]
  BY DEF MergeMissing
<1>4. MergeMissing(s) \in [DOMAIN s \union Bundled -> Entries]
  BY <1>3, MergedEntry
<1> QED
  BY <1>1, <1>2, <1>4, SnapshotMade

LEMMA MergeSound ==
  ASSUME NEW s \in Snapshots, Honest(s)
  PROVE  Honest(MergeMissing(s)) /\ Covers(MergeMissing(s))
<1>1. DOMAIN MergeMissing(s) = DOMAIN s \union Bundled
  BY MergeType
<1>2. Covers(MergeMissing(s))
  <2> SUFFICES ASSUME NEW l \in Bundled, NEW k \in Keys
               PROVE  MergeMissing(s)[l].wording[k] # NoWording
    BY <1>1 DEF Covers
  <2> QED
    BY MergedEntry, FallbackSound DEF NoWording
<1>3. Honest(MergeMissing(s))
  <2> SUFFICES ASSUME NEW l \in DOMAIN s \union Bundled, MergeMissing(s)[l].complete, NEW k \in Keys
               PROVE  \/ MergeMissing(s)[l].wording[k] = PackWording(MergeMissing(s)[l].hash)[k]
                      \/ /\ PackWording(MergeMissing(s)[l].hash)[k] = NoWording
                         /\ MergeMissing(s)[l].wording[k] = 0
    BY <1>1 DEF Honest
  <2>1. CASE l \in DOMAIN s
    BY <2>1, MergedEntry DEF Honest
  <2>2. CASE l \notin DOMAIN s
    BY <2>2, MergedEntry, FallbackSound DEF Honest
  <2> QED
    BY <2>1, <2>2
<1> QED
  BY <1>2, <1>3

(* Merging twice is merging once.                                           *)
LEMMA MergeTwice ==
  ASSUME NEW s \in Snapshots
  PROVE  MergeMissing(MergeMissing(s)) = MergeMissing(s)
<1> DEFINE m == MergeMissing(s)
           D == DOMAIN s \union Bundled
<1>1. m \in Snapshots /\ DOMAIN m = D
  BY MergeType
<1>2. MergeMissing(m) \in Snapshots /\ DOMAIN MergeMissing(m) = D
  BY <1>1, MergeType
<1>3. ASSUME NEW l \in D PROVE MergeMissing(m)[l] = m[l]
  <2> HIDE DEF m
  <2>1. m[l] \in Entries /\ MergeMissing(m)[l] \in Entries
    BY <1>1, <1>2, SnapshotType
  <2>2. /\ MergeMissing(m)[l].hash = m[l].hash
        /\ MergeMissing(m)[l].complete = m[l].complete
        /\ \A k \in Keys : MergeMissing(m)[l].wording[k] =
             IF l \in Bundled /\ m[l].wording[k] = NoWording THEN 0 ELSE m[l].wording[k]
    BY <1>1, MergedEntry
  <2>3. ASSUME NEW k \in Keys, l \in Bundled PROVE m[l].wording[k] # NoWording
    BY <2>3, MergedEntry, FallbackSound DEF m, NoWording
  <2>4. MergeMissing(m)[l].wording = m[l].wording
    BY <2>1, <2>2, <2>3 DEF Entries
  <2> QED
    BY <2>1, <2>2, <2>4 DEF Entries
<1> QED
  BY <1>1, <1>2, <1>3, SnapshotType

(* What is kept or downloaded of a language is added to the snapshot.       *)
LEMMA TakeSound ==
  ASSUME NEW l \in Languages, NEW entry \in Entries, Typed, Honest(languages), Take(l, entry),
         entry.complete => \A k \in Keys :
            \/ entry.wording[k] = PackWording(entry.hash)[k]
            \/ PackWording(entry.hash)[k] = NoWording /\ entry.wording[k] = 0
  PROVE  languages' \in Snapshots /\ Honest(languages') /\ todo' \subseteq Languages
<1>1. languages \in Snapshots
  BY DEF Typed
<1>2. languages' = [m \in DOMAIN languages \union {l} |-> IF m = l THEN entry ELSE languages[m]]
  BY DEF Take
<1>3. languages' \in [DOMAIN languages \union {l} -> Entries]
  BY <1>1, <1>2, SnapshotType
<1>4. languages' \in Snapshots
  BY <1>1, <1>3, SnapshotType, SnapshotMade
<1>5. Honest(languages')
  BY <1>2 DEF Honest
<1> QED
  BY <1>4, <1>5 DEF Take, Typed

-----------------------------------------------------------------------------
(* What is kept, downloaded or merged is a sound snapshot again.            *)
LEMMA SoundStep == Typed /\ SoundInv /\ [Next]_vars => (Typed /\ SoundInv)'
<1> SUFFICES ASSUME Typed, SoundInv, [Next]_vars PROVE (Typed /\ SoundInv)'
  OBVIOUS
<1> USE DEF Typed, SoundInv, service, store, task
<1>1. CASE DownloadManifest
  BY <1>1 DEF DownloadManifest
<1>2. ASSUME NEW l \in Languages, KeepLanguage(l) PROVE (Typed /\ SoundInv)'
  <2>1. catalog[l] \in Entries /\ l \in DOMAIN catalog
    BY <1>2, SnapshotType DEF KeepLanguage, UpToDate
  <2>2. Take(l, catalog[l])
    BY <1>2 DEF KeepLanguage
  <2>3. languages' \in Snapshots /\ Honest(languages') /\ todo' \subseteq Languages
    BY <2>1, <2>2, TakeSound DEF Honest
  <2> QED
    BY <1>2, <2>3 DEF KeepLanguage
<1>3. ASSUME NEW l \in Languages, DownloadPack(l) PROVE (Typed /\ SoundInv)'
  <2>1. manifest[l] \in 0 .. MaxPacks
    OBVIOUS
  <2> DEFINE entry == [Pack(manifest[l]) EXCEPT !.hash = manifest[l]]
  <2>2. Take(l, entry)
    BY <1>3 DEF DownloadPack, Matches
  <2>3. /\ entry \in Entries
        /\ entry.wording = PackWording(entry.hash)
    BY <2>1, PackSound
  <2> HIDE DEF entry
  <2>4. languages' \in Snapshots /\ Honest(languages') /\ todo' \subseteq Languages
    BY <2>2, <2>3, TakeSound
  <2> QED
    BY <1>3, <2>4 DEF DownloadPack
<1>4. CASE PacksDone
  <2>1. manifest' \in [Languages -> 0 .. MaxPacks]
    BY <1>4, LocalizationAssumption DEF PacksDone, Return, Goto
  <2> QED
    BY <1>4, <2>1, EmptySnapshot DEF PacksDone, Return, Goto
<1>5. CASE WriteTemporary
  BY <1>5 DEF WriteTemporary, Goto
<1>6. CASE RemoveCache
  BY <1>6, EmptySnapshot DEF RemoveCache, Goto
<1>7. CASE RenameCache
  <2>1. Snapshot \in Snapshots /\ Honest(Snapshot)
    BY MergeType, MergeSound DEF Snapshot
  <2> QED
    BY <1>7, <2>1 DEF RenameCache, Goto
<1>8. CASE Replace
  <2>1. Snapshot \in Snapshots /\ Honest(Snapshot) /\ Covers(Snapshot)
    BY MergeType, MergeSound DEF Snapshot
  <2>2. manifest' \in [Languages -> 0 .. MaxPacks]
    BY <1>8, LocalizationAssumption DEF Replace, Return
  <2> QED
    BY <1>8, <2>1, <2>2, EmptySnapshot DEF Replace, Return
<1>9. ASSUME NEW l \in Languages, Publish(l) PROVE (Typed /\ SoundInv)'
  <2>1. published' \in [Languages -> 0 .. MaxPacks]
    BY <1>9, LocalizationAssumption DEF Publish
  <2> QED
    BY <1>9, <2>1 DEF Publish
<1>10. ASSUME NEW l \in Languages, Withdraw(l) PROVE (Typed /\ SoundInv)'
  <2>1. published' \in [Languages -> 0 .. MaxPacks]
    BY <1>10, LocalizationAssumption DEF Withdraw
  <2>2. failures' \in Nat
    BY <1>10 DEF Withdraw
  <2> QED
    BY <1>10, <2>1, <2>2 DEF Withdraw
<1>11. ASSUME NEW l \in Languages, PackFails(l) PROVE (Typed /\ SoundInv)'
  <2>1. CASE l \in DOMAIN catalog
    <3>1. catalog[l] \in Entries
      BY <2>1, SnapshotType
    <3>2. Take(l, catalog[l])
      BY <1>11, <2>1 DEF PackFails
    <3>3. languages' \in Snapshots /\ Honest(languages') /\ todo' \subseteq Languages
      BY <2>1, <3>1, <3>2, TakeSound DEF Honest
    <3> QED
      BY <1>11, <3>3 DEF PackFails
  <2>2. CASE l \notin DOMAIN catalog
    BY <1>11, <2>2 DEF PackFails
  <2> QED
    BY <2>1, <2>2
<1>12. CASE OperationFails
  <2>1. manifest' \in [Languages -> 0 .. MaxPacks]
    BY <1>12, LocalizationAssumption DEF OperationFails, Return
  <2> QED
    BY <1>12, <2>1, EmptySnapshot DEF OperationFails, Return
<1>13. CASE Restart
  <2>1. Loaded \in Snapshots /\ Honest(Loaded) /\ Covers(Loaded)
    BY FallbackSound, MergeType, MergeSound DEF Loaded
  <2>2. manifest' \in [Languages -> 0 .. MaxPacks]
    BY <1>13, LocalizationAssumption DEF Restart, Return
  <2>3. Typed'
    <3>1. {catalog', cache', languages'} \subseteq Snapshots
      BY <1>13, <2>1, EmptySnapshot DEF Restart, Return
    <3>2. failures' = failures + 1 /\ refreshed' = FALSE /\ UNCHANGED published
      BY <1>13 DEF Restart
    <3>3. pc' = "sleep" /\ todo' = {}
      BY <1>13 DEF Restart, Return
    <3>4. failures' \in Nat
      BY <3>2
    <3> QED
      BY <2>2, <3>1, <3>2, <3>3, <3>4
  <2>4. SoundInv'
    <3>1. catalog' = Loaded /\ languages' = Empty /\ cache' = cache
      BY <1>13 DEF Restart, Return
    <3> QED
      BY <3>1, <2>1, EmptySnapshot
  <2> QED
    BY <2>3, <2>4
<1>14. CASE UNCHANGED vars
  BY <1>14 DEF vars, service, store, task
<1> QED
  BY <1>1, <1>2, <1>3, <1>4, <1>5, <1>6, <1>7, <1>8, <1>9, <1>10, <1>11, <1>12, <1>13,
     <1>14 DEF Next, Refresh

(* The file and the catalogue, step by step.                                *)
LEMMA CacheStep == Typed /\ SoundInv /\ CacheInv /\ [Next]_vars => CacheInv'
<1> SUFFICES ASSUME Typed, SoundInv, CacheInv, [Next]_vars PROVE CacheInv'
  OBVIOUS
<1> USE DEF CacheInv, Snapshot, Typed, SoundInv, service, store, task
<1>1. CASE DownloadManifest
  BY <1>1 DEF DownloadManifest
<1>2. ASSUME NEW l \in Languages, KeepLanguage(l) PROVE CacheInv'
  BY <1>2 DEF KeepLanguage
<1>3. ASSUME NEW l \in Languages, DownloadPack(l) PROVE CacheInv'
  BY <1>3 DEF DownloadPack
<1>4. CASE PacksDone
  BY <1>4 DEF PacksDone, Goto, Return
<1>5. CASE WriteTemporary
  BY <1>5 DEF WriteTemporary, Goto
<1>6. CASE RemoveCache
  BY <1>6 DEF RemoveCache, Goto
<1>7. CASE RenameCache
  BY <1>7 DEF RenameCache, Goto
<1>8. CASE Replace
  <2>1. languages # Empty /\ cache = Snapshot /\ languages \in Snapshots
    BY <1>8 DEF Replace
  <2>2. cache # Empty /\ MergeMissing(cache) = cache
    <3>1. DOMAIN languages # {}
      BY <2>1, EmptySnapshot
    <3>2. DOMAIN cache # {}
      BY <2>1, <3>1, MergeType DEF Snapshot
    <3> QED
      BY <2>1, <3>2, EmptySnapshot, MergeTwice DEF Snapshot
  <2>3. CASE Compiles(Snapshot)
    BY <1>8, <2>1, <2>2, <2>3 DEF Replace, Return, Compiles
  <2>4. CASE ~Compiles(Snapshot)
    BY <1>8, <2>1, <2>4 DEF Replace, Return, Compiles
  <2> QED
    BY <2>3, <2>4
<1>9. ASSUME NEW l \in Languages, Publish(l) PROVE CacheInv'
  BY <1>9 DEF Publish
<1>10. ASSUME NEW l \in Languages, Withdraw(l) PROVE CacheInv'
  BY <1>10 DEF Withdraw
<1>11. ASSUME NEW l \in Languages, PackFails(l) PROVE CacheInv'
  BY <1>11 DEF PackFails
<1>12. CASE OperationFails
  BY <1>12 DEF OperationFails, Return
<1>13. CASE Restart
  BY <1>13 DEF Restart, Return
<1>14. CASE UNCHANGED vars
  BY <1>14 DEF vars, service, store, task
<1> QED
  BY <1>1, <1>2, <1>3, <1>4, <1>5, <1>6, <1>7, <1>8, <1>9, <1>10, <1>11, <1>12, <1>13,
     <1>14 DEF Next, Refresh

LEMMA LocalizationInit == Init => LocalizationInv
<1> SUFFICES ASSUME Init PROVE LocalizationInv
  OBVIOUS
<1>1. published \in [Languages -> 0 .. MaxPacks] /\ manifest \in [Languages -> 0 .. MaxPacks]
  BY LocalizationAssumption DEF Init
<1>2. Typed
  BY <1>1, FallbackSound, EmptySnapshot DEF Init, Typed
<1>3. SoundInv /\ CacheInv
  BY FallbackSound, EmptySnapshot DEF Init, SoundInv, CacheInv
<1> QED
  BY <1>2, <1>3 DEF LocalizationInv

LEMMA LocalizationStep == LocalizationInv /\ [Next]_vars => LocalizationInv'
  BY SoundStep, CacheStep DEF LocalizationInv

LEMMA LocalizationInvariant == Spec => []LocalizationInv
  BY LocalizationInit, LocalizationStep, PTL DEF Spec

-----------------------------------------------------------------------------
(* The parts of the catalogue are what the steps use them for.              *)
THEOREM LocalizationTypes == Spec => []TypeOK
<1>1. LocalizationInv => TypeOK
  BY SnapshotType DEF LocalizationInv, Typed, TypeOK
<1> QED
  BY <1>1, LocalizationInvariant, PTL

(* No bundled wording is ever lost, and no entry that was merged or kept is *)
(* taken for the pack it is not: for any languages, packs and failures.     *)
THEOREM LocalizationSound == Spec => []CatalogIsSound
<1>1. LocalizationInv => CatalogIsSound
  BY DEF LocalizationInv, SoundInv, CatalogIsSound, BundledCovered, Covers, CompleteIsPack
<1> QED
  BY <1>1, LocalizationInvariant, PTL

(* After a refresh a restart finds the catalogue in use in the file, unless *)
(* the file is being replaced, is lost to a failure, or does not compile.   *)
THEOREM LocalizationRestart == Spec => []RestartFindsCatalog
<1>1. LocalizationInv => RestartFindsCatalog
  BY DEF LocalizationInv, CacheInv, RestartFindsCatalog, Loaded
<1> QED
  BY <1>1, LocalizationInvariant, PTL

-----------------------------------------------------------------------------
(* Drops.                                                                   *)

(* Every key is listed, at one place.                                       *)
LEMMA EachListedOnce ==
  ASSUME NEW listed \in SetToSeqs(ItemKeys)
  PROVE  /\ IsFiniteSet(DOMAIN listed) /\ DOMAIN listed \subseteq Nat
         /\ \A i \in DOMAIN listed : listed[i] \in ItemKeys
         /\ \A i, j \in DOMAIN listed : listed[i] = listed[j] => i = j
         /\ \A key \in ItemKeys : \E i \in DOMAIN listed : listed[i] = key
<1> DEFINE D == 1 .. Cardinality(ItemKeys)
<1>1. IsFiniteSet(ItemKeys) /\ Cardinality(ItemKeys) \in Nat
  BY ItemAssumption, FS_CardinalityType
<1>2. IsFiniteSet(D) /\ Cardinality(D) = Cardinality(ItemKeys)
  BY <1>1, FS_Interval
<1>3. listed \in [D -> ItemKeys] /\ \A i, j \in D : i # j => listed[i] # listed[j]
  BY DEF SetToSeqs
<1> HIDE DEF D
<1>4. listed \in Injection(D, ItemKeys)
  BY <1>3 DEF Injection, IsInjective
<1>5. listed \in Surjection(D, ItemKeys)
  BY <1>1, <1>2, <1>4, FS_Injection
<1>6. DOMAIN listed = D /\ D \subseteq Nat
  BY <1>3 DEF D
<1> QED
  BY <1>2, <1>3, <1>5, <1>6 DEF Surjection

(* A name and a type are given the key they stand for, or none.             *)
LEMMA ResolvesMeant ==
  ASSUME NEW language \in AskedLanguages, NEW name, NEW type
  PROVE  LET key == ResolveItemKey(language.names, language.listed, name, type)
         IN  /\ key \in ItemKeys \union {"none"}
             /\ \A k \in ItemKeys : key = k <=> Meant(language, name, type) = {k}
<1> DEFINE listed == language.listed
           names == language.names
           matching == Matching(names, listed, name, type)
           meant == Meant(language, name, type)
           key == ResolveItemKey(names, listed, name, type)
<1>1. listed \in SetToSeqs(ItemKeys)
  BY DEF AskedLanguages
<1>2. /\ IsFiniteSet(DOMAIN listed) /\ DOMAIN listed \subseteq Nat
      /\ \A i \in DOMAIN listed : listed[i] \in ItemKeys
      /\ \A i, j \in DOMAIN listed : listed[i] = listed[j] => i = j
      /\ \A k \in ItemKeys : \E i \in DOMAIN listed : listed[i] = k
  BY <1>1, EachListedOnce
<1>3. matching \subseteq DOMAIN listed /\ \A i \in DOMAIN listed : i \in matching <=> listed[i] \in meant
  BY <1>2 DEF Matching, KeysByName, Meant
<1>4. meant \subseteq ItemKeys
  BY DEF Meant
<1>5. IsFiniteSet(matching)
  BY <1>2, <1>3, FS_Subset
<1>6. key = IF Cardinality(matching) = 1 THEN listed[FirstOf(matching)] ELSE "none"
  BY DEF ResolveItemKey
<1> HIDE DEF listed, names, matching, meant, key
<1>7. Cardinality(matching) = 1 <=> \E i : matching = {i}
  BY <1>5, FS_Singleton
<1>8. ASSUME NEW i \in DOMAIN listed, matching = {i}
      PROVE  key = listed[i] /\ meant = {listed[i]}
  <2>1. FirstOf({i}) = i
    BY <1>2, <1>8 DEF FirstOf
  <2>2. key = listed[i]
    BY <1>6, <1>7, <1>8, <2>1
  <2>3. meant = {listed[i]}
    BY <1>2, <1>3, <1>4, <1>8
  <2> QED
    BY <2>2, <2>3
<1>9. ASSUME NEW k \in ItemKeys, meant = {k}
      PROVE  \E i \in DOMAIN listed : listed[i] = k /\ matching = {i}
  <2>1. PICK i \in DOMAIN listed : listed[i] = k
    BY <1>2
  <2>2. matching = {i}
    BY <1>2, <1>3, <1>9, <2>1
  <2> QED
    BY <2>1, <2>2
<1>10. CASE \E i : matching = {i}
  <2>1. PICK i \in DOMAIN listed : matching = {i}
    BY <1>3, <1>10
  <2>2. key = listed[i] /\ meant = {listed[i]} /\ listed[i] \in ItemKeys
    BY <1>2, <1>8, <2>1
  <2> QED
    BY <2>2 DEF key, meant, names, listed
<1>11. CASE ~ \E i : matching = {i}
  <2>1. key = "none" /\ \A k \in ItemKeys : meant # {k}
    BY <1>6, <1>7, <1>9, <1>11
  <2> QED
    BY <2>1, ItemAssumption DEF key, meant, names, listed
<1> QED
  BY <1>10, <1>11

(* A language that knows the rarity answers with the item that is meant, or *)
(* with the name as it stands.                                              *)
LEMMA LanguageAnswers ==
  ASSUME NEW language \in AskedLanguages, NEW name, NEW type
  PROVE  LET key == ResolveItemKey(language.names, language.listed, name, type)
         IN  /\ (key \in language.styled \/ language.labelled) <=> KnowsRarity(language, name, type)
             /\ (IF key \in DOMAIN Canonical THEN Canonical[key] ELSE name) =
                  NameOf(language, name, type)
<1> DEFINE key == ResolveItemKey(language.names, language.listed, name, type)
           meant == Meant(language, name, type)
<1>1. /\ key \in ItemKeys \union {"none"}
      /\ \A k \in ItemKeys : key = k <=> meant = {k}
  BY ResolvesMeant
<1>2. language.styled \subseteq ItemKeys
  BY DEF AskedLanguages
<1>3. /\ KnowsRarity(language, name, type) <=>
           language.labelled \/ \E k \in language.styled : meant = {k}
      /\ NameOf(language, name, type) =
           IF \E k \in ItemKeys \ Nameless : meant = {k}
           THEN CHOOSE k \in ItemKeys : meant = {k}
           ELSE name
  BY DEF KnowsRarity, NameOf
<1> HIDE DEF key, meant
<1>4. (key \in language.styled \/ language.labelled) <=> KnowsRarity(language, name, type)
  BY <1>1, <1>2, <1>3
<1>5. DOMAIN Canonical = ItemKeys \ Nameless /\ \A k \in ItemKeys \ Nameless : Canonical[k] = k
  BY DEF Canonical
<1>6. CASE key \in ItemKeys \ Nameless
  <2>1. meant = {key} /\ \A k \in ItemKeys : meant = {k} => k = key
    BY <1>1, <1>6
  <2>2. (CHOOSE k \in ItemKeys : meant = {k}) = key
    BY <1>6, <2>1
  <2> QED
    BY <1>3, <1>4, <1>5, <1>6, <2>1, <2>2 DEF key
<1>7. CASE key \notin ItemKeys \ Nameless
  <2>1. ~ \E k \in ItemKeys \ Nameless : meant = {k}
    BY <1>1, <1>7
  <2> QED
    BY <1>3, <1>4, <1>5, <1>7, <2>1 DEF key
<1> QED
  BY <1>6, <1>7

(* Of two languages the first that knows the rarity is taken.               *)
LEMMA DropsAreMeant == DropTable
<1> SUFFICES ASSUME NEW first \in AskedLanguages, NEW second \in AskedLanguages,
                    NEW name \in ItemNames, NEW type \in ItemTypes
             PROVE  ParseDrop(<<first, second>>, Canonical, name, type) =
                      IF KnowsRarity(first, name, type) THEN NameOf(first, name, type)
                      ELSE IF KnowsRarity(second, name, type) THEN NameOf(second, name, type)
                      ELSE "none"
  BY DEF DropTable
<1> DEFINE asked == <<first, second>>
           key(i) == ResolveItemKey(asked[i].names, asked[i].listed, name, type)
           answers == {i \in DOMAIN asked : key(i) \in asked[i].styled \/ asked[i].labelled}
           named(i) == IF key(i) \in DOMAIN Canonical THEN Canonical[key(i)] ELSE name
<1>1. ParseDrop(asked, Canonical, name, type) =
        IF answers = {} THEN "none" ELSE named(FirstOf(answers))
  BY DEF ParseDrop
<1>2. DOMAIN asked = {1, 2} /\ asked[1] = first /\ asked[2] = second
  OBVIOUS
<1>3. /\ 1 \in answers <=> KnowsRarity(first, name, type)
      /\ named(1) = NameOf(first, name, type)
  BY <1>2, LanguageAnswers
<1>4. /\ 2 \in answers <=> KnowsRarity(second, name, type)
      /\ named(2) = NameOf(second, name, type)
  BY <1>2, LanguageAnswers
<1>5. answers \subseteq {1, 2}
  BY <1>2
<1> HIDE DEF answers, named, key, asked
<1>6. /\ 1 \in answers => FirstOf(answers) = 1
      /\ 1 \notin answers /\ 2 \in answers => FirstOf(answers) = 2
  <2>1. ASSUME 1 \in answers PROVE FirstOf(answers) = 1
    <3>1. \A j \in answers : 1 <= j
      BY <1>5
    <3>2. \A i \in answers : (\A j \in answers : i <= j) => i = 1
      BY <1>5, <2>1
    <3> QED
      BY <2>1, <3>1, <3>2 DEF FirstOf
  <2>2. 1 \notin answers /\ 2 \in answers => answers = {2}
    BY <1>5
  <2>3. FirstOf({2}) = 2
    BY DEF FirstOf
  <2> QED
    BY <2>1, <2>2, <2>3
<1>7. answers = {} \/ 1 \in answers \/ (1 \notin answers /\ 2 \in answers)
  BY <1>5
<1> QED
  BY <1>1, <1>3, <1>4, <1>6, <1>7 DEF asked

(* A drop is attributed to the item its name and type stand for, in         *)
(* whatever order the languages list their names: for any items, names,     *)
(* types and Russian names.                                                 *)
THEOREM LocalizationDropUnambiguous == Spec => []DropIsUnambiguous
<1>1. DropIsUnambiguous
  BY DropsAreMeant DEF DropIsUnambiguous
<1> QED
  BY <1>1, PTL
=============================================================================
