----------------------------- MODULE InputProofs ----------------------------
(***************************************************************************)
(* Proofs about what enters the system from outside, for every value of    *)
(* the constants.  A load admits a bundle whole or not at all, whatever    *)
(* changes under the loader.  The daemon runs the plugins its strongest    *)
(* source names, all of them or none, and the log the command line finds   *)
(* without -plugin-id is the log of one of them, whatever earlier daemons  *)
(* left.  A provider's diagnostic is shown without unsafe material, and    *)
(* whole when ProviderEvent accepted it.                                   *)
(***************************************************************************)
EXTENDS BundleLoader, ProviderEvents, DaemonConfig, SequenceTheorems, FiniteSetTheorems, TLAPS

ErrorCodes ==
    {"", "malformed_load_identity", "stale_generation", "missing_bundle_root",
     "invalid_manifest_path", "missing_manifest", "unreadable_manifest",
     "malformed_manifest_identity", "invalid_lua_asset_path", "missing_lua_asset",
     "unreadable_lua_asset"}
Statuses == {"", "valid", "unavailable", "invalid"}
AssetType == [Path : Texts, Digest : SUBSET LuaType]
MetadataType ==
    [PluginID : {"p", "q", "malformed"}, PluginGeneration : Nat,
     BundleRootPath : Texts, ManifestPath : Texts,
     ManifestDigest : SUBSET ManifestType, SchemaVersion : Schemas, Stamped : BOOLEAN,
     LuaAssets : Seq(AssetType),
     ValidationStatus : Statuses, RedactedErrorCode : ErrorCodes]

LoaderTypeOK ==
    /\ opts \in OptionType
    /\ isDir \in BOOLEAN
    /\ manifest \in ManifestType
    /\ lua \in [LuaFiles -> LuaType]
    /\ edits \in Nat
    /\ at \in {"begin", "root", "manifest", "identity", "assets", "done"}
    /\ bytes \in ManifestType
    /\ md \in MetadataType

\* What the load took over from its options and never changes.
Kept ==
    /\ md.PluginID = opts.id
    /\ md.PluginGeneration = opts.gen
    /\ md.Stamped = opts.stamped

\* What the checks passed so far have established.
IdentityPassed ==
    validateLoadIdentity(opts) /\ opts.expected \in {0, opts.gen}
RootPassed ==
    /\ IdentityPassed /\ opts.root # "blank" /\ isDir /\ resolveManifestPath(opts)
    /\ md.BundleRootPath # "blank" /\ md.ManifestPath # "blank"
ManifestPassed == RootPassed /\ bytes.is = "file" /\ md.ManifestDigest = {bytes}
ManifestAccepted ==
    ManifestPassed /\ ~BadIdentity(bytes, opts) /\ md.SchemaVersion = bytes.schema
AssetsPassed ==
    /\ Len(md.LuaAssets) <= Len(opts.assets)
    /\ \A i \in 1..Len(md.LuaAssets) :
           /\ resolveBundlePath(opts.assets[i].path)
           /\ md.LuaAssets[i].Path # "blank" /\ md.LuaAssets[i].Digest # {}

\* A load that gave up kept too little to be taken for a complete one.
Incomplete ==
    \/ md.ManifestDigest = {} \/ md.SchemaVersion = ""
    \/ \E i \in 1..Len(md.LuaAssets) : md.LuaAssets[i].Digest = {}

Progress ==
    /\ at \in {"begin", "root", "manifest"} => md.ManifestDigest = {}
    /\ at \in {"begin", "root", "manifest", "identity"} =>
           md.SchemaVersion = "" /\ md.LuaAssets = <<>>
    /\ at = "root" => IdentityPassed
    /\ at = "manifest" => RootPassed
    /\ at = "identity" => ManifestPassed
    /\ at = "assets" => ManifestAccepted /\ AssetsPassed
    /\ at = "done" /\ md.ValidationStatus = "valid" =>
           ManifestAccepted /\ AssetsPassed /\ Len(md.LuaAssets) = Len(opts.assets)
    /\ at = "done" /\ md.ValidationStatus # "valid" => Incomplete
    /\ at = "done" => md.ValidationStatus # ""
    /\ md.SchemaVersion # "" => ManifestAccepted

\* While no file has changed, what was read is what is there.
Read ==
    \A i \in 1..Len(md.LuaAssets) :
        /\ lua[opts.assets[i].file].is = "file"
        /\ md.LuaAssets[i].Digest = {lua[opts.assets[i].file]}
Fresh ==
    edits = 0 =>
        /\ at \in {"identity", "assets"} => bytes = manifest
        /\ at = "assets" => Read
        /\ at = "done" /\ md.ValidationStatus = "valid" => bytes = manifest /\ Read
        /\ at = "done" /\ md.ValidationStatus # "valid" =>
               ~(isDir /\ Admissible(opts, manifest, lua))

LoaderInv == LoaderTypeOK /\ Kept /\ Progress /\ Fresh

-----------------------------------------------------------------------------
\* The initial metadata holds the options and nothing else.
LEMMA LoaderInitInv == LoaderInit => LoaderInv
<1> SUFFICES ASSUME LoaderInit PROVE LoaderInv
    OBVIOUS
<1> USE BundleConstants DEF LoaderInit
<1>1. opts \in OptionType
    OBVIOUS
<1>2. manifest \in ManifestType /\ lua \in [LuaFiles -> LuaType]
    OBVIOUS
<1>3. bytes \in ManifestType
    BY DEF NoManifest, ManifestType
<1>4. md \in MetadataType
  <2>1. opts.id \in {"p", "q", "malformed"} /\ opts.gen \in Nat
        /\ opts.root \in Texts /\ opts.stamped \in BOOLEAN
    BY <1>1 DEF OptionType
  <2>2. <<>> \in Seq(AssetType)
    BY EmptySeq
  <2>3. "blank" \in Texts /\ "" \in Statuses /\ "" \in ErrorCodes
    BY DEF Texts, Statuses, ErrorCodes
  <2> QED
    BY <2>1, <2>2, <2>3 DEF MetadataType
<1>5. LoaderTypeOK
    BY <1>1, <1>2, <1>3, <1>4 DEF LoaderTypeOK
<1>6. Kept /\ Progress /\ Fresh
    BY DEF Kept, Progress, Fresh
<1> QED
    BY <1>5, <1>6 DEF LoaderInv

\* failMetadata sets the status and the error code, and nothing else.
LEMMA FailEffect ==
    ASSUME NEW m \in MetadataType, NEW status \in {"unavailable", "invalid"},
           NEW code \in ErrorCodes
    PROVE  /\ failMetadata(m, status, code) \in MetadataType
           /\ failMetadata(m, status, code).PluginID = m.PluginID
           /\ failMetadata(m, status, code).PluginGeneration = m.PluginGeneration
           /\ failMetadata(m, status, code).Stamped = m.Stamped
           /\ failMetadata(m, status, code).ManifestDigest = m.ManifestDigest
           /\ failMetadata(m, status, code).BundleRootPath = m.BundleRootPath
           /\ failMetadata(m, status, code).ManifestPath = m.ManifestPath
           /\ failMetadata(m, status, code).SchemaVersion = m.SchemaVersion
           /\ failMetadata(m, status, code).LuaAssets = m.LuaAssets
           /\ failMetadata(m, status, code).ValidationStatus = status
    BY DEF failMetadata, MetadataType, Statuses

\* A path that is written down is of one of the classes of Texts.
LEMMA PathTexts ==
    ASSUME opts \in OptionType
    PROVE  /\ inertManifestPath(opts) \in Texts
           /\ ResolvedRoot(opts) \in Texts
           /\ opts.root # "blank" => ResolvedRoot(opts) # "blank"
    BY DEF OptionType, inertManifestPath, ResolvedRoot, Text, Texts, Declared

\* A load may give up with metadata m when m is incomplete and no bundle that had
\* to be admitted is lost.
LEMMA FailInv ==
    ASSUME LoaderInv, UNCHANGED <<opts, isDir, manifest, lua, edits>>,
           NEW m \in MetadataType,
           m.PluginID = md.PluginID, m.PluginGeneration = md.PluginGeneration,
           m.Stamped = md.Stamped, m.ManifestDigest = md.ManifestDigest,
           m.SchemaVersion = md.SchemaVersion,
           m.SchemaVersion # "" =>
               m.BundleRootPath = md.BundleRootPath /\ m.ManifestPath = md.ManifestPath,
           m.SchemaVersion = "" \/ \E i \in 1..Len(m.LuaAssets) : m.LuaAssets[i].Digest = {},
           edits = 0 => ~(isDir /\ Admissible(opts, manifest, lua)),
           NEW status \in {"unavailable", "invalid"}, NEW code \in ErrorCodes,
           LoadFails(m, status, code)
    PROVE  LoaderInv'
<1>1. /\ md' \in MetadataType
      /\ md'.PluginID = md.PluginID /\ md'.PluginGeneration = md.PluginGeneration
      /\ md'.Stamped = md.Stamped /\ md'.ManifestDigest = md.ManifestDigest
      /\ md'.SchemaVersion = md.SchemaVersion /\ md'.ValidationStatus = status
      /\ md'.BundleRootPath = m.BundleRootPath /\ md'.ManifestPath = m.ManifestPath
      /\ md'.LuaAssets = m.LuaAssets /\ at' = "done" /\ bytes' = bytes
  <2> DEFINE f == failMetadata(m, status, code)
  <2>1. md' = f /\ at' = "done" /\ bytes' = bytes
    BY DEF LoadFails
  <2>0. m \in MetadataType /\ status \in {"unavailable", "invalid"} /\ code \in ErrorCodes
    OBVIOUS
  <2>2. /\ f \in MetadataType /\ f.ValidationStatus = status
        /\ f.PluginID = m.PluginID /\ f.PluginGeneration = m.PluginGeneration
        /\ f.Stamped = m.Stamped /\ f.ManifestDigest = m.ManifestDigest
        /\ f.BundleRootPath = m.BundleRootPath /\ f.ManifestPath = m.ManifestPath
        /\ f.SchemaVersion = m.SchemaVersion /\ f.LuaAssets = m.LuaAssets
    BY ONLY <2>0, FailEffect
  <2> QED
    BY <2>1, <2>2
<1>2. LoaderTypeOK' /\ Kept'
    BY <1>1, Zenon DEF LoaderInv, LoaderTypeOK, Kept
<1>3. md'.SchemaVersion # "" => ManifestAccepted'
    BY <1>1 DEF LoaderInv, Progress, ManifestAccepted, ManifestPassed, RootPassed,
                IdentityPassed, validateLoadIdentity, resolveManifestPath,
                resolveBundlePath, BadIdentity
<1>4. Incomplete'
    BY <1>1 DEF Incomplete
<1>5. Progress'
    BY <1>1, <1>3, <1>4 DEF Progress
<1>6. Fresh'
  <2>1. edits' = 0 => ~(isDir' /\ Admissible(opts, manifest, lua)')
    BY Zenon DEF Admissible
  <2> QED
    BY ONLY <1>1, <2>1, Zenon DEF Fresh
<1> QED
    BY <1>2, <1>5, <1>6, Zenon DEF LoaderInv

\* The manifest path of a load that read nothing.
LEMMA InertEffect ==
    ASSUME LoaderTypeOK
    PROVE  LET m == [md EXCEPT !.ManifestPath = inertManifestPath(opts)] IN
           /\ m \in MetadataType
           /\ m.PluginID = md.PluginID /\ m.PluginGeneration = md.PluginGeneration
           /\ m.Stamped = md.Stamped /\ m.ManifestDigest = md.ManifestDigest
           /\ m.SchemaVersion = md.SchemaVersion
    BY PathTexts DEF LoaderTypeOK, MetadataType

\* The checks of the options preserve the invariant: nothing has been read.
LEMMA BeginInv == LoaderInv /\ LoadBegin => LoaderInv'
<1> SUFFICES ASSUME LoaderInv, LoadBegin PROVE LoaderInv'
    OBVIOUS
<1> DEFINE inert == [md EXCEPT !.ManifestPath = inertManifestPath(opts)]
<1>0. /\ LoaderTypeOK /\ Kept /\ at = "begin" /\ md.ManifestDigest = {}
      /\ md.SchemaVersion = "" /\ md.LuaAssets = <<>>
      /\ UNCHANGED <<opts, isDir, manifest, lua, edits>>
    BY DEF LoaderInv, Progress, LoadBegin, bundleFiles
<1>1. ASSUME NEW code \in {"malformed_load_identity", "stale_generation"},
             ~IdentityPassed, LoadFails(inert, "invalid", code)
      PROVE  LoaderInv'
  <2>1. code \in ErrorCodes
    BY DEF ErrorCodes
  <2>2. ~Admissible(opts, manifest, lua)
    BY <1>1, Zenon DEF IdentityPassed, validateLoadIdentity, Admissible
  <2> QED
    BY <1>0, <1>1, <2>1, <2>2, InertEffect, FailInv, Zenon
<1>2. ASSUME IdentityPassed, at' = "root", UNCHANGED <<bytes, md>>
      PROVE  LoaderInv'
    BY <1>0, <1>2
    DEF LoaderInv, LoaderTypeOK, Kept, Progress, Fresh, IdentityPassed, validateLoadIdentity
<1>3. opts.expected \in Nat
    BY <1>0 DEF LoaderTypeOK, OptionType
<1> QED
    BY <1>1, <1>2, <1>3 DEF LoadBegin, IdentityPassed

\* So does resolving the root and the manifest's path.
LEMMA RootInv == LoaderInv /\ LoadRoot => LoaderInv'
<1> SUFFICES ASSUME LoaderInv, LoadRoot PROVE LoaderInv'
    OBVIOUS
<1> DEFINE inert == [md EXCEPT !.ManifestPath = inertManifestPath(opts)]
           rooted == [md EXCEPT !.BundleRootPath = ResolvedRoot(opts)]
<1>0. /\ LoaderTypeOK /\ Kept /\ at = "root" /\ md.ManifestDigest = {}
      /\ md.SchemaVersion = "" /\ md.LuaAssets = <<>> /\ IdentityPassed
      /\ UNCHANGED <<opts, isDir, manifest, lua, edits>>
    BY DEF LoaderInv, Progress, LoadRoot, bundleFiles
<1>1. CASE /\ opts.root = "blank" \/ ~isDir
           /\ LoadFails(inert, "unavailable", "missing_bundle_root")
  <2>1. ~(isDir /\ Admissible(opts, manifest, lua))
    BY <1>1 DEF Admissible
  <2>2. "missing_bundle_root" \in ErrorCodes
    BY DEF ErrorCodes
  <2> QED
    BY <1>0, <1>1, <2>1, <2>2, InertEffect, FailInv, Zenon
<1>2. CASE /\ ~resolveManifestPath(opts)
           /\ LoadFails([inert EXCEPT !.BundleRootPath = ResolvedRoot(opts)],
                        "invalid", "invalid_manifest_path")
  <2>1. ~(isDir /\ Admissible(opts, manifest, lua))
    BY <1>2 DEF Admissible, resolveManifestPath, resolveBundlePath
  <2>2. "invalid_manifest_path" \in ErrorCodes
    BY DEF ErrorCodes
  <2>3. LET m == [inert EXCEPT !.BundleRootPath = ResolvedRoot(opts)] IN
        /\ m \in MetadataType
        /\ m.PluginID = md.PluginID /\ m.PluginGeneration = md.PluginGeneration
        /\ m.Stamped = md.Stamped /\ m.ManifestDigest = md.ManifestDigest
        /\ m.SchemaVersion = md.SchemaVersion
    BY <1>0, PathTexts, Zenon DEF LoaderTypeOK, MetadataType
  <2> QED
    BY <1>0, <1>2, <2>1, <2>2, <2>3, FailInv, Zenon
<1>3. CASE /\ opts.root # "blank" /\ isDir /\ resolveManifestPath(opts)
           /\ md' = [rooted EXCEPT !.ManifestPath = ResolvedRoot(opts)]
           /\ at' = "manifest" /\ UNCHANGED bytes
  <2>1. /\ md' \in MetadataType
        /\ md'.PluginID = md.PluginID /\ md'.PluginGeneration = md.PluginGeneration
        /\ md'.Stamped = md.Stamped /\ md'.ManifestDigest = {}
        /\ md'.SchemaVersion = "" /\ md'.LuaAssets = <<>>
        /\ md'.BundleRootPath # "blank" /\ md'.ManifestPath # "blank"
    BY <1>0, <1>3, PathTexts, Zenon DEF LoaderTypeOK, MetadataType
  <2>2. RootPassed'
    BY <1>0, <1>3, <2>1, Zenon DEF RootPassed, IdentityPassed, validateLoadIdentity,
                            resolveManifestPath, resolveBundlePath
  <2> QED
    BY <1>0, <1>3, <2>1, <2>2, Zenon DEF LoaderInv, LoaderTypeOK, Kept, Progress, Fresh
<1> QED
    BY <1>1, <1>2, <1>3, Zenon DEF LoadRoot

\* The manifest that is digested is the one that is kept for the parser.
LEMMA ManifestInv == LoaderInv /\ LoadManifest => LoaderInv'
<1> SUFFICES ASSUME LoaderInv, LoadManifest PROVE LoaderInv'
    OBVIOUS
<1>0. /\ LoaderTypeOK /\ Kept /\ at = "manifest" /\ md.ManifestDigest = {}
      /\ md.SchemaVersion = "" /\ md.LuaAssets = <<>> /\ RootPassed
      /\ UNCHANGED <<opts, isDir, manifest, lua, edits>>
    BY Zenon DEF LoaderInv, Progress, LoadManifest, bundleFiles
<1>1. ASSUME manifest.is # "file", NEW code \in {"missing_manifest", "unreadable_manifest"},
             LoadFails(md, "unavailable", code)
      PROVE  LoaderInv'
  <2>1. ~(isDir /\ Admissible(opts, manifest, lua))
    BY <1>1 DEF Admissible
  <2>2. code \in ErrorCodes
    BY DEF ErrorCodes
  <2>3. md \in MetadataType
    BY <1>0, Zenon DEF LoaderTypeOK
  <2> QED
    BY <1>0, <1>1, <2>1, <2>2, <2>3, FailInv, Zenon
<1>2. CASE /\ manifest.is = "file" /\ md' = [md EXCEPT !.ManifestDigest = {manifest}]
           /\ bytes' = manifest /\ at' = "identity"
  <2>1. /\ md' \in MetadataType
        /\ md'.PluginID = md.PluginID /\ md'.PluginGeneration = md.PluginGeneration
        /\ md'.Stamped = md.Stamped /\ md'.ManifestDigest = {manifest}
        /\ md'.SchemaVersion = "" /\ md'.LuaAssets = <<>>
        /\ md'.BundleRootPath = md.BundleRootPath /\ md'.ManifestPath = md.ManifestPath
    BY <1>0, <1>2, Zenon DEF LoaderTypeOK, MetadataType
  <2>2. ManifestPassed'
    BY <1>0, <1>2, <2>1, Zenon DEF ManifestPassed, RootPassed, IdentityPassed,
                            validateLoadIdentity, resolveManifestPath, resolveBundlePath
  <2> QED
    BY <1>0, <1>2, <2>1, <2>2, Zenon DEF LoaderInv, LoaderTypeOK, Kept, Progress, Fresh
<1> QED
    BY <1>1, <1>2, Zenon DEF LoadManifest

\* Parsing the kept bytes, whatever lies at the manifest path by now.
LEMMA IdentityInv == LoaderInv /\ LoadIdentity => LoaderInv'
<1> SUFFICES ASSUME LoaderInv, LoadIdentity PROVE LoaderInv'
    OBVIOUS
<1>0. /\ LoaderTypeOK /\ Kept /\ at = "identity"
      /\ md.SchemaVersion = "" /\ md.LuaAssets = <<>> /\ ManifestPassed
      /\ edits = 0 => bytes = manifest
      /\ UNCHANGED <<opts, isDir, manifest, lua, edits>>
    BY Zenon DEF LoaderInv, Progress, Fresh, LoadIdentity, bundleFiles
<1>1. CASE /\ BadIdentity(bytes, opts)
           /\ LoadFails(md, "invalid", "malformed_manifest_identity")
  <2>1. edits = 0 => ~Admissible(opts, manifest, lua)
    BY <1>0, <1>1, Zenon DEF Admissible, BadIdentity
  <2>2. "malformed_manifest_identity" \in ErrorCodes /\ md \in MetadataType
    BY <1>0, Zenon DEF ErrorCodes, LoaderTypeOK
  <2> QED
    BY <1>0, <1>1, <2>1, <2>2, FailInv, Zenon
<1>2. CASE /\ ~BadIdentity(bytes, opts) /\ md' = [md EXCEPT !.SchemaVersion = bytes.schema]
           /\ at' = "assets" /\ UNCHANGED bytes
  <2>1. /\ md' \in MetadataType
        /\ md'.PluginID = md.PluginID /\ md'.PluginGeneration = md.PluginGeneration
        /\ md'.Stamped = md.Stamped /\ md'.ManifestDigest = md.ManifestDigest
        /\ md'.SchemaVersion = bytes.schema /\ md'.LuaAssets = <<>>
        /\ md'.BundleRootPath = md.BundleRootPath /\ md'.ManifestPath = md.ManifestPath
    BY <1>0, <1>2, Zenon DEF LoaderTypeOK, MetadataType, ManifestType
  <2>2. ManifestAccepted'
    BY <1>0, <1>2, <2>1, Zenon DEF ManifestAccepted, ManifestPassed, RootPassed, IdentityPassed,
           validateLoadIdentity, resolveManifestPath, resolveBundlePath, BadIdentity
  <2>3. AssetsPassed' /\ Read'
    <3>1. Len(md'.LuaAssets) = 0 /\ Len(opts'.assets) \in Nat
      <4>1. opts'.assets \in Seq([path : Declared, file : LuaFiles])
        BY <1>0 DEF LoaderTypeOK, OptionType
      <4> QED
        BY <2>1, <4>1, EmptySeq, LenProperties, Zenon
    <3> QED
      BY <3>1 DEF AssetsPassed, Read
  <2> QED
    BY <1>0, <1>2, <2>1, <2>2, <2>3, Zenon DEF LoaderInv, LoaderTypeOK, Kept, Progress, Fresh
<1> QED
    BY <1>1, <1>2 DEF LoadIdentity

\* One asset more, or an asset without a digest.
LEMMA AssetEffect ==
    ASSUME LoaderTypeOK, NEW path \in Texts, NEW digest \in SUBSET LuaType
    PROVE  LET asset == [Path |-> path, Digest |-> digest]
               m == [md EXCEPT !.LuaAssets = Append(@, asset)]
               n == Len(md.LuaAssets)
           IN  /\ m \in MetadataType
               /\ m.PluginID = md.PluginID /\ m.PluginGeneration = md.PluginGeneration
               /\ m.Stamped = md.Stamped /\ m.ManifestDigest = md.ManifestDigest
               /\ m.SchemaVersion = md.SchemaVersion
               /\ m.BundleRootPath = md.BundleRootPath /\ m.ManifestPath = md.ManifestPath
               /\ n \in Nat /\ Len(m.LuaAssets) = n + 1
               /\ \A i \in 1..n : m.LuaAssets[i] = md.LuaAssets[i]
               /\ m.LuaAssets[n + 1] = asset
<1> DEFINE asset == [Path |-> path, Digest |-> digest]
           grown == Append(md.LuaAssets, asset)
<1>1. asset \in AssetType
    BY DEF AssetType
<1>2. md \in MetadataType /\ md.LuaAssets \in Seq(AssetType)
    BY DEF LoaderTypeOK, MetadataType
<1>3. /\ grown \in Seq(AssetType)
      /\ Len(md.LuaAssets) \in Nat /\ Len(grown) = Len(md.LuaAssets) + 1
      /\ \A i \in 1..Len(md.LuaAssets) : grown[i] = md.LuaAssets[i]
      /\ grown[Len(md.LuaAssets) + 1] = asset
    BY <1>1, <1>2, AppendProperties, LenProperties
<1> HIDE DEF grown
<1>4. LET m == [md EXCEPT !.LuaAssets = grown] IN
      /\ m \in MetadataType
      /\ m.PluginID = md.PluginID /\ m.PluginGeneration = md.PluginGeneration
      /\ m.Stamped = md.Stamped /\ m.ManifestDigest = md.ManifestDigest
      /\ m.SchemaVersion = md.SchemaVersion
      /\ m.BundleRootPath = md.BundleRootPath /\ m.ManifestPath = md.ManifestPath
      /\ m.LuaAssets = grown
    BY <1>2, <1>3, Zenon DEF MetadataType
<1> QED
    BY <1>3, <1>4 DEF grown

\* Where the loop over the assets is: at an asset of the options that has no digest yet.
LEMMA AssetAt ==
    ASSUME LoaderInv, LoadAsset
    PROVE  /\ LoaderTypeOK /\ Kept /\ at = "assets" /\ ManifestAccepted /\ AssetsPassed
           /\ edits = 0 => bytes = manifest /\ Read
           /\ UNCHANGED <<opts, isDir, manifest, lua, edits>>
           /\ Len(md.LuaAssets) \in Nat /\ Len(md.LuaAssets) + 1 \in DOMAIN opts.assets
           /\ Len(md.LuaAssets) + 1 <= Len(opts.assets)
           /\ opts.assets[Len(md.LuaAssets) + 1] \in [path : Declared, file : LuaFiles]
<1>1. /\ LoaderTypeOK /\ Kept /\ at = "assets" /\ Len(md.LuaAssets) < Len(opts.assets)
      /\ UNCHANGED <<opts, isDir, manifest, lua, edits>>
    BY Zenon DEF LoaderInv, LoadAsset, bundleFiles
<1>2. Progress /\ Fresh
    BY Zenon DEF LoaderInv
<1>3. ManifestAccepted /\ AssetsPassed
    BY <1>1, <1>2, Zenon DEF Progress
<1>4. edits = 0 => bytes = manifest /\ Read
    BY ONLY <1>1, <1>2, Zenon DEF Fresh
<1>5. opts.assets \in Seq([path : Declared, file : LuaFiles])
    BY ONLY <1>1 DEF LoaderTypeOK, OptionType
<1>6. md.LuaAssets \in Seq(AssetType)
    BY ONLY <1>1 DEF LoaderTypeOK, MetadataType
<1>7. Len(md.LuaAssets) \in Nat
    BY ONLY <1>6, LenProperties
<1>8. Len(opts.assets) \in Nat /\ DOMAIN opts.assets = 1..Len(opts.assets)
    BY ONLY <1>5, LenProperties
<1>9. PICK n \in Nat : n = Len(md.LuaAssets) + 1
    BY ONLY <1>7
<1>10. n \in 1..Len(opts.assets) /\ n <= Len(opts.assets)
    BY ONLY <1>1, <1>7, <1>8, <1>9
<1>11. opts.assets[n] \in [path : Declared, file : LuaFiles]
    BY ONLY <1>5, <1>10, ElementOfSeq, Zenon
<1> QED
    BY ONLY <1>1, <1>3, <1>4, <1>7, <1>8, <1>9, <1>10, <1>11, Zenon

\* An asset that is refused ends the load with metadata that has no digest for it.
LEMMA AssetRefused ==
    ASSUME LoaderInv, LoadAsset,
           NEW asset, asset = opts.assets[Len(md.LuaAssets) + 1],
           ~resolveBundlePath(asset.path) \/ lua[asset.file].is # "file",
           NEW path \in Texts, NEW status \in {"unavailable", "invalid"},
           NEW code \in ErrorCodes,
           LoadFails([md EXCEPT !.LuaAssets = Append(@, [Path |-> path, Digest |-> {}])],
                     status, code)
    PROVE  LoaderInv'
<1>1. ~Admissible(opts, manifest, lua)
  <2>1. Len(md.LuaAssets) + 1 \in DOMAIN opts.assets
    BY AssetAt
  <2> QED
    BY <2>1, Zenon DEF Admissible, resolveBundlePath
<1>2. PICK digest \in SUBSET LuaType : digest = {}
    BY Zenon
<1>3. PICK m : m = [md EXCEPT !.LuaAssets = Append(@, [Path |-> path, Digest |-> digest])]
    BY Zenon
<1>4. LoadFails(m, status, code)
    BY <1>2, <1>3, Zenon
<1>5. LoaderTypeOK
    BY DEF LoaderInv
<1>6. /\ m \in MetadataType
      /\ m.PluginID = md.PluginID /\ m.PluginGeneration = md.PluginGeneration
      /\ m.Stamped = md.Stamped /\ m.ManifestDigest = md.ManifestDigest
      /\ m.SchemaVersion = md.SchemaVersion
      /\ m.BundleRootPath = md.BundleRootPath /\ m.ManifestPath = md.ManifestPath
      /\ Len(md.LuaAssets) \in Nat /\ Len(m.LuaAssets) = Len(md.LuaAssets) + 1
      /\ m.LuaAssets[Len(md.LuaAssets) + 1] = [Path |-> path, Digest |-> digest]
    BY ONLY <1>3, <1>5, path \in Texts, digest \in SUBSET LuaType, AssetEffect
<1>7. \E i \in 1..Len(m.LuaAssets) : m.LuaAssets[i].Digest = {}
  <2>1. Len(m.LuaAssets) \in 1..Len(m.LuaAssets)
    BY ONLY <1>6
  <2>2. m.LuaAssets[Len(m.LuaAssets)].Digest = {}
    BY ONLY <1>2, <1>6
  <2> QED
    BY ONLY <2>1, <2>2, Zenon
<1>8. UNCHANGED <<opts, isDir, manifest, lua, edits>>
    BY AssetAt, Zenon
<1>9. LoaderInv /\ status \in {"unavailable", "invalid"} /\ code \in ErrorCodes
    OBVIOUS
<1> QED
    BY ONLY <1>1, <1>4, <1>6, <1>7, <1>8, <1>9, FailInv, Zenon

\* An asset that is read adds its digest to those of the assets before it.
LEMMA AssetRead ==
    ASSUME LoaderInv, LoadAsset,
           NEW asset, asset = opts.assets[Len(md.LuaAssets) + 1],
           resolveBundlePath(asset.path), lua[asset.file].is = "file",
           md' = [md EXCEPT !.LuaAssets =
                      Append(@, [Path |-> md.BundleRootPath, Digest |-> {lua[asset.file]}])],
           UNCHANGED <<at, bytes>>
    PROVE  LoaderInv'
<1>0. /\ LoaderTypeOK /\ Kept /\ at = "assets" /\ ManifestAccepted /\ AssetsPassed
      /\ edits = 0 => bytes = manifest /\ Read
      /\ UNCHANGED <<opts, isDir, manifest, lua, edits, at, bytes>>
    BY AssetAt, Zenon
<1>1. PICK n \in Nat : n = Len(md.LuaAssets) /\ n + 1 <= Len(opts.assets)
    BY AssetAt, Zenon
<1>2. PICK path \in Texts : path = md.BundleRootPath
    BY <1>0 DEF LoaderTypeOK, MetadataType
<1>3. lua[asset.file] \in LuaType
  <2>1. asset \in [path : Declared, file : LuaFiles]
    BY AssetAt, Zenon
  <2> QED
    BY ONLY <1>0, <2>1 DEF LoaderTypeOK
<1>4. PICK digest \in SUBSET LuaType : digest = {lua[asset.file]}
    BY ONLY <1>3, Zenon
<1>5. md' = [md EXCEPT !.LuaAssets = Append(@, [Path |-> path, Digest |-> digest])]
    BY <1>2, <1>4, Zenon
<1>6. /\ md' \in MetadataType
      /\ md'.PluginID = md.PluginID /\ md'.PluginGeneration = md.PluginGeneration
      /\ md'.Stamped = md.Stamped /\ md'.ManifestDigest = md.ManifestDigest
      /\ md'.SchemaVersion = md.SchemaVersion
      /\ md'.BundleRootPath = md.BundleRootPath /\ md'.ManifestPath = md.ManifestPath
      /\ Len(md'.LuaAssets) = n + 1
      /\ \A i \in 1..n : md'.LuaAssets[i] = md.LuaAssets[i]
      /\ md'.LuaAssets[n + 1] = [Path |-> path, Digest |-> digest]
    BY ONLY <1>0, <1>1, <1>5, path \in Texts, digest \in SUBSET LuaType, AssetEffect
<1>7. md'.LuaAssets[n + 1].Path = path /\ md'.LuaAssets[n + 1].Digest = digest
    BY ONLY <1>6
<1>8. ManifestAccepted' /\ path # "blank"
    BY ONLY <1>0, <1>2, <1>6, Zenon DEF ManifestAccepted, ManifestPassed, RootPassed, IdentityPassed,
           validateLoadIdentity, resolveManifestPath, resolveBundlePath, BadIdentity
<1>9. \A i \in 1..(n + 1) : i \in 1..n \/ i = n + 1
    BY ONLY n \in Nat
<1>10. resolveBundlePath(opts.assets[n + 1].path) /\ lua[opts.assets[n + 1].file].is = "file"
       /\ digest = {lua[opts.assets[n + 1].file]}
    BY <1>1, <1>4, Zenon
<1>11. AssetsPassed'
  <2>1. ASSUME NEW i \in 1..n
        PROVE  /\ resolveBundlePath(opts.assets[i].path)
               /\ md'.LuaAssets[i].Path # "blank" /\ md'.LuaAssets[i].Digest # {}
    <3>1. md'.LuaAssets[i] = md.LuaAssets[i] /\ i \in 1..Len(md.LuaAssets)
      BY ONLY <1>1, <1>6, i \in 1..n, Zenon
    <3>2. AssetsPassed
      BY <1>0, Zenon
    <3> QED
      BY ONLY <3>1, <3>2, Zenon DEF AssetsPassed
  <2>2. /\ resolveBundlePath(opts.assets[n + 1].path)
        /\ md'.LuaAssets[n + 1].Path # "blank" /\ md'.LuaAssets[n + 1].Digest # {}
    BY ONLY <1>4, <1>7, <1>8, <1>10, Zenon
  <2>3. \A i \in 1..(n + 1) :
            /\ resolveBundlePath(opts.assets[i].path)
            /\ md'.LuaAssets[i].Path # "blank" /\ md'.LuaAssets[i].Digest # {}
    BY ONLY <1>9, <2>1, <2>2, Zenon
  <2>4. Len(md'.LuaAssets) = n + 1 /\ n + 1 <= Len(opts.assets) /\ opts' = opts
    BY <1>0, <1>1, <1>6, Zenon
  <2> QED
    BY ONLY <2>3, <2>4 DEF AssetsPassed, resolveBundlePath
<1>12. ASSUME edits = 0 PROVE Read'
  <2>0. Read /\ lua' = lua /\ opts' = opts /\ Len(md'.LuaAssets) = n + 1
    BY <1>0, <1>6, <1>12, Zenon
  <2>1. ASSUME NEW i \in 1..n
        PROVE  /\ lua[opts.assets[i].file].is = "file"
               /\ md'.LuaAssets[i].Digest = {lua[opts.assets[i].file]}
    <3>1. md'.LuaAssets[i] = md.LuaAssets[i] /\ i \in 1..Len(md.LuaAssets)
      BY ONLY <1>1, <1>6, i \in 1..n, Zenon
    <3> QED
      BY ONLY <2>0, <3>1, Zenon DEF Read
  <2>2. /\ lua[opts.assets[n + 1].file].is = "file"
        /\ md'.LuaAssets[n + 1].Digest = {lua[opts.assets[n + 1].file]}
    BY ONLY <1>7, <1>10, Zenon
  <2>3. \A i \in 1..(n + 1) :
            /\ lua[opts.assets[i].file].is = "file"
            /\ md'.LuaAssets[i].Digest = {lua[opts.assets[i].file]}
    BY ONLY <1>9, <2>1, <2>2, Zenon
  <2> QED
    BY ONLY <2>0, <2>3, Zenon DEF Read
<1>13. LoaderTypeOK' /\ Kept'
    BY ONLY <1>0, <1>6, Zenon DEF LoaderTypeOK, Kept
<1>14. Progress'
    BY ONLY <1>0, <1>8, <1>11, Zenon DEF Progress
<1>15. Fresh'
    BY ONLY <1>0, <1>12, Zenon DEF Fresh
<1> QED
    BY ONLY <1>13, <1>14, <1>15, Zenon DEF LoaderInv

\* A turn of the loop over the assets preserves the invariant.
LEMMA AssetInv == LoaderInv /\ LoadAsset => LoaderInv'
<1> SUFFICES ASSUME LoaderInv, LoadAsset PROVE LoaderInv'
    OBVIOUS
<1>1. PICK asset : asset = opts.assets[Len(md.LuaAssets) + 1]
    OBVIOUS
<1>2. PICK path : path = Text(asset.path)
    OBVIOUS
<1>3. PICK root : root = md.BundleRootPath
    OBVIOUS
<1>4. path \in Texts /\ root \in Texts
  <2>1. LoaderTypeOK /\ asset \in [path : Declared, file : LuaFiles]
    BY <1>1, AssetAt, Zenon
  <2> QED
    BY ONLY <1>2, <1>3, <2>1, Zenon DEF LoaderTypeOK, MetadataType, Text, Texts, Declared
<1>5. {"invalid_lua_asset_path", "missing_lua_asset", "unreadable_lua_asset"} \subseteq ErrorCodes
    BY ONLY Zenon DEF ErrorCodes
<1>6. CASE /\ ~resolveBundlePath(asset.path)
           /\ LoadFails([md EXCEPT !.LuaAssets = Append(@, [Path |-> path, Digest |-> {}])],
                        "invalid", "invalid_lua_asset_path")
    BY <1>1, <1>4, <1>5, <1>6, AssetRefused, Zenon
<1>7. CASE /\ lua[asset.file].is # "file"
           /\ LoadFails([md EXCEPT !.LuaAssets = Append(@, [Path |-> root, Digest |-> {}])],
                        "unavailable",
                        IF lua[asset.file].is = "missing" THEN "missing_lua_asset"
                        ELSE "unreadable_lua_asset")
  <2>1. PICK code \in ErrorCodes :
            LoadFails([md EXCEPT !.LuaAssets = Append(@, [Path |-> root, Digest |-> {}])],
                      "unavailable", code)
    BY <1>5, <1>7, Zenon
  <2> QED
    BY <1>1, <1>4, <1>7, <2>1, AssetRefused, Zenon
<1>8. CASE /\ resolveBundlePath(asset.path) /\ lua[asset.file].is = "file"
           /\ md' = [md EXCEPT !.LuaAssets =
                         Append(@, [Path |-> root, Digest |-> {lua[asset.file]}])]
           /\ UNCHANGED <<at, bytes>>
    BY <1>1, <1>3, <1>8, AssetRead, Zenon
<1> QED
    BY ONLY LoadAsset, <1>1, <1>2, <1>3, <1>6, <1>7, <1>8, Zenon DEF LoadAsset

\* So does the end of a load that succeeds.
LEMMA DoneInv == LoaderInv /\ LoadDone => LoaderInv'
<1> SUFFICES ASSUME LoaderInv, LoadDone PROVE LoaderInv'
    OBVIOUS
<1>0. /\ LoaderTypeOK /\ Kept /\ at = "assets" /\ ManifestAccepted /\ AssetsPassed
      /\ edits = 0 => bytes = manifest /\ Read
      /\ Len(md.LuaAssets) = Len(opts.assets) /\ at' = "done"
      /\ UNCHANGED <<opts, isDir, manifest, lua, edits, bytes>>
    BY DEF LoaderInv, Progress, Fresh, LoadDone, bundleFiles
<1>1. /\ md' \in MetadataType
      /\ md'.PluginID = md.PluginID /\ md'.PluginGeneration = md.PluginGeneration
      /\ md'.Stamped = md.Stamped /\ md'.ManifestDigest = md.ManifestDigest
      /\ md'.SchemaVersion = md.SchemaVersion /\ md'.LuaAssets = md.LuaAssets
      /\ md'.BundleRootPath = md.BundleRootPath /\ md'.ManifestPath = md.ManifestPath
      /\ md'.ValidationStatus = "valid"
    BY <1>0, Zenon DEF LoadDone, LoaderTypeOK, MetadataType, Statuses
<1>2. ManifestAccepted'
    BY <1>0, <1>1, Zenon DEF ManifestAccepted, ManifestPassed, RootPassed, IdentityPassed,
           validateLoadIdentity, resolveManifestPath, resolveBundlePath, BadIdentity
<1>3. AssetsPassed' /\ (edits = 0 => Read')
    BY <1>0, <1>1 DEF AssetsPassed, Read, resolveBundlePath
<1> QED
    BY <1>0, <1>1, <1>2, <1>3, Zenon DEF LoaderInv, LoaderTypeOK, Kept, Progress, Fresh

\* Progress speaks of the options and of what the load has gathered only.
LEMMA ProgressFrame ==
    ASSUME Progress, UNCHANGED <<opts, isDir, at, bytes, md>>
    PROVE  Progress'
<1>0. UNCHANGED opts /\ UNCHANGED isDir /\ UNCHANGED at /\ UNCHANGED bytes /\ UNCHANGED md
    BY Zenon
<1>1. IdentityPassed' <=> IdentityPassed
    BY ONLY <1>0, Zenon DEF IdentityPassed, validateLoadIdentity
<1>2. RootPassed' <=> RootPassed
    BY ONLY <1>0, <1>1, Zenon DEF RootPassed, resolveManifestPath, resolveBundlePath
<1>3. ManifestPassed' <=> ManifestPassed
    BY ONLY <1>0, <1>2, Zenon DEF ManifestPassed
<1>4. ManifestAccepted' <=> ManifestAccepted
    BY ONLY <1>0, <1>3, Zenon DEF ManifestAccepted, BadIdentity
<1>5. AssetsPassed' <=> AssetsPassed
    BY ONLY <1>0, Zenon DEF AssetsPassed, resolveBundlePath
<1>6. Incomplete' <=> Incomplete
    BY ONLY <1>0, Zenon DEF Incomplete
<1> QED
    BY ONLY Progress, <1>0, <1>1, <1>2, <1>3, <1>4, <1>5, <1>6, Zenon DEF Progress

\* A change to the files touches nothing the load has gathered, and ends the time
\* in which the files are what was read.
LEMMA EditInv == LoaderInv /\ Edit => LoaderInv'
<1> SUFFICES ASSUME LoaderInv, Edit PROVE LoaderInv'
    OBVIOUS
<1>1. /\ UNCHANGED <<opts, isDir, at, bytes, md>> /\ edits' = edits + 1 /\ edits \in Nat
      /\ LoaderTypeOK /\ Kept /\ Progress
    BY DEF Edit, LoaderInv, LoaderTypeOK
<1>2. manifest' \in ManifestType /\ lua' \in [LuaFiles -> LuaType]
  <2>1. CASE manifest' \in Manifests \ {manifest} /\ UNCHANGED lua
    BY <1>1, <2>1, BundleConstants, Zenon DEF LoaderTypeOK
  <2>2. CASE /\ \E f \in LuaFiles, c \in LuaContents :
                    c # lua[f] /\ lua' = [lua EXCEPT ![f] = c]
             /\ UNCHANGED manifest
    BY <1>1, <2>2, BundleConstants, Zenon DEF LoaderTypeOK
  <2> QED
    BY <2>1, <2>2 DEF Edit
<1>3. LoaderTypeOK' /\ Kept' /\ Fresh'
    BY <1>1, <1>2 DEF LoaderTypeOK, Kept, Fresh
<1>4. Progress'
    BY <1>1, ProgressFrame, Zenon
<1> QED
    BY <1>3, <1>4, Zenon DEF LoaderInv

\* The invariant holds throughout a load.
LEMMA LoaderInvariant == LoaderSpec => []LoaderInv
<1>1. LoaderInv /\ [LoaderNext]_loaderVars => LoaderInv'
  <2>1. ASSUME LoaderInv, UNCHANGED loaderVars PROVE LoaderInv'
    <3>1. /\ UNCHANGED <<opts, isDir, manifest, lua, edits, at, bytes, md>>
          /\ LoaderTypeOK /\ Kept /\ Progress /\ Fresh
      BY <2>1, Zenon DEF loaderVars, bundleFiles, LoaderInv
    <3>2. LoaderTypeOK' /\ Kept'
      BY <3>1 DEF LoaderTypeOK, Kept
    <3>3. Progress'
      BY <3>1, ProgressFrame, Zenon
    <3>4. Fresh'
      <4>1. /\ UNCHANGED opts /\ UNCHANGED isDir /\ UNCHANGED manifest /\ UNCHANGED lua
            /\ UNCHANGED edits /\ UNCHANGED at /\ UNCHANGED bytes /\ UNCHANGED md
        BY <3>1, Zenon
      <4>2. Read' <=> Read
        BY ONLY <4>1, Zenon DEF Read
      <4>3. Fresh
        BY <3>1
      <4> QED
        BY ONLY <4>1, <4>2, <4>3, Zenon DEF Fresh, Admissible
    <3> QED
      BY <3>2, <3>3, <3>4, Zenon DEF LoaderInv
  <2> QED
    BY <2>1, BeginInv, RootInv, ManifestInv, IdentityInv, AssetInv, DoneInv, EditInv, Zenon
    DEF LoaderNext
<1> QED
    BY <1>1, LoaderInitInv, PTL DEF LoaderSpec

-----------------------------------------------------------------------------
\* Validate accepts the metadata of a finished load exactly when the load
\* succeeded (LoadProviderBundleMetadata, Validate).
THEOREM AdmittedWhole == LoaderSpec => []ValidatesIffValid
<1>1. LoaderInv => ValidatesIffValid
  <2> SUFFICES ASSUME LoaderInv, at = "done"
               PROVE  Validate(md, opts.gen) <=> md.ValidationStatus = "valid"
    BY DEF ValidatesIffValid
  <2>1. DOMAIN md.LuaAssets = 1..Len(md.LuaAssets)
    <3>1. md.LuaAssets \in Seq(AssetType)
      BY Zenon DEF LoaderInv, LoaderTypeOK, MetadataType
    <3> QED
      BY <3>1, LenProperties, Zenon
  <2>2. CASE md.ValidationStatus = "valid"
    BY <2>1, <2>2, Zenon DEF LoaderInv, Progress, Kept, Validate, ManifestAccepted,
           ManifestPassed, RootPassed, IdentityPassed, AssetsPassed,
           validateLoadIdentity, BadIdentity
  <2>3. CASE md.ValidationStatus # "valid"
    BY <2>1, <2>3, Zenon DEF LoaderInv, Progress, Incomplete, Validate
  <2> QED
    BY <2>2, <2>3
<1> QED
    BY <1>1, LoaderInvariant, PTL

\* The schema version the core is told comes from the manifest whose digest it is
\* told (digestFile, parseManifestIdentity, CoreDTO).
THEOREM DigestedIdentity == LoaderSpec => []IdentityFromDigest
<1>1. LoaderInv => IdentityFromDigest
  <2> SUFFICES ASSUME LoaderInv, md.SchemaVersion # ""
               PROVE  \E m \in md.ManifestDigest :
                          /\ m.schema = md.SchemaVersion
                          /\ m.id \in {"", md.PluginID}
                          /\ m.gen \in {{}, {md.PluginGeneration}}
    BY DEF IdentityFromDigest, CoreDTO
  <2>1. ManifestAccepted /\ Kept
    BY DEF LoaderInv, Progress
  <2>2. bytes.gen \in {{}, {opts.gen}}
    BY <2>1, Zenon DEF ManifestAccepted, BadIdentity
  <2> QED
    BY <2>1, <2>2, Zenon DEF ManifestAccepted, ManifestPassed, BadIdentity, Kept
<1> QED
    BY <1>1, LoaderInvariant, PTL

\* A load nobody disturbs succeeds exactly on the bundles that must be admitted,
\* and describes all of their files.
THEOREM QuietLoads == LoaderSpec => []QuietLoadIsExact
<1>1. LoaderInv => QuietLoadIsExact
  <2> SUFFICES ASSUME LoaderInv, at = "done", edits = 0
               PROVE  /\ md.ValidationStatus = "valid"
                             <=> isDir /\ Admissible(opts, manifest, lua)
                      /\ md.ValidationStatus = "valid" =>
                             /\ md.ManifestDigest = {manifest}
                             /\ CoreDTO(md).LuaAssetDigests =
                                  [i \in DOMAIN opts.assets |-> {lua[opts.assets[i].file]}]
    BY DEF QuietLoadIsExact
  <2>1. CASE md.ValidationStatus # "valid"
    BY <2>1, Zenon DEF LoaderInv, Fresh
  <2>2. CASE md.ValidationStatus = "valid"
    <3>1. /\ ManifestAccepted /\ AssetsPassed /\ Len(md.LuaAssets) = Len(opts.assets)
          /\ bytes = manifest /\ Read
      BY <2>2 DEF LoaderInv, Progress, Fresh
    <3>2. /\ DOMAIN md.LuaAssets = 1..Len(md.LuaAssets)
          /\ DOMAIN opts.assets = 1..Len(md.LuaAssets)
      <4>1. md.LuaAssets \in Seq(AssetType)
            /\ opts.assets \in Seq([path : Declared, file : LuaFiles])
        BY Zenon DEF LoaderInv, LoaderTypeOK, MetadataType, OptionType
      <4> QED
        BY <3>1, <4>1, LenProperties, Zenon
    <3>3. isDir /\ Admissible(opts, manifest, lua)
      BY <3>1, <3>2 DEF Admissible, ManifestAccepted, ManifestPassed, RootPassed,
             IdentityPassed, AssetsPassed, Read, validateLoadIdentity,
             resolveManifestPath, resolveBundlePath, BadIdentity
    <3>4. md.ManifestDigest = {manifest}
      BY <3>1 DEF ManifestAccepted, ManifestPassed
    <3>5. CoreDTO(md).LuaAssetDigests =
              [i \in DOMAIN opts.assets |-> {lua[opts.assets[i].file]}]
      BY <3>1, <3>2, Zenon DEF CoreDTO, Read
    <3> QED
      BY <2>2, <3>3, <3>4, <3>5, Zenon
  <2> QED
    BY <2>1, <2>2, Zenon
<1> QED
    BY <1>1, LoaderInvariant, PTL

\* At no point of a load do its metadata hold a path that the admin projection
\* would show as a place on the host (AdminDTO, RedactAdminString).
THEOREM AdminPathsHidden == LoaderSpec => []AdminHidesPaths
<1>1. LoaderInv => AdminHidesPaths
  <2> SUFFICES ASSUME LoaderInv PROVE AdminHidesPaths
    OBVIOUS
  <2> DEFINE Safe == {"blank", "rel", "basename", "redacted"}
             assets == [i \in DOMAIN md.LuaAssets |->
                 [Path |-> RedactAdminString(md.LuaAssets[i].Path, TRUE),
                  Digest |-> md.LuaAssets[i].Digest]]
             root == RedactAdminString(md.BundleRootPath, TRUE)
             path == RedactAdminString(md.ManifestPath, TRUE)
  <2>1. md \in MetadataType
    BY DEF LoaderInv, LoaderTypeOK
  <2>2. \A t \in Texts : RedactAdminString(t, TRUE) \in Safe
    BY DEF Texts, RedactAdminString
  <2>3. \A i \in DOMAIN md.LuaAssets : md.LuaAssets[i] \in AssetType
    <3>1. md.LuaAssets \in Seq(AssetType)
      BY <2>1 DEF MetadataType
    <3> QED
      BY <3>1, LenProperties
  <2>4. \A i \in DOMAIN assets : assets[i].Path \in Safe
    BY <2>2, <2>3, Zenon DEF AssetType
  <2>5. root \in Safe /\ path \in Safe
    BY <2>1, <2>2, Zenon DEF MetadataType
  <2>6. AdminDTO(md, TRUE) = [md EXCEPT !.BundleRootPath = root, !.ManifestPath = path,
                                        !.LuaAssets = assets]
    BY DEF AdminDTO
  <2> HIDE DEF assets, root, path
  <2>7. /\ AdminDTO(md, TRUE).BundleRootPath = root
        /\ AdminDTO(md, TRUE).ManifestPath = path
        /\ AdminDTO(md, TRUE).LuaAssets = assets
    BY <2>1, <2>6, Zenon DEF MetadataType
  <2> QED
    BY <2>4, <2>5, <2>7, Zenon DEF AdminHidesPaths
<1> QED
    BY <1>1, LoaderInvariant, PTL

-----------------------------------------------------------------------------
LEMMA SourceIs ==
    ASSUME NEW r, NEW g \in BOOLEAN, NEW q, r = [given |-> g, plugins |-> q]
    PROVE  (r.given <=> g) /\ r.plugins = q
BY Zenon

\* The three sources of Named, from the strongest to the weakest.
LEMMA SourcesAre ==
    ASSUME NEW c
    PROVE  /\ Sources(c)[1].given <=> "plugins" \in c.explicit /\ c.list # <<>>
           /\ Sources(c)[2].given <=> c.explicit \cap {"plugins", "plugin", "plugin-id"} # {}
           /\ Sources(c)[3].given
           /\ Sources(c)[1].plugins = c.list
           /\ Sources(c)[2].plugins = <<c.spec>>
           /\ Sources(c)[3].plugins = c.file.plugins
<1> DEFINE g1 == "plugins" \in c.explicit /\ c.list # <<>>
           g2 == c.explicit \cap {"plugins", "plugin", "plugin-id"} # {}
           q2 == <<c.spec>>
<1>1. Sources(c)[1] = [given |-> g1, plugins |-> c.list]
      BY Zenon DEF Sources
<1>2. Sources(c)[2] = [given |-> g2, plugins |-> q2]
      BY DEF Sources
<1>3. Sources(c)[3] = [given |-> TRUE, plugins |-> c.file.plugins]
      BY DEF Sources
<1>4. g1 \in BOOLEAN /\ g2 \in BOOLEAN
      BY Zenon
<1> HIDE DEF g1, g2, q2
<1>5. (Sources(c)[1].given <=> g1) /\ Sources(c)[1].plugins = c.list
      BY <1>1, <1>4, SourceIs, Zenon
<1>6. (Sources(c)[2].given <=> g2) /\ Sources(c)[2].plugins = q2
  <2>1. PICK r : r = Sources(c)[2]
        OBVIOUS
  <2>2. r = [given |-> g2, plugins |-> q2]
        BY <1>2, <2>1, Zenon
  <2>3. (r.given <=> g2) /\ r.plugins = q2
        BY <1>4, <2>2, SourceIs, Zenon
  <2> QED BY <2>1, <2>3, Zenon
<1>7. Sources(c)[3].given /\ Sources(c)[3].plugins = c.file.plugins
      BY <1>3
<1> QED BY <1>5, <1>6, <1>7, Zenon DEF g1, g2, q2

LEMMA Strongest ==
    ASSUME NEW c, NEW k \in 1..3, Sources(c)[k].given,
           \A i \in 1..3 : i < k => ~Sources(c)[i].given
    PROVE  Named(c) = Sources(c)[k].plugins
<1> DEFINE S == {i \in 1..3 : Sources(c)[i].given}
<1>1. k \in S /\ \A i \in S : k =< i
      OBVIOUS
<1>2. \A j \in S : (\A i \in S : j =< i) => j = k
      BY <1>1
<1>3. Min(S) = k
      BY <1>1, <1>2, Zenon DEF Min
<1> QED BY <1>3 DEF Named

LEMMA ByList ==
    ASSUME NEW c, "plugins" \in c.explicit, c.list # <<>>
    PROVE  Named(c) = c.list
<1>1. Sources(c)[1].given /\ Sources(c)[1].plugins = c.list
      BY SourcesAre, Zenon
<1> QED BY <1>1, Strongest

LEMMA BySpec ==
    ASSUME NEW c, c.explicit \cap {"plugins", "plugin", "plugin-id"} # {},
           ~("plugins" \in c.explicit /\ c.list # <<>>)
    PROVE  Named(c) = <<c.spec>>
<1>1. /\ ~Sources(c)[1].given /\ Sources(c)[2].given
      /\ Sources(c)[2].plugins = <<c.spec>>
      BY SourcesAre, Zenon
<1>2. \A i \in 1..3 : i < 2 => i = 1
      OBVIOUS
<1>3. \A i \in 1..3 : i < 2 => ~Sources(c)[i].given
      BY <1>1, <1>2
<1>4. 2 \in 1..3
      OBVIOUS
<1>5. Named(c) = Sources(c)[2].plugins
      BY <1>1, <1>3, <1>4, Strongest, Zenon
<1> QED BY <1>1, <1>5, Zenon

LEMMA ByFile ==
    ASSUME NEW c, c.explicit \cap {"plugins", "plugin", "plugin-id"} = {}
    PROVE  Named(c) = c.file.plugins
<1>1. /\ ~Sources(c)[1].given /\ ~Sources(c)[2].given /\ Sources(c)[3].given
      /\ Sources(c)[3].plugins = c.file.plugins
      BY SourcesAre, Zenon
<1>2. \A i \in 1..3 : i < 3 => i = 1 \/ i = 2
      OBVIOUS
<1>3. \A i \in 1..3 : i < 3 => ~Sources(c)[i].given
      BY <1>1, <1>2, Zenon
<1> QED BY <1>1, <1>3, Strongest

\* ParseAll returns what it is given, or refuses it.
LEMMA ParseAllIs ==
    ASSUME NEW l, NEW s \in ParseAll(l)
    PROVE  s = l /\ \A i \in DOMAIN l : l[i].path # ""
BY DEF ParseAll

LEMMA OneSpec ==
    ASSUME NEW x \in Specs
    PROVE  <<x>> \in Seq(Specs) /\ <<x>> # <<>> /\ 1 \in DOMAIN <<x>> /\ <<x>>[1] = x
OBVIOUS

\* A configuration parseDaemonConfig accepts is the strongest source, unchanged,
\* and names a plugin: the fallback of resolvePlugins to flags that were not given
\* accepts nothing.
LEMMA ResolvesNamed ==
    ASSUME NEW c \in Commands, NEW s \in parseDaemonConfig(c)
    PROVE  s = Named(c) /\ s \in Seq(Specs) /\ s # <<>>
<1>0. /\ c.list \in Seq(Specs) /\ c.file.plugins \in Seq(Specs) /\ c.spec \in Specs
      /\ "plugins" \notin c.explicit => c.list = <<>>
      /\ "plugin" \notin c.explicit => c.spec.path = ""
      BY ParsedCommands, Zenon
<1>1. s \in resolvePlugins(c)
      BY Zenon DEF parseDaemonConfig
<1>2. CASE "plugins" \in c.explicit /\ c.list # <<>>
  <2>1. s \in ParseAll(c.list)
        BY <1>1, <1>2, Zenon DEF resolvePlugins, parsePlugins
  <2>2. s = c.list
        BY <2>1, ParseAllIs, Zenon
  <2>3. Named(c) = c.list
        BY <1>2, ByList, Zenon
  <2> QED BY <1>0, <1>2, <2>2, <2>3, Zenon
<1>3. CASE /\ c.explicit \cap {"plugins", "plugin", "plugin-id"} # {}
           /\ ~("plugins" \in c.explicit /\ c.list # <<>>)
  <2>1. s \in ParseAll(<<c.spec>>)
        BY <1>1, <1>3, Zenon DEF resolvePlugins, parsePlugins
  <2>2. s = <<c.spec>>
        BY <2>1, ParseAllIs, Zenon
  <2>3. Named(c) = <<c.spec>>
        BY <1>3, BySpec, Zenon
  <2>4. <<c.spec>> \in Seq(Specs) /\ <<c.spec>> # <<>>
        BY <1>0, OneSpec, Zenon
  <2> QED BY <2>2, <2>3, <2>4, Zenon
<1>4. CASE c.explicit \cap {"plugins", "plugin", "plugin-id"} = {}
  <2>1. "plugins" \notin c.explicit /\ "plugin" \notin c.explicit /\ "plugin-id" \notin c.explicit
        BY <1>4
  <2>2. c.explicit \cap {"plugin", "plugin-id"} = {}
        BY <1>4
  <2>3. CASE c.file.plugins # <<>>
    <3>1. s \in ParseAll(c.file.plugins)
          BY <1>1, <2>1, <2>2, <2>3, Zenon DEF resolvePlugins
    <3>2. s = c.file.plugins
          BY <3>1, ParseAllIs, Zenon
    <3>3. Named(c) = c.file.plugins
          BY <1>4, ByFile, Zenon
    <3> QED BY <1>0, <2>3, <3>2, <3>3, Zenon
  <2>4. CASE c.file.plugins = <<>>
    <3>1. s \in ParseAll(<<c.spec>>)
          BY <1>0, <1>1, <2>1, <2>2, <2>4, Zenon DEF resolvePlugins, parsePlugins
    <3>2. 1 \in DOMAIN <<c.spec>> /\ <<c.spec>>[1] = c.spec
          BY <1>0, OneSpec, Zenon
    <3>3. <<c.spec>>[1].path # ""
          BY <3>1, <3>2, ParseAllIs, Zenon
    <3> QED BY <1>0, <2>1, <3>2, <3>3, Zenon
  <2> QED BY <2>3, <2>4, Zenon
<1> QED BY <1>2, <1>3, <1>4, Zenon

LEMMA RuntimeDirs ==
    ASSUME NEW c \in Commands, runtimeDir(c) # ""
    PROVE  runtimeDir(c) \in Dirs
BY ParsedCommands, DaemonConstants, Zenon DEF runtimeDir, chooseString

-----------------------------------------------------------------------------
LEMMA DaemonInvInit == DaemonInit => DaemonInv
<1> SUFFICES ASSUME DaemonInit PROVE DaemonInv
    OBVIOUS
<1>1. IsFiniteSet({})
      BY FS_EmptySet
<1> QED BY <1>1, DaemonConstants DEF DaemonInit, DaemonInv, DefaultLogIsCurrent

\* The two halves of DaemonInv: of the host that is built, and of the search for a
\* log.
HostOK ==
    /\ phase \in {"off", "new", "starting", "up"}
    /\ dir \in Dirs /\ DOMAIN logs = Dirs
    /\ IsFiniteSet(managers) /\ managers \subseteq logs[dir] \cup rotated
    /\ phase = "off" => told = {} /\ managers = {}
    /\ phase # "off" => \E c \in Commands : told = {c}
    /\ phase \in {"starting", "up"} => todo = <<>>
    /\ \A c \in told : Reached(c)
SearchOK ==
    /\ asks \in {"no", "scan", "root", "answered"}
    /\ asks # "no" => phase = "up"
    /\ IsFiniteSet(found)
    /\ asks = "scan" => managers \subseteq left \cup found \cup missed
    /\ DefaultLogIsCurrent
LEMMA DaemonParts == DaemonInv <=> HostOK /\ SearchOK
BY Zenon DEF DaemonInv, HostOK, SearchOK
LEMMA DaemonPartsNext == HostOK' /\ SearchOK' => DaemonInv'
BY Zenon DEF DaemonInv, HostOK, SearchOK

LEMMA LaunchInv ==
    ASSUME DaemonInv, Launch
    PROVE  DaemonInv'
<1>0. /\ phase = "off" /\ told = {} /\ managers = {}
      /\ UNCHANGED <<managers, logs, rotated, readerVars>>
      BY Zenon DEF DaemonInv, Launch
<1>r. asks = "no" /\ asks' = "no" /\ found' = found /\ IsFiniteSet(found)
      BY <1>0 DEF DaemonInv, readerVars
<1>1. CASE UNCHANGED <<phase, told, dir, todo>>
      BY <1>0, <1>r, <1>1 DEF DaemonInv, Reached, DefaultLogIsCurrent
<1>2. ASSUME NEW c \in Commands, runtimeDir(c) # "", todo' \in parseDaemonConfig(c),
             phase' = "new", told' = {c}, dir' = runtimeDir(c)
      PROVE  DaemonInv'
  <2>1. todo' = Named(c) /\ todo' \in Seq(Specs) /\ todo' # <<>>
        BY <1>2, ResolvesNamed, Zenon
  <2>2. dir' \in Dirs
        BY <1>2, RuntimeDirs, Zenon
  <2>3. managers' = {} /\ Cardinality(managers') = 0 /\ IsFiniteSet(managers')
        BY <1>0, FS_EmptySet
  <2>4. Len(todo') \in Nat
        BY <2>1
  <2>5. /\ Len(todo') + Cardinality(managers') = Len(Named(c))
        /\ \A i \in 1..Len(todo') : todo'[i] = Named(c)[Cardinality(managers') + i]
        BY <2>1, <2>3, <2>4
  <2>6. managers' = {Named(c)[i].id : i \in 1..Cardinality(managers')}
        BY <2>3
  <2>7. managers' \subseteq logs'[dir'] \cup rotated'
        BY <2>3, Zenon
  <2>8. phase' # "off" /\ phase' \notin {"starting", "up"}
        BY <1>2, Zenon
  <2>9. DOMAIN logs' = Dirs
        BY <1>0, Zenon DEF DaemonInv
  <2>10. \A x \in told' : x = c
         BY <1>2
  <2>11. \A x \in told' : Reached(x)'
    <3>1. Reached(c)'
          BY <2>1, <2>5, <2>6, Zenon DEF Reached
    <3> QED BY <2>10, <3>1, Zenon
  <2>12. \E x \in Commands : told' = {x}
         BY <1>2, Zenon
  <2>13. SearchOK'
        BY <1>r DEF SearchOK, DefaultLogIsCurrent
  <2>14. HostOK'
        BY <1>2, <2>2, <2>3, <2>7, <2>8, <2>9, <2>11, <2>12, Zenon DEF HostOK
  <2> QED BY <2>13, <2>14, DaemonPartsNext, Zenon
<1> QED BY <1>1, <1>2 DEF Launch

LEMMA GivesUpInv ==
    ASSUME DaemonInv, GivesUp, UNCHANGED logs
    PROVE  DaemonInv'
<1>1. IsFiniteSet({})
      BY FS_EmptySet, Zenon
<1> QED BY <1>1, DaemonConstants DEF DaemonInv, GivesUp, DefaultLogIsCurrent

LEMMA NewManagerInv ==
    ASSUME DaemonInv, NewManager
    PROVE  DaemonInv'
<1> DEFINE plugin == Head(todo)
           n == Cardinality(managers)
<1>1. CASE GivesUp /\ UNCHANGED logs
      BY <1>1, GivesUpInv
<1>2. CASE /\ plugin.id \notin managers
           /\ managers' = managers \cup {plugin.id}
           /\ logs' = [logs EXCEPT ![dir] = @ \cup {plugin.id}]
           /\ todo' = Tail(todo)
           /\ UNCHANGED <<phase, told, dir, rotated, launches, readerVars>>
  <2>0. /\ phase = "new" /\ todo # <<>> /\ dir \in Dirs /\ DOMAIN logs = Dirs
        /\ IsFiniteSet(managers) /\ managers \subseteq logs[dir] \cup rotated
        BY Zenon DEF DaemonInv, NewManager
  <2>1. PICK c \in Commands : told = {c}
        BY <2>0, Zenon DEF DaemonInv
  <2> DEFINE L == Named(c)
  <2>2. /\ L \in Seq(Specs) /\ L # <<>> /\ todo \in Seq(Specs)
        /\ Len(todo) + n = Len(L) /\ managers = {L[i].id : i \in 1..n}
        /\ \A i \in 1..Len(todo) : todo[i] = L[n + i]
        BY <2>1, Zenon DEF DaemonInv, Reached
  <2>3. n \in Nat /\ IsFiniteSet(managers') /\ Cardinality(managers') = n + 1
        BY <1>2, <2>0, FS_CardinalityType, FS_AddElement, Zenon
  <2>4. Len(todo) \in Nat /\ 1 \in 1..Len(todo) /\ plugin = L[n + 1]
        BY <2>0, <2>2
  <2>5. /\ todo' \in Seq(Specs) /\ Len(todo') = Len(todo) - 1
        /\ \A i \in 1..Len(todo') : todo'[i] = todo[i + 1]
        BY <1>2, <2>0, <2>2
  <2>6. Len(todo') + Cardinality(managers') = Len(L)
        BY <2>2, <2>3, <2>4, <2>5
  <2>7. managers' = {L[i].id : i \in 1..Cardinality(managers')}
    <3>1. 1..Cardinality(managers') = (1..n) \cup {n + 1}
          BY <2>3
    <3>2. managers' = {L[i].id : i \in 1..n} \cup {L[n + 1].id}
          BY <1>2, <2>2, <2>4, Zenon
    <3> HIDE DEF L, n
    <3> QED BY <3>1, <3>2, Zenon
  <2>8. \A i \in 1..Len(todo') : todo'[i] = L[Cardinality(managers') + i]
    <3> SUFFICES ASSUME NEW i \in 1..Len(todo')
                 PROVE  todo'[i] = L[Cardinality(managers') + i]
        OBVIOUS
    <3> HIDE DEF L, n
    <3>1. i \in Nat /\ 1 =< i /\ i =< Len(todo) - 1
          BY <2>4, <2>5
    <3>2. i + 1 \in 1..Len(todo)
          BY <2>4, <3>1
    <3>3. n + (i + 1) = Cardinality(managers') + i
          BY <2>3, <3>1
    <3> QED BY <2>2, <2>5, <3>2, <3>3, Zenon
  <2>9. DOMAIN logs' = Dirs /\ logs'[dir] = logs[dir] \cup {plugin.id}
        BY <1>2, <2>0, Zenon
  <2>10. asks = "no" /\ asks' = "no" /\ found' = found /\ IsFiniteSet(found)
         BY <1>2, <2>0 DEF DaemonInv, readerVars
  <2> HIDE DEF n
  <2>11. \A x \in told' : x = c
         BY <1>2, <2>1, Zenon
  <2>12. \A x \in told' : Reached(x)'
    <3>1. Reached(c)'
          BY <2>2, <2>5, <2>6, <2>7, <2>8, Zenon DEF Reached
    <3> QED BY <2>11, <3>1, Zenon
  <2>13. phase' = "new" /\ dir' = dir /\ told' = {c}
         BY <1>2, <2>0, <2>1, Zenon
  <2>14. phase' # "off" /\ phase' \notin {"starting", "up"}
         BY <2>13
  <2>15. managers' \subseteq logs'[dir'] \cup rotated'
         BY <1>2, <2>0, <2>9, <2>13, Zenon
  <2>16. HostOK'
         BY <2>0, <2>3, <2>9, <2>12, <2>13, <2>14, <2>15, Zenon DEF HostOK
  <2>17. SearchOK'
         BY <2>10 DEF SearchOK, DefaultLogIsCurrent
  <2> QED BY <2>16, <2>17, DaemonPartsNext, Zenon
<1> QED BY <1>1, <1>2 DEF NewManager

\* A rotation takes a log away only as it marks its manager, and the other way round.
LEMMA RotationInv ==
    ASSUME DaemonInv, NEW id \in Ids, RotateRename(id) \/ RotateOpen(id)
    PROVE  DaemonInv'
<1>1. /\ UNCHANGED <<phase, told, dir, todo, managers, readerVars>>
      /\ HostOK /\ SearchOK
      BY DaemonParts DEF RotateRename, RotateOpen
<1>2. dir \in Dirs /\ DOMAIN logs = Dirs /\ managers \subseteq logs[dir] \cup rotated
      BY <1>1, Zenon DEF HostOK
<1>3. DOMAIN logs' = Dirs /\ managers' \subseteq logs'[dir'] \cup rotated'
  <2>1. CASE RotateRename(id)
        BY <1>1, <1>2, <2>1 DEF RotateRename
  <2>2. CASE RotateOpen(id)
        BY <1>1, <1>2, <2>2 DEF RotateOpen
  <2> QED BY <2>1, <2>2, Zenon
<1>4. HostOK'
      BY <1>1, <1>3 DEF HostOK, Reached
<1>5. SearchOK'
      BY <1>1 DEF SearchOK, DefaultLogIsCurrent, readerVars
<1> QED BY <1>4, <1>5, DaemonPartsNext, Zenon

\* The search changes nothing of the host.
LEMMA SearchKeepsHost ==
    ASSUME HostOK, UNCHANGED <<phase, told, dir, todo, managers, logs, rotated>>
    PROVE  HostOK'
BY DEF HostOK, Reached

LEMMA ResolveBeginInv ==
    ASSUME DaemonInv, ResolveBegin
    PROVE  DaemonInv'
<1>1. HostOK /\ SearchOK /\ HostOK'
      BY DaemonParts, SearchKeepsHost DEF ResolveBegin
<1>2. phase' = "up" /\ managers' = managers /\ IsFiniteSet(found')
      BY FS_EmptySet DEF ResolveBegin
<1>3. SearchOK'
      BY <1>2 DEF SearchOK, DefaultLogIsCurrent, ResolveBegin
<1> QED BY <1>1, <1>3, DaemonPartsNext, Zenon

\* A manager that is looked for has its log or is being rotated.
LEMMA LookIntoInv ==
    ASSUME DaemonInv, NEW id \in Ids, LookInto(id)
    PROVE  DaemonInv'
<1>1. HostOK /\ SearchOK /\ HostOK'
      BY DaemonParts, SearchKeepsHost DEF LookInto
<1>2. /\ managers \subseteq logs[dir] \cup rotated
      /\ managers \subseteq left \cup found \cup missed /\ IsFiniteSet(found)
      BY <1>1 DEF HostOK, SearchOK, LookInto
<1>3. IsFiniteSet(found')
  <2>1. found' = found \/ found' = found \cup {id}
        BY DEF LookInto
  <2> QED BY <1>2, <2>1, FS_AddElement, Zenon
<1>4. managers' \subseteq left' \cup found' \cup missed'
      BY <1>2 DEF LookInto
<1>5. asks = "scan" /\ asks' = "scan" /\ phase' = phase
      BY DEF LookInto
<1>6. SearchOK'
      BY <1>1, <1>3, <1>4, <1>5 DEF SearchOK, DefaultLogIsCurrent
<1> QED BY <1>1, <1>6, DaemonPartsNext, Zenon

\* When all directories have been looked into, a log of a manager that was not
\* missed is among those found: the only one found is that log.
LEMMA ResolveEndInv ==
    ASSUME DaemonInv, ResolveEnd
    PROVE  DaemonInv'
<1>1. HostOK /\ SearchOK /\ HostOK'
      BY DaemonParts, SearchKeepsHost DEF ResolveEnd
<1>2. /\ managers \subseteq found \cup missed /\ IsFiniteSet(found) /\ phase = "up"
      /\ managers' = managers /\ found' = found /\ missed' = missed /\ phase' = phase
      /\ asks' = "answered" /\ answer' = resolveLogPath(found)
      BY <1>1 DEF SearchOK, ResolveEnd
<1>3. ASSUME ~(managers \subseteq missed)
      PROVE  resolveLogPath(found) \subseteq managers
  <2>1. PICK m \in managers : m \in found
        BY <1>2, <1>3, Zenon
  <2>2. Cardinality(found) \in Nat /\ Cardinality(found) # 0
        BY <1>2, <2>1, FS_CardinalityType, FS_EmptySet, Zenon
  <2>3. CASE Cardinality(found) = 1
    <3>1. PICK x : found = {x}
          BY <1>2, <2>3, FS_Singleton, Zenon
    <3>2. found \subseteq managers
          BY <2>1, <3>1
    <3> QED BY <2>3, <3>2 DEF resolveLogPath
  <2>4. CASE Cardinality(found) > 1
        BY <2>2, <2>4 DEF resolveLogPath
  <2> QED BY <2>2, <2>3, <2>4
<1>4. DefaultLogIsCurrent'
      BY <1>2, <1>3, Zenon DEF DefaultLogIsCurrent
<1>5. SearchOK'
      BY <1>2, <1>4 DEF SearchOK
<1> QED BY <1>1, <1>5, DaemonPartsNext, Zenon

LEMMA DaemonInvStep == DaemonInv /\ [DaemonNext]_daemonVars => DaemonInv'
<1> SUFFICES ASSUME DaemonInv, [DaemonNext]_daemonVars PROVE DaemonInv'
    OBVIOUS
<1>1. CASE Launch
      BY <1>1, LaunchInv, Zenon
<1>2. CASE NewManager
      BY <1>2, NewManagerInv, Zenon
<1>3. CASE HostBuilt \/ StartAll
  <2>1. HostOK /\ SearchOK
        BY DaemonParts, Zenon
  <2>2. HostOK'
    <3>1. CASE HostBuilt
          BY <2>1, <3>1 DEF HostOK, Reached, HostBuilt
    <3>2. CASE StartAll
          BY <2>1, <3>2 DEF HostOK, Reached, StartAll
    <3> QED BY <1>3, <3>1, <3>2, Zenon
  <2>3. phase # "up" /\ UNCHANGED <<managers, readerVars>>
        BY <1>3 DEF HostBuilt, StartAll
  <2>4. SearchOK'
        BY <2>1, <2>3 DEF SearchOK, DefaultLogIsCurrent, readerVars
  <2> QED BY <2>2, <2>4, DaemonPartsNext, Zenon
<1>4. CASE DaemonEnds
      BY <1>4, GivesUpInv, Zenon DEF DaemonEnds
<1>5. CASE ResolveBegin \/ ResolveEnd
      BY <1>5, ResolveBeginInv, ResolveEndInv, Zenon
<1>6. ASSUME NEW id \in Ids, RotateRename(id) \/ RotateOpen(id) \/ LookInto(id)
      PROVE  DaemonInv'
      BY <1>6, RotationInv, LookIntoInv, Zenon
<1>7. CASE UNCHANGED daemonVars
  <2>1. UNCHANGED <<phase, told, dir, todo, managers, logs, rotated>> /\ UNCHANGED readerVars
        BY <1>7 DEF daemonVars
  <2>2. HostOK'
        BY <2>1, DaemonParts, SearchKeepsHost, Zenon
  <2>3. SearchOK'
        BY <2>1, DaemonParts DEF SearchOK, DefaultLogIsCurrent, readerVars
  <2> QED BY <2>2, <2>3, DaemonPartsNext, Zenon
<1> QED BY <1>1, <1>2, <1>3, <1>4, <1>5, <1>6, <1>7, Zenon DEF DaemonNext

\* In the loop of NewHost and after it, the managers are the first of the plugins
\* named, one each, and every one of them has its log in the runtime directory or is
\* being rotated; a search for a log accounts for every one of them.
THEOREM DaemonInvariance == DaemonSpec => []DaemonInv
<1>1. DaemonInit => DaemonInv
      BY DaemonInvInit
<1>2. DaemonInv /\ [DaemonNext]_daemonVars => DaemonInv'
      BY DaemonInvStep
<1> QED BY <1>1, <1>2, PTL DEF DaemonSpec

-----------------------------------------------------------------------------
LEMMA BuiltHost ==
    ASSUME HostOK, phase \in {"starting", "up"}, NEW c \in told
    PROVE  /\ managers = {Named(c)[i].id : i \in DOMAIN Named(c)}
           /\ Cardinality(managers) = Len(Named(c)) /\ managers # {}
<1> DEFINE L == Named(c)
           n == Cardinality(managers)
<1>1. /\ L \in Seq(Specs) /\ L # <<>> /\ todo = <<>> /\ IsFiniteSet(managers)
      /\ Len(todo) + n = Len(L) /\ managers = {L[i].id : i \in 1..n}
      BY Zenon DEF HostOK, Reached
<1>2. n \in Nat
      BY <1>1, FS_CardinalityType, Zenon
<1> HIDE DEF L, n
<1>3. Len(L) \in Nat \ {0} /\ DOMAIN L = 1..Len(L) /\ Len(todo) = 0
      BY <1>1
<1>4. n = Len(L)
      BY <1>1, <1>2, <1>3
<1>5. managers = {L[i].id : i \in DOMAIN L}
      BY <1>1, <1>3, <1>4, Zenon
<1>6. L[1].id \in managers
      BY <1>3, <1>5
<1> QED BY <1>4, <1>5, <1>6, Zenon DEF L, n

\* A daemon that is starting or up runs every plugin of the strongest source that
\* names one, once each: resolvePlugins keeps the order of the sources, and NewHost
\* returns a host only with a manager for every plugin.
THEOREM HostRunsAllOrNone == DaemonSpec => []HostRunsNamed
<1>1. DaemonInv => HostRunsNamed
      BY DaemonParts, BuiltHost, Zenon DEF HostRunsNamed
<1> QED BY <1>1, DaemonInvariance, PTL

\* resolveLogPath without -plugin-id, on the directory of a daemon that is up and
\* without a log of its own, returns the log of a plugin of this daemon or an error,
\* whatever earlier daemons left there and whatever is rotated while it looks, unless
\* a rotation hid the log of every plugin from it.
THEOREM DefaultLogFound == DaemonSpec => []DefaultLogIsCurrent
<1>1. DaemonInv => DefaultLogIsCurrent
      BY Zenon DEF DaemonInv
<1> QED BY <1>1, DaemonInvariance, PTL

-----------------------------------------------------------------------------
\* A provider's diagnostic.  The round trip through JSON keeps details what they
\* are, and safe details safe: the elements of a []string become strings.
LEMMA AsJSONIs ==
    ASSUME NEW p
    PROVE  /\ p.kind = "strings" => AsJSON(p) = [p EXCEPT !.kind = "list", !.texts = {}]
           /\ p.kind = "struct" => AsJSON(p) = [p EXCEPT !.kind = "map"]
           /\ p.kind \notin {"strings", "struct"} => AsJSON(p) = p
<1>1. CASE p.kind = "strings"
      BY <1>1 DEF AsJSON
<1>2. CASE p.kind = "struct"
      BY <1>2 DEF AsJSON
<1>3. CASE p.kind \notin {"strings", "struct"}
      BY <1>3 DEF AsJSON
<1> QED BY <1>1, <1>2, <1>3, Zenon

LEMMA InJSON ==
    ASSUME NEW D, NEW q \in ThroughJSON(D)
    PROVE  \/ \E p \in D : p.kind = "strings" /\ q = [p EXCEPT !.kind = "list", !.texts = {}]
           \/ \E p \in D : p.kind = "struct" /\ q = [p EXCEPT !.kind = "map"]
           \/ q \in D /\ q.kind \notin {"strings", "struct"}
           \/ \E p \in D : p.kind = "strings" /\ \E t \in p.texts : q = String(Append(p.at, 0), "blank", t)
<1>1. CASE q \in {AsJSON(p) : p \in D}
  <2>1. PICK p \in D : q = AsJSON(p)
        BY <1>1, Zenon
  <2>2. CASE p.kind = "strings"
        BY <2>1, <2>2, AsJSONIs, Zenon
  <2>3. CASE p.kind = "struct"
        BY <2>1, <2>3, AsJSONIs, Zenon
  <2>4. CASE p.kind \notin {"strings", "struct"}
        BY <2>1, <2>4, AsJSONIs, Zenon
  <2> QED BY <2>2, <2>3, <2>4, Zenon
<1>2. CASE q \in UNION {{String(Append(p.at, 0), "blank", t) : t \in p.texts} :
                           p \in {r \in D : r.kind = "strings"}}
      BY <1>2, Zenon
<1> QED BY <1>1, <1>2, Zenon DEF ThroughJSON

LEMMA StringIsPlace ==
    ASSUME NEW w \in Seq(Nat), NEW k \in ProviderText, NEW t \in ProviderText
    PROVE  String(w, k, t) \in Places
BY DEF String, Places, Kinds

LEMMA JSONTyped ==
    ASSUME NEW D \in SUBSET Places
    PROVE  ThroughJSON(D) \subseteq Places
<1> SUFFICES ASSUME NEW q \in ThroughJSON(D) PROVE q \in Places
    BY Zenon
<1>1. CASE \E p \in D : p.kind = "strings" /\ q = [p EXCEPT !.kind = "list", !.texts = {}]
      BY <1>1, Zenon DEF Places, Kinds
<1>2. CASE \E p \in D : p.kind = "struct" /\ q = [p EXCEPT !.kind = "map"]
      BY <1>2 DEF Places, Kinds
<1>3. CASE q \in D
      BY <1>3, Zenon
<1>4. CASE \E p \in D : p.kind = "strings" /\ \E t \in p.texts : q = String(Append(p.at, 0), "blank", t)
  <2>p. PICK p \in D : p.kind = "strings" /\ \E t \in p.texts : q = String(Append(p.at, 0), "blank", t)
        BY <1>4, Zenon
  <2>0. PICK t \in p.texts : q = String(Append(p.at, 0), "blank", t)
        BY <2>p, Zenon
  <2>1. p.at \in Seq(Nat) /\ t \in ProviderText
        BY DEF Places
  <2>2. "blank" \in ProviderText
        BY DEF ProviderText
  <2>3. Append(p.at, 0) \in Seq(Nat)
        BY <2>1
  <2> QED BY <2>0, <2>1, <2>2, <2>3, StringIsPlace, Zenon
<1> QED BY <1>1, <1>2, <1>3, <1>4, InJSON, Zenon

LEMMA JSONKeepsSafe ==
    ASSUME NEW D \in SUBSET Places, safeProviderDetails(D)
    PROVE  safeProviderDetails(ThroughJSON(D))
<1> SUFFICES ASSUME NEW q \in ThroughJSON(D)
             PROVE  ~UnsafeProviderText(q.key) /\ validateProviderDetailValue(q)
    BY Zenon DEF safeProviderDetails
<1>0. \A p \in D : /\ p \in Places /\ ~UnsafeProviderText(p.key)
                   /\ validateProviderDetailValue(p)
      BY Zenon DEF safeProviderDetails
<1>1. CASE \E p \in D : p.kind = "strings" /\ q = [p EXCEPT !.kind = "list", !.texts = {}]
  <2>0. PICK p \in D : q = [p EXCEPT !.kind = "list", !.texts = {}]
        BY <1>1, Zenon
  <2>1. q.kind = "list" /\ q.key = p.key
        BY <1>0, <2>0 DEF Places
  <2> QED BY <1>0, <2>1, Zenon DEF validateProviderDetailValue
<1>2. CASE \E p \in D : p.kind = "struct" /\ q = [p EXCEPT !.kind = "map"]
      BY <1>0, <1>2 DEF validateProviderDetailValue
<1>3. CASE q \in D
      BY <1>0, <1>3, Zenon
<1>4. CASE \E p \in D : p.kind = "strings" /\ \E t \in p.texts : q = String(Append(p.at, 0), "blank", t)
  <2>p. PICK p \in D : p.kind = "strings" /\ \E t \in p.texts : q = String(Append(p.at, 0), "blank", t)
        BY <1>4, Zenon
  <2>0. PICK t \in p.texts : q = String(Append(p.at, 0), "blank", t)
        BY <2>p, Zenon
  <2>1. q.kind = "string" /\ q.key = "blank" /\ q.texts = {t}
        BY <2>0, Zenon DEF String
  <2>2. ~Hidden(t)
        BY <1>0, <2>p, Zenon DEF validateProviderDetailValue
  <2>3. ~UnsafeProviderText(q.key)
        BY <2>1 DEF UnsafeProviderText
  <2>4. \A u \in q.texts : ~Hidden(u)
        BY <2>1, <2>2, Zenon
  <2> QED BY <2>1, <2>3, <2>4, Zenon DEF validateProviderDetailValue
<1> QED BY <1>1, <1>2, <1>3, <1>4, InJSON, Zenon

\* What isProviderObservationEvent is true of and safeProviderDetails accepts has
\* nothing unsafe in it at any depth.
LEMMA SafeDetails ==
    ASSUME NEW D \in SUBSET Places, safeProviderDetails(D), NEW p \in D
    PROVE  p.texts \cap {"unsafe", "path"} = {} /\ p.key # "unsafe"
<1>1. p \in Places /\ ~UnsafeProviderText(p.key) /\ validateProviderDetailValue(p)
      BY Zenon DEF safeProviderDetails
<1>2. p.key # "unsafe"
      BY <1>1, Zenon DEF UnsafeProviderText
<1>3. CASE p.kind \in {"string", "strings"}
  <2>1. \A t \in p.texts : ~Hidden(t)
        BY <1>1, <1>3, Zenon DEF validateProviderDetailValue
  <2>2. \A t \in p.texts : t # "unsafe" /\ t # "path"
        BY <2>1, Zenon DEF Hidden, UnsafeProviderText, looksLikeProviderPrivatePath
  <2> QED BY <1>2, <2>2
<1>4. CASE p.kind \notin {"string", "strings"}
  <2>1. p.texts = {}
        BY <1>1, <1>4 DEF Places
  <2> QED BY <1>2, <2>1
<1> QED BY <1>3, <1>4, Zenon

-----------------------------------------------------------------------------
\* What ProviderEvent accepts is a provider event to the reader too.
LEMMA AcceptedIsProvider ==
    ASSUME NEW o, validateProviderObservation(o)
    PROVE  isProviderObservationEvent(EventOf(o))
<1>1. validateProviderEventComponent(o.Component, o.Event, o.Status)
      BY Zenon DEF validateProviderObservation
<1>2. o.Component \in {"boundary", "diagnostic"}
      BY <1>1, Zenon DEF validateProviderEventComponent
<1>3. EventOf(o).Component = o.Component
      BY DEF EventOf
<1> QED BY <1>2, <1>3, Zenon DEF isProviderObservationEvent

LEMMA AcceptedTexts ==
    ASSUME NEW o \in Observations, validateProviderObservation(o),
           IsObservation(o), NEW f \in Redacts
    PROVE  ~Hidden(o.text[f])
<1>1. CASE f \in Checked
  <2>1. validateSafeProviderText(o.text[f])
        BY <1>1, Zenon DEF validateProviderObservation
  <2> QED BY <2>1 DEF validateSafeProviderText, Hidden, UnsafeProviderText,
                      looksLikeProviderPrivatePath
<1>2. CASE f \in {"SocketPath", "Error", "Reason"}
  <2>1. o.text[f] = "blank"
        BY <1>2 DEF IsObservation
  <2> QED BY <2>1 DEF Hidden, UnsafeProviderText, looksLikeProviderPrivatePath
<1> QED BY <1>1, <1>2, Zenon DEF Redacts

\* The texts of an accepted report that RedactForDisplay does not look at.
LEMMA AcceptedNames ==
    ASSUME NEW o \in Observations, validateProviderObservation(o), IsObservation(o)
    PROVE  /\ {o.Component, o.Event, o.Status, o.text["Level"], o.text["Method"]}
                 \cap {"unsafe", "path"} = {}
           /\ o.text["PluginID"] # "path"
<1>1. /\ o.idOk /\ o.Status \in providerStatuses
      /\ validateProviderEventComponent(o.Component, o.Event, o.Status)
      BY Zenon DEF validateProviderObservation
<1>2. providerStatuses = {"started", "succeeded", "failed", "degraded", "unavailable", "rejected"}
      BY DEF providerStatuses, providerEventStatus
<1>3. o.Status \notin {"unsafe", "path"}
      BY <1>1, <1>2
<1>4. o.Component \in {"boundary", "diagnostic"} /\ o.Event \in providerStatuses \cup {"reported"}
      BY <1>1, <1>2 DEF validateProviderEventComponent, BoundaryEvents
<1>5. o.Component \notin {"unsafe", "path"} /\ o.Event \notin {"unsafe", "path"}
      BY <1>2, <1>4
<1>6. o.text["Level"] = "plain" /\ o.text["Method"] = "blank"
      BY Zenon DEF IsObservation
<1>7. o.text["PluginID"] \in {"plain", "unsafe"}
      BY <1>1, EventConstants, Zenon
<1>8. o.text["PluginID"] # "path"
      BY <1>7
<1> QED BY <1>3, <1>5, <1>6, <1>8

LEMMA EventTexts ==
    ASSUME NEW o
    PROVE  SameTexts(EventOf(o), o)
BY DEF SameTexts, EventOf

LEMMA EventTyped ==
    ASSUME NEW o \in Observations
    PROVE  EventOf(o) \in EventType
<1>1. /\ o.Component \in Components /\ o.Event \in Names /\ o.Status \in Names
      /\ o.text \in [Fields -> ProviderText] /\ o.Details \subseteq Places
      BY EventConstants
<1>2. o.text \in [Fields -> ProviderText \cup {"redacted"}]
      BY <1>1
<1> QED BY <1>1, <1>2 DEF EventOf, EventType

LEMMA WrittenTyped ==
    ASSUME NEW e \in EventType
    PROVE  WrittenForm(e) \in EventType /\ WrittenForm(e).Details = ThroughJSON(e.Details)
           /\ WrittenForm(e).text = e.text /\ WrittenForm(e).Component = e.Component
           /\ WrittenForm(e).Event = e.Event /\ WrittenForm(e).Status = e.Status
<1>1. ThroughJSON(e.Details) \in SUBSET Places
      BY JSONTyped DEF EventType
<1> QED BY <1>1 DEF EventType, WrittenForm

\* RedactForDisplay of an event with nothing to redact is that event.
LEMMA NothingRedacted ==
    ASSUME NEW e \in EventType, isProviderObservationEvent(e),
           \A f \in Redacts : ~Hidden(e.text[f]), safeProviderDetails(e.Details)
    PROVE  RedactForDisplay(e) = e
<1>1. [f \in Fields |-> IF f \in Redacts /\ Hidden(e.text[f]) THEN "redacted" ELSE e.text[f]]
          = e.text
      BY DEF EventType
<1>2. RedactForDisplay(e) = [e EXCEPT !.text = e.text, !.Details = e.Details]
      BY <1>1, Zenon DEF RedactForDisplay
<1> QED BY <1>2, Zenon DEF EventType

\* What RedactForDisplay returns has the type of an event, and is safe.
LEMMA RedactedTyped == Redacted \in SUBSET Places /\ safeProviderDetails(Redacted)
<1> DEFINE r == [at |-> <<1>>, key |-> "plain", kind |-> "scalar", texts |-> {}]
<1>1. <<1>> \in Seq(Nat)
      OBVIOUS
<1>2. r \in Places
      BY <1>1, Zenon DEF Places, Kinds, ProviderText
<1>3. ~UnsafeProviderText(r.key) /\ validateProviderDetailValue(r)
      BY DEF UnsafeProviderText, validateProviderDetailValue
<1> QED BY <1>2, <1>3, Zenon DEF Redacted, safeProviderDetails

LEMMA RedactFields ==
    ASSUME NEW e \in EventType, isProviderObservationEvent(e)
    PROVE  /\ RedactForDisplay(e) \in EventType
           /\ \A f \in Redacts : ~Hidden(RedactForDisplay(e).text[f])
           /\ safeProviderDetails(RedactForDisplay(e).Details)
           /\ RedactForDisplay(e).Component = e.Component
           /\ RedactForDisplay(e).Event = e.Event /\ RedactForDisplay(e).Status = e.Status
<1> DEFINE x == [f \in Fields |-> IF f \in Redacts /\ Hidden(e.text[f])
                                  THEN "redacted" ELSE e.text[f]]
           D == IF safeProviderDetails(e.Details) THEN e.Details ELSE Redacted
<1>1. x \in [Fields -> ProviderText \cup {"redacted"}]
      BY Zenon DEF EventType
<1>2. \A f \in Redacts : ~Hidden(x[f])
      BY DEF Fields, Hidden, UnsafeProviderText, looksLikeProviderPrivatePath
<1>3. D \in SUBSET Places /\ safeProviderDetails(D)
      BY RedactedTyped DEF EventType
<1>4. RedactForDisplay(e) = [e EXCEPT !.text = x, !.Details = D]
      BY Zenon DEF RedactForDisplay
<1> HIDE DEF x, D
<1>5. /\ RedactForDisplay(e).text = x /\ RedactForDisplay(e).Details = D
      /\ RedactForDisplay(e).Component = e.Component
      /\ RedactForDisplay(e).Event = e.Event /\ RedactForDisplay(e).Status = e.Status
      BY <1>4 DEF EventType
<1>6. RedactForDisplay(e) \in EventType
      BY <1>1, <1>3, <1>4, Zenon DEF EventType
<1> QED BY <1>2, <1>3, <1>5, <1>6, Zenon

-----------------------------------------------------------------------------
LEMMA EventsInvInit == EventsInit => EventsInv
<1> SUFFICES ASSUME EventsInit PROVE EventsInv
    OBVIOUS
<1>1. NoEvent \in EventType
  <2>1. [f \in Fields |-> "blank"] \in [Fields -> ProviderText \cup {"redacted"}]
        BY DEF ProviderText
  <2>2. "blank" \in Components /\ "blank" \in Names
        BY DEF Components, Names, ProviderText
  <2> QED BY <2>1, <2>2 DEF NoEvent, EventType
<1> QED BY <1>1 DEF EventsInit, EventsInv, DisplayRedacts

\* One case for each value of doing: until an event is shown, DisplayRedacts says
\* nothing of it.
LEMMA ProviderEventInv ==
    ASSUME EventsInv, ProviderEvent
    PROVE  EventsInv'
<1>1. /\ obs \in Observations /\ obs' = obs /\ accepted = {} /\ event \in EventType
      /\ writes' = writes /\ writes \in Nat
      /\ IsObservation(obs)
      BY Zenon DEF EventsInv, ProviderEvent
<1>2. CASE doing' = "refused" /\ UNCHANGED <<event, accepted>>
      BY <1>1, <1>2, Zenon DEF EventsInv, DisplayRedacts
<1>3. CASE /\ validateProviderObservation(obs) /\ safeProviderDetails(obs.Details)
           /\ event' = EventOf(obs) /\ accepted' = {EventOf(obs)} /\ doing' = "write"
  <2>1. event' \in EventType
        BY <1>1, <1>3, EventTyped, Zenon
  <2>2. SameTexts(event', obs')
        BY <1>1, <1>3, EventTexts, Zenon
  <2> QED BY <1>1, <1>3, <2>1, <2>2, Zenon DEF EventsInv, DisplayRedacts
<1> QED BY <1>2, <1>3, Zenon DEF ProviderEvent

LEMMA LoggerEventInv ==
    ASSUME EventsInv, LoggerEvent
    PROVE  EventsInv'
<1>1. /\ obs \in Observations /\ obs' = obs /\ accepted' = {} /\ doing' = "write"
      /\ writes' = writes /\ writes \in Nat
      BY DEF EventsInv, LoggerEvent
<1>2. EventOf(obs) \in EventType
      BY <1>1, EventTyped, Zenon
<1>3. PICK c \in Filled(obs.Component, {"plain"}), l \in Filled(obs.text["Level"], {"plain"}),
           i \in Filled(obs.text["PluginID"], {"plain", "unsafe"}) :
           event' = [EventOf(obs) EXCEPT !.Component = c,
                        !.text = [EventOf(obs).text EXCEPT !["Level"] = l, !["PluginID"] = i]]
      BY Zenon DEF LoggerEvent
<1>4. event' \in EventType
  <2>1. obs.Component \in Components /\ obs.text \in [Fields -> ProviderText]
        BY <1>1, EventConstants
  <2>2. obs.text["Level"] \in ProviderText /\ obs.text["PluginID"] \in ProviderText
        BY <2>1 DEF Fields
  <2>3. c \in Components
        BY <2>1 DEF Filled, Components, ProviderText
  <2>4. l \in ProviderText /\ i \in ProviderText
        BY <2>2 DEF Filled, ProviderText
  <2>5. EventOf(obs).text = obs.text
        BY DEF EventOf
  <2> DEFINE x == [obs.text EXCEPT !["Level"] = l, !["PluginID"] = i]
  <2>6. x \in [Fields -> ProviderText \cup {"redacted"}]
        BY <2>1, <2>4, Zenon
  <2>7. event' = [EventOf(obs) EXCEPT !.Component = c, !.text = x]
        BY <1>3, <2>5, Zenon
  <2> HIDE DEF x
  <2> QED BY <1>2, <2>3, <2>6, <2>7, Zenon DEF EventType
<1> QED BY <1>1, <1>4, Zenon DEF EventsInv, DisplayRedacts

LEMMA DetailsTyped ==
    ASSUME NEW e \in EventType, NEW D \in SUBSET Places
    PROVE  /\ [e EXCEPT !.Details = D] \in EventType
           /\ \A o : SameTexts(e, o) => SameTexts([e EXCEPT !.Details = D], o)
<1>1. [e EXCEPT !.Details = D] \in EventType
      BY Zenon DEF EventType
<1>2. /\ [e EXCEPT !.Details = D].Component = e.Component
      /\ [e EXCEPT !.Details = D].Event = e.Event
      /\ [e EXCEPT !.Details = D].Status = e.Status
      /\ [e EXCEPT !.Details = D].text = e.text
      BY Zenon DEF EventType
<1> QED BY <1>1, <1>2, Zenon DEF SameTexts

LEMMA StoresInv ==
    ASSUME EventsInv, NEW key \in ProviderText, NEW text \in ProviderText,
           PluginStores(key, text)
    PROVE  EventsInv'
<1>1. /\ obs \in Observations /\ obs' = obs /\ accepted' = accepted /\ doing' = "write"
      /\ doing = "write" /\ event \in EventType
      BY DEF EventsInv, PluginStores
<1>2. event.Details \in SUBSET Places
      BY <1>1 DEF EventType
<1>3. PICK p \in event.Details :
          \/ event' = [event EXCEPT !.Details =
                 {q \in event.Details : ~Within(q.at, p.at)} \cup {String(p.at, p.key, text)}]
          \/ /\ p.kind = "strings"
             /\ event' = [event EXCEPT !.Details =
                   (event.Details \ {p}) \cup {[p EXCEPT !.texts = {text}]}]
          \/ event' = [event EXCEPT !.Details =
                 event.Details \cup {String(Append(p.at, 0), key, text)}]
      BY Zenon DEF PluginStores
<1>4. p \in Places /\ p.at \in Seq(Nat) /\ p.key \in ProviderText
      BY <1>2, Zenon DEF Places
<1>5. Append(p.at, 0) \in Seq(Nat)
      BY <1>4
<1>6. String(p.at, p.key, text) \in Places /\ String(Append(p.at, 0), key, text) \in Places
      BY <1>4, <1>5, StringIsPlace, Zenon
<1>7. p.kind = "strings" => [p EXCEPT !.texts = {text}] \in Places
      BY <1>4, Zenon DEF Places
<1>8. event' \in EventType /\ (SameTexts(event, obs) => SameTexts(event', obs))
  <2>1. PICK D \in SUBSET Places : event' = [event EXCEPT !.Details = D]
        BY <1>2, <1>3, <1>6, <1>7, Zenon
  <2> QED BY <1>1, <2>1, DetailsTyped, Zenon
<1>9. writes' \in Nat /\ writes' # 0
  <2>1. writes \in Nat /\ writes' = writes + 1
        BY Zenon DEF EventsInv, PluginStores
  <2> QED BY <2>1
<1> QED BY <1>1, <1>8, <1>9, Zenon DEF EventsInv, DisplayRedacts

LEMMA WriteLineInv ==
    ASSUME EventsInv, WriteLine
    PROVE  EventsInv'
<1>1. /\ obs \in Observations /\ obs' = obs /\ accepted' = accepted /\ doing = "write"
      /\ writes' = writes /\ writes \in Nat /\ doing' = "line" /\ event \in EventType
      BY DEF EventsInv, WriteLine
<1>2. event' = WrittenForm(event)
      BY Zenon DEF WriteLine, WrittenForm
<1>3. event' \in EventType /\ (SameTexts(event, obs) => SameTexts(event', obs))
      BY <1>1, <1>2, WrittenTyped, Zenon DEF SameTexts
<1> QED BY <1>1, <1>2, <1>3, Zenon DEF EventsInv, DisplayRedacts

LEMMA DisplayInv ==
    ASSUME EventsInv, Display
    PROVE  EventsInv'
<1>1. /\ obs \in Observations /\ obs' = obs /\ accepted' = accepted /\ doing = "line"
      /\ writes' = writes /\ writes \in Nat /\ doing' = "shown" /\ event \in EventType
      /\ event' = RedactForDisplay(event)
      BY DEF EventsInv, Display
<1>2. event' \in EventType
  <2>1. CASE isProviderObservationEvent(event)
        BY <1>1, <2>1, RedactFields, Zenon
  <2>2. CASE ~isProviderObservationEvent(event)
        BY <1>1, <2>2, Zenon DEF RedactForDisplay
  <2> QED BY <2>1, <2>2, Zenon
<1>3. ASSUME accepted # {}
      PROVE  SameTexts(event', obs) /\ IsObservation(obs) /\ validateProviderObservation(obs)
  <2>1. /\ SameTexts(event, obs) /\ IsObservation(obs) /\ validateProviderObservation(obs)
        BY <1>3, Zenon DEF EventsInv
  <2>2. isProviderObservationEvent(event)
    <3>1. validateProviderEventComponent(obs.Component, obs.Event, obs.Status)
          BY <2>1, Zenon DEF validateProviderObservation
    <3>2. obs.Component \in {"boundary", "diagnostic"}
          BY <3>1, Zenon DEF validateProviderEventComponent
    <3> QED BY <2>1, <3>2, Zenon DEF SameTexts, isProviderObservationEvent
  <2>3. \A f \in Redacts : ~Hidden(event.text[f])
        BY <1>1, <2>1, AcceptedTexts, Zenon DEF SameTexts
  <2>4. event'.text = event.text
    <3>1. [f \in Fields |-> IF f \in Redacts /\ Hidden(event.text[f])
                            THEN "redacted" ELSE event.text[f]] = event.text
          BY <1>1, <2>3 DEF EventType
    <3>2. PICK D : event' = [event EXCEPT !.text = event.text, !.Details = D]
          BY <1>1, <2>2, <3>1, Zenon DEF RedactForDisplay
    <3> QED BY <1>1, <3>2 DEF EventType
  <2>5. event'.Component = event.Component /\ event'.Event = event.Event /\ event'.Status = event.Status
        BY <1>1, <2>2, RedactFields, Zenon
  <2> QED BY <2>1, <2>4, <2>5, Zenon DEF SameTexts
<1>3a. DisplayRedacts'
  <2>1. (event'.Component \in {"boundary", "diagnostic"}
         \/ event'.Event \in BoundaryEvents \cup DiagnosticEvents) =>
           /\ \A f \in Redacts : event'.text[f] \notin {"unsafe", "path"}
           /\ \A p \in event'.Details : p.texts \cap {"unsafe", "path"} = {} /\ p.key # "unsafe"
    <3>1. CASE ~isProviderObservationEvent(event)
      <4>1. event' = event
            BY <1>1, <3>1, Zenon DEF RedactForDisplay
      <4> QED BY <3>1, <4>1, Zenon DEF isProviderObservationEvent
    <3>2. CASE isProviderObservationEvent(event)
      <4>1. /\ \A f \in Redacts : ~Hidden(event'.text[f])
            /\ safeProviderDetails(event'.Details)
            BY <1>1, <3>2, RedactFields, Zenon
      <4>2. \A f \in Redacts : event'.text[f] \notin {"unsafe", "path"}
            BY <4>1, Zenon DEF Hidden, UnsafeProviderText, looksLikeProviderPrivatePath
      <4>3. event'.Details \in SUBSET Places
            BY <1>2 DEF EventType
      <4>4. \A p \in event'.Details : p.texts \cap {"unsafe", "path"} = {} /\ p.key # "unsafe"
            BY <4>1, <4>3, SafeDetails, Zenon
      <4> QED BY <4>2, <4>4, Zenon
    <3> QED BY <3>1, <3>2, Zenon
  <2>2. accepted' # {} =>
           /\ {event'.Component, event'.Event, event'.Status,
               event'.text["Level"], event'.text["Method"]} \cap {"unsafe", "path"} = {}
           /\ event'.text["PluginID"] # "path"
    <3> SUFFICES ASSUME accepted # {}
                 PROVE  /\ {event'.Component, event'.Event, event'.Status,
                            event'.text["Level"], event'.text["Method"]} \cap {"unsafe", "path"} = {}
                        /\ event'.text["PluginID"] # "path"
        BY <1>1, Zenon
    <3>1. /\ event'.Component = obs.Component /\ event'.Event = obs.Event
          /\ event'.Status = obs.Status /\ event'.text = obs.text
          BY <1>3, Zenon DEF SameTexts
    <3> QED BY <1>1, <1>3, <3>1, AcceptedNames, Zenon
  <2> QED BY <2>1, <2>2, Zenon DEF DisplayRedacts
<1>4. ASSUME accepted # {}, writes = 0
      PROVE  event' = WrittenForm(EventOf(obs))
  <2>1. /\ event = WrittenForm(EventOf(obs)) /\ validateProviderObservation(obs)
        /\ safeProviderDetails(obs.Details)
        /\ IsObservation(obs)
        BY <1>1, <1>4, Zenon DEF EventsInv
  <2>2. EventOf(obs) \in EventType
        BY <1>1, EventTyped, Zenon
  <2>3. EventOf(obs).Details = obs.Details /\ EventOf(obs).text = obs.text
        BY DEF EventOf
  <2>4. /\ event.Details = ThroughJSON(obs.Details) /\ event.text = obs.text
        /\ event.Component = EventOf(obs).Component /\ event.Event = EventOf(obs).Event
        BY <2>1, <2>2, <2>3, WrittenTyped, Zenon
  <2>5. isProviderObservationEvent(event)
        BY <2>1, <2>4, AcceptedIsProvider, Zenon DEF isProviderObservationEvent
  <2>6. \A f \in Redacts : ~Hidden(event.text[f])
        BY <1>1, <2>1, <2>4, AcceptedTexts, Zenon
  <2>7. obs.Details \in SUBSET Places
        BY <1>1, EventConstants
  <2>8. safeProviderDetails(event.Details)
        BY <2>1, <2>4, <2>7, JSONKeepsSafe, Zenon
  <2>9. RedactForDisplay(event) = event
        BY <1>1, <2>5, <2>6, <2>8, NothingRedacted, Zenon
  <2> QED BY <1>1, <2>1, <2>9, Zenon
<1>5. /\ accepted # {} =>
            /\ accepted = {EventOf(obs)}
            /\ validateProviderObservation(obs) /\ safeProviderDetails(obs.Details)
            /\ IsObservation(obs) /\ SameTexts(event', obs)
      /\ writes \in Nat
      BY <1>3, Zenon DEF EventsInv
<1>6. doing' \in {"report", "refused", "write", "line", "shown"}
      /\ doing' \notin {"report", "refused"} /\ doing' # "write"
      BY <1>1
<1> QED BY <1>1, <1>2, <1>3a, <1>4, <1>5, <1>6, Zenon DEF EventsInv

LEMMA EventsInvStep == EventsInv /\ [EventsNext]_eventVars => EventsInv'
<1> SUFFICES ASSUME EventsInv, [EventsNext]_eventVars PROVE EventsInv'
    OBVIOUS
<1>1. CASE UNCHANGED eventVars
      BY <1>1, Zenon DEF EventsInv, DisplayRedacts, eventVars
<1>2. ASSUME NEW key \in ProviderText, NEW text \in ProviderText, PluginStores(key, text)
      PROVE  EventsInv'
      BY <1>2, StoresInv, Zenon
<1> QED BY <1>1, <1>2, ProviderEventInv, LoggerEventInv, WriteLineInv, DisplayInv, Zenon DEF EventsNext

\* On its way from the plugin to the operator, an accepted report stays what
\* ProviderEvent returned until the plugin writes to it.
THEOREM EventsInvariance == EventsSpec => []EventsInv
<1>1. EventsInit => EventsInv
      BY EventsInvInit
<1>2. EventsInv /\ [EventsNext]_eventVars => EventsInv'
      BY EventsInvStep
<1> QED BY <1>1, <1>2, PTL DEF EventsSpec

\* Whatever a plugin reports, by ProviderEvent or past it, and whatever it stores
\* to the details before they are written, at any depth: RedactForDisplay leaves no
\* marker and no host path in the nine fields it covers and in the detail values of
\* a provider event, and no marker in a detail key.  In an event ProviderEvent
\* accepted, the texts it prints unseen are names the code knows, the level, no
\* method and an id that is no path.
THEOREM DisplayIsRedacted == EventsSpec => []DisplayRedacts
<1>1. EventsInv => DisplayRedacts
      BY Zenon DEF EventsInv
<1> QED BY <1>1, EventsInvariance, PTL

\* What ProviderEvent accepts and the plugin leaves alone, RedactForDisplay shows
\* whole: the two share safeProviderDetails, and the round trip through JSON takes
\* safe details to safe details.
THEOREM AcceptedReportsAreShown == EventsSpec => []AcceptedIsShown
<1>1. ASSUME EventsInv, doing = "shown", writes = 0, NEW e \in accepted
      PROVE  event = [e EXCEPT !.Details = ThroughJSON(@)]
  <2>1. e = EventOf(obs) /\ event = WrittenForm(EventOf(obs))
        BY <1>1 DEF EventsInv
  <2> QED BY <2>1, Zenon DEF WrittenForm
<1>2. EventsInv => AcceptedIsShown
      BY <1>1, Zenon DEF AcceptedIsShown
<1> QED BY <1>2, EventsInvariance, PTL
=============================================================================
