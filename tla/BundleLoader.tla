---------------------------- MODULE BundleLoader ----------------------------
(***************************************************************************)
(* LoadProviderBundleMetadata (internal/providerbundle/loader.go), the     *)
(* metadata it returns with its Validate and its two projections           *)
(* (metadata.go), beside a provider that goes on changing the files of its *)
(* bundle: the loader takes no lock and reads one file after the other.    *)
(*                                                                         *)
(* A digest is the content it was computed from.  A path is told apart by  *)
(* what the code does with it: where it leads, and what showing it would   *)
(* give away.                                                              *)
(***************************************************************************)
EXTENDS Naturals, Sequences

CONSTANTS
    Options,     \* the ProviderBundleLoadOptions a caller passes
    Schemas,     \* schema versions, "" when there is none
    Bodies,      \* contents of asset files
    Manifests,   \* what may lie at the manifest path
    LuaFiles,    \* the asset files of the bundle
    LuaContents, \* what may lie at an asset path
    MaxEdits     \* bound: files changed while one load runs

VARIABLES
    opts,        \* ProviderBundleLoadOptions
    isDir,       \* whether the bundle root is a directory
    manifest,    \* what lies at the manifest path
    lua,         \* what lies at each asset path
    edits,       \* files changed since the load began
    at,          \* where the load stands
    bytes,       \* manifestBytes: the manifest as it was read
    md           \* metadata

bundleFiles == <<isDir, manifest, lua>>
loaderVars == <<opts, bundleFiles, edits, at, bytes, md>>

-----------------------------------------------------------------------------
\* A path as the caller writes it: relative or absolute, inside the root or
\* leading out of it (by name or through a link).
Declared == {"blank", "in", "absin", "up", "away"}
\* What the text of a path gives away: nothing, a place relative to the root, a
\* place on the host, or secret-like material.
Texts == {"blank", "rel", "abs", "secret"}
Text(p) == CASE p = "blank" -> "blank" [] p \in {"in", "up"} -> "rel" [] OTHER -> "abs"

OptionType ==
    [id : {"p", "q", "malformed"}, gen : Nat, expected : Nat, stamped : BOOLEAN,
     root : Texts, manifest : Declared, name : Declared,
     assets : Seq([path : Declared, file : LuaFiles])]
\* schema "" stands for every manifest parseManifestIdentity refuses; id "" and
\* gen {} for a manifest that does not name them.
ManifestType ==
    [is : {"file", "missing", "unreadable"}, schema : Schemas,
     id : {"", "p", "q"}, gen : SUBSET Nat]
LuaType == [is : {"file", "missing", "unreadable"}, body : Bodies]

ASSUME BundleConstants ==
    /\ "" \in Schemas
    /\ Options \subseteq OptionType
    /\ Manifests \subseteq ManifestType
    /\ LuaContents \subseteq LuaType
    /\ MaxEdits \in Nat

\* validateLoadIdentity; stamped: ObservedAt and SubstrateEventCorrelation are set.
validateLoadIdentity(o) == o.id # "malformed" /\ o.gen > 0 /\ o.stamped

\* resolveBundlePath: a path that stays inside the root.  Resolved, it is
\* absolute, and reads like the root it starts with.
resolveBundlePath(p) == p \in {"in", "absin"}
resolveManifestPath(o) ==
    IF o.manifest # "blank" THEN resolveBundlePath(o.manifest)
    ELSE o.name = "blank" \/ resolveBundlePath(o.name)
ResolvedRoot(o) == IF o.root = "rel" THEN "abs" ELSE o.root

inertManifestPath(o) ==
    IF o.manifest # "blank" THEN Text(o.manifest)
    ELSE IF o.root # "blank" THEN o.root
    ELSE Text(o.name)

NoManifest == [is |-> "missing", schema |-> "", id |-> "", gen |-> {}]

failMetadata(m, status, code) ==
    [m EXCEPT !.ValidationStatus = status, !.RedactedErrorCode = code]

\* The status Validate wants, and the fields it requires.  The loader's error
\* codes and messages are fixed texts without secret-like material.
Validate(m, expected) ==
    /\ m.PluginID # "malformed" /\ m.PluginGeneration > 0
    /\ m.PluginGeneration = expected
    /\ m.BundleRootPath # "blank" /\ m.ManifestPath # "blank"
    /\ m.ManifestDigest # {}
    /\ m.ValidationStatus \in {"valid", "unavailable", "invalid"}
    /\ m.SchemaVersion # "" /\ m.Stamped
    /\ \A i \in DOMAIN m.LuaAssets :
           m.LuaAssets[i].Path # "blank" /\ m.LuaAssets[i].Digest # {}

\* What is left of a path that is shown: "[redacted]", its last element, or all.
RedactAdminString(text, redactPaths) ==
    CASE text = "secret" -> "redacted"
      [] text = "abs" /\ redactPaths -> "basename"
      [] OTHER -> text

CoreDTO(m) ==
    [PluginID |-> m.PluginID, PluginGeneration |-> m.PluginGeneration,
     LuaAssetDigests |-> [i \in DOMAIN m.LuaAssets |-> m.LuaAssets[i].Digest],
     ManifestDigest |-> m.ManifestDigest, SchemaVersion |-> m.SchemaVersion,
     ValidationStatus |-> m.ValidationStatus]

\* A projection that forgets the assets' paths.
AdminAssetsRaw(m, redactPaths) ==
    [m EXCEPT !.BundleRootPath = RedactAdminString(@, redactPaths),
              !.ManifestPath = RedactAdminString(@, redactPaths)]
AdminDTO(m, redactPaths) ==
    [m EXCEPT !.BundleRootPath = RedactAdminString(m.BundleRootPath, redactPaths),
              !.ManifestPath = RedactAdminString(m.ManifestPath, redactPaths),
              !.LuaAssets = [i \in DOMAIN m.LuaAssets |->
                  [Path |-> RedactAdminString(m.LuaAssets[i].Path, redactPaths),
                   Digest |-> m.LuaAssets[i].Digest]]]

-----------------------------------------------------------------------------
LoaderInit ==
    /\ opts \in Options
    /\ isDir \in BOOLEAN
    /\ manifest \in Manifests
    /\ lua \in [LuaFiles -> LuaContents]
    /\ edits = 0 /\ at = "begin" /\ bytes = NoManifest
    /\ md = [PluginID |-> opts.id, PluginGeneration |-> opts.gen,
             BundleRootPath |-> opts.root, ManifestPath |-> "blank",
             ManifestDigest |-> {}, SchemaVersion |-> "", Stamped |-> opts.stamped,
             LuaAssets |-> <<>>, ValidationStatus |-> "", RedactedErrorCode |-> ""]

LoadFails(m, status, code) ==
    at' = "done" /\ md' = failMetadata(m, status, code) /\ UNCHANGED bytes

\* A start that only refuses a generation older than the expected one.
BeginLoosely ==
    /\ at = "begin"
    /\ at' = IF validateLoadIdentity(opts) /\ opts.gen >= opts.expected
             THEN "root" ELSE "done"
    /\ md' = IF at' = "root" THEN md
             ELSE failMetadata(md, "invalid", "malformed_load_identity")
    /\ UNCHANGED <<opts, bundleFiles, edits, bytes>>
\* validateLoadIdentity and the expected generation: nothing is read yet.
LoadBegin ==
    /\ at = "begin"
    /\ LET inert == [md EXCEPT !.ManifestPath = inertManifestPath(opts)] IN
       \/ /\ ~validateLoadIdentity(opts)
          /\ LoadFails(inert, "invalid", "malformed_load_identity")
       \/ /\ validateLoadIdentity(opts)
          /\ opts.expected > 0 /\ opts.gen # opts.expected
          /\ LoadFails(inert, "invalid", "stale_generation")
       \/ /\ validateLoadIdentity(opts)
          /\ opts.expected = 0 \/ opts.gen = opts.expected
          /\ at' = "root" /\ UNCHANGED <<bytes, md>>
    /\ UNCHANGED <<opts, bundleFiles, edits>>

\* prepareBundleRoot and resolveManifestPath.
LoadRoot ==
    /\ at = "root"
    /\ LET inert == [md EXCEPT !.ManifestPath = inertManifestPath(opts)]
           rooted == [md EXCEPT !.BundleRootPath = ResolvedRoot(opts)] IN
       \/ /\ opts.root = "blank" \/ ~isDir
          /\ LoadFails(inert, "unavailable", "missing_bundle_root")
       \/ /\ opts.root # "blank" /\ isDir
          /\ ~resolveManifestPath(opts)
          /\ LoadFails([inert EXCEPT !.BundleRootPath = ResolvedRoot(opts)],
                       "invalid", "invalid_manifest_path")
       \/ /\ opts.root # "blank" /\ isDir
          /\ resolveManifestPath(opts)
          /\ md' = [rooted EXCEPT !.ManifestPath = ResolvedRoot(opts)]
          /\ at' = "manifest" /\ UNCHANGED bytes
    /\ UNCHANGED <<opts, bundleFiles, edits>>

\* digestFile of the manifest: one read feeds both the digest and the parser.
LoadManifest ==
    /\ at = "manifest"
    /\ \/ /\ manifest.is # "file"
          /\ LoadFails(md, "unavailable",
                       IF manifest.is = "missing" THEN "missing_manifest"
                       ELSE "unreadable_manifest")
       \/ /\ manifest.is = "file"
          /\ md' = [md EXCEPT !.ManifestDigest = {manifest}]
          /\ bytes' = manifest
          /\ at' = "identity"
    /\ UNCHANGED <<opts, bundleFiles, edits>>

\* parseManifestIdentity refuses the manifest, or it names another plugin or
\* another generation.
BadIdentity(m, o) ==
    \/ m.schema = ""
    \/ m.id \notin {"", o.id}
    \/ ~(m.gen \subseteq {o.gen})

\* A parser that opens the manifest a second time.
IdentityReread ==
    /\ at = "identity"
    /\ \/ /\ BadIdentity(manifest, opts)
          /\ LoadFails(md, "invalid", "malformed_manifest_identity")
       \/ /\ ~BadIdentity(manifest, opts)
          /\ md' = [md EXCEPT !.SchemaVersion = manifest.schema]
          /\ at' = "assets" /\ UNCHANGED bytes
    /\ UNCHANGED <<opts, bundleFiles, edits>>
LoadIdentity ==
    /\ at = "identity"
    /\ \/ /\ BadIdentity(bytes, opts)
          /\ LoadFails(md, "invalid", "malformed_manifest_identity")
       \/ /\ ~BadIdentity(bytes, opts)
          /\ md' = [md EXCEPT !.SchemaVersion = bytes.schema]
          /\ at' = "assets" /\ UNCHANGED bytes
    /\ UNCHANGED <<opts, bundleFiles, edits>>

\* A turn that leaves the asset that failed out of the metadata.
AssetDropped ==
    /\ at = "assets"
    /\ Len(md.LuaAssets) < Len(opts.assets)
    /\ LET asset == opts.assets[Len(md.LuaAssets) + 1] IN
       IF resolveBundlePath(asset.path) /\ lua[asset.file].is = "file"
       THEN /\ md' = [md EXCEPT !.LuaAssets =
                        Append(@, [Path |-> md.BundleRootPath,
                                   Digest |-> {lua[asset.file]}])]
            /\ UNCHANGED <<at, bytes>>
       ELSE LoadFails(md, "unavailable", "missing_lua_asset")
    /\ UNCHANGED <<opts, bundleFiles, edits>>
\* One turn of the loop over ExpectedLuaAssetPaths.
LoadAsset ==
    /\ at = "assets"
    /\ Len(md.LuaAssets) < Len(opts.assets)
    /\ LET asset == opts.assets[Len(md.LuaAssets) + 1]
           With(path, digest) ==
               [md EXCEPT !.LuaAssets = Append(@, [Path |-> path, Digest |-> digest])]
       IN
       \/ /\ ~resolveBundlePath(asset.path)
          /\ LoadFails(With(Text(asset.path), {}), "invalid", "invalid_lua_asset_path")
       \/ /\ resolveBundlePath(asset.path)
          /\ lua[asset.file].is # "file"
          /\ LoadFails(With(md.BundleRootPath, {}), "unavailable",
                       IF lua[asset.file].is = "missing" THEN "missing_lua_asset"
                       ELSE "unreadable_lua_asset")
       \/ /\ resolveBundlePath(asset.path)
          /\ lua[asset.file].is = "file"
          /\ md' = With(md.BundleRootPath, {lua[asset.file]})
          /\ UNCHANGED <<at, bytes>>
    /\ UNCHANGED <<opts, bundleFiles, edits>>

LoadDone ==
    /\ at = "assets"
    /\ Len(md.LuaAssets) = Len(opts.assets)
    /\ md' = [md EXCEPT !.ValidationStatus = "valid"]
    /\ at' = "done"
    /\ UNCHANGED <<opts, bundleFiles, edits, bytes>>

\* The provider replaces or removes a file of the bundle while it is loaded.
Edit ==
    /\ at \in {"manifest", "identity", "assets"}
    /\ edits < MaxEdits /\ edits' = edits + 1
    /\ \/ manifest' \in Manifests \ {manifest} /\ UNCHANGED lua
       \/ /\ \E f \in LuaFiles, c \in LuaContents :
                 c # lua[f] /\ lua' = [lua EXCEPT ![f] = c]
          /\ UNCHANGED manifest
    /\ UNCHANGED <<opts, isDir, at, bytes, md>>

LoaderNext ==
    \/ LoadBegin \/ LoadRoot \/ LoadManifest \/ LoadIdentity
    \/ LoadAsset \/ LoadDone \/ Edit

LoaderSpec == LoaderInit /\ [][LoaderNext]_loaderVars

-----------------------------------------------------------------------------
\* docs/PRD.md: metadata that is malformed, missing, stale, unreadable or of
\* another generation is never partially admitted.  Validate, which a consumer
\* calls, accepts what a load returned exactly when the load succeeded: no early
\* return leaves behind metadata that is complete enough to pass.
ValidatesIffValid ==
    at = "done" => (Validate(md, opts.gen) <=> md.ValidationStatus = "valid")

\* Whatever the provider writes meanwhile, the schema version the core is told
\* was read from the very manifest whose digest it is told, and that manifest
\* names no other plugin and no other generation.
IdentityFromDigest ==
    LET core == CoreDTO(md) IN
    core.SchemaVersion # "" =>
        \E m \in core.ManifestDigest :
            /\ m.schema = core.SchemaVersion
            /\ m.id \in {"", core.PluginID}
            /\ m.gen \in {{}, {core.PluginGeneration}}

\* Reference: the loads that must succeed, as one condition on the options and
\* the files.
Admissible(o, m, f) ==
    /\ o.id # "malformed" /\ o.gen > 0 /\ o.stamped /\ o.expected \in {0, o.gen}
    /\ o.root # "blank"
    /\ \/ o.manifest \in {"in", "absin"}
       \/ o.manifest = "blank" /\ o.name \in {"blank", "in", "absin"}
    /\ m.is = "file" /\ m.schema # "" /\ m.id \in {"", o.id} /\ m.gen \in {{}, {o.gen}}
    /\ \A i \in DOMAIN o.assets :
           o.assets[i].path \in {"in", "absin"} /\ f[o.assets[i].file].is = "file"

\* A load during which no file changes succeeds exactly when it must, and then
\* describes every file: the manifest, and each asset in the declared order.
QuietLoadIsExact ==
    at = "done" /\ edits = 0 =>
        /\ md.ValidationStatus = "valid" <=> isDir /\ Admissible(opts, manifest, lua)
        /\ md.ValidationStatus = "valid" =>
               /\ md.ManifestDigest = {manifest}
               /\ CoreDTO(md).LuaAssetDigests =
                      [i \in DOMAIN opts.assets |-> {lua[opts.assets[i].file]}]

\* docs/PRD.md: admin output redacts host-private or secret-like material.  At
\* whatever point a load gave up, none of the paths it left in the metadata is
\* shown to an admin as a place on the host.
AdminHidesPaths ==
    LET dto == AdminDTO(md, TRUE) IN
    {dto.BundleRootPath, dto.ManifestPath}
        \cup {dto.LuaAssets[i].Path : i \in DOMAIN dto.LuaAssets}
            \subseteq {"blank", "rel", "basename", "redacted"}
=============================================================================
