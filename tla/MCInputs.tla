------------------------------ MODULE MCInputs ------------------------------
(* What enters the system from outside: bundle files, provider diagnostics   *)
(* and the daemon's configuration.  The three never meet, so TLC explores    *)
(* them side by side: a behaviour exercises one of them and leaves the other *)
(* two in a fixed state in which they have no step.                          *)
EXTENDS BundleLoader, ProviderEvents, DaemonConfig

\* Load options: all identities, all ways to name root and manifest, all lists of
\* up to two assets, each family around one set of options that succeeds.
Base == [id |-> "p", gen |-> 1, expected |-> 1, stamped |-> TRUE, root |-> "abs",
         manifest |-> "blank", name |-> "blank",
         assets |-> <<[path |-> "in", file |-> "f"], [path |-> "absin", file |-> "g"]>>]
AssetLists ==
    {<<>>} \cup {<<[path |-> p, file |-> "f"]>> : p \in Declared}
    \cup {<<[path |-> p, file |-> "f"], [path |-> q, file |-> "g"]>> :
              p \in {"in", "absin"}, q \in Declared}
MCOptions ==
    {[Base EXCEPT !.id = i, !.gen = g, !.expected = e, !.stamped = s] :
         i \in {"p", "malformed"}, g \in 0..2, e \in 0..2, s \in BOOLEAN}
    \cup {[Base EXCEPT !.root = r, !.manifest = m, !.name = n, !.assets = <<>>] :
              r \in Texts, m \in Declared, n \in Declared}
    \cup {[Base EXCEPT !.root = r, !.assets = l] : r \in {"rel", "secret"}, l \in AssetLists}
MCManifests ==
    {NoManifest, [NoManifest EXCEPT !.is = "unreadable"], [NoManifest EXCEPT !.is = "file"]}
    \cup [is : {"file"}, schema : {"v1", "v2"}, id : {"", "q"}, gen : {{}, {0}, {1}}]
MCLuaContents ==
    [is : {"missing", "unreadable"}, body : {""}] \cup [is : {"file"}, body : {"x", "y"}]

\* Observations: every component, event and status; every text in every field and
\* every pair of fields; details two levels deep with keys of every kind.
Plain == [f \in Fields |-> IF f \in Checked \cup {"Level", "PluginID"} THEN "plain" ELSE "blank"]
Place(w, key, kind, texts) == [at |-> w, key |-> key, kind |-> kind, texts |-> texts]
Leaves(w, key) ==
    {{Place(w, key, "scalar", {})}} \cup {{Place(w, key, "string", {t})} : t \in ProviderText}
Nested(w, key) ==
    {{Place(w, key, "strings", {"plain", t})} : t \in ProviderText}
    \cup {{Place(w, key, "list", {})} \cup v : v \in Leaves(Append(w, 1), "blank")}
    \cup {{Place(w, key, n, {})} \cup v :
              n \in {"map", "struct"},
              v \in UNION {Leaves(Append(w, 1), k) : k \in {"plain", "unsafe", "path"}}}
Deep(w, key) ==
    {{Place(w, key, "list", {})} \cup v : v \in Nested(Append(w, 1), "blank")}
    \cup {{Place(w, key, "map", {})} \cup v : v \in Nested(Append(w, 1), "plain")}
DetailsUnder(k) == Leaves(<<1>>, k) \cup Nested(<<1>>, k) \cup Deep(<<1>>, k)
BaseObs == [idOk |-> TRUE, GenerationID |-> 1, DurationMS |-> 0, Status |-> "degraded",
            Component |-> "diagnostic", Event |-> "reported", Details |-> {}, text |-> Plain]
MCObservations ==
    {[BaseObs EXCEPT !.idOk = i, !.GenerationID = g, !.DurationMS = d] :
         i \in BOOLEAN, g \in 0..1, d \in {-1, 0}}
    \cup {[BaseObs EXCEPT !.Component = c, !.Event = e, !.Status = s,
                          !.text["Message"] = t] :
              c \in Components, e \in Names, s \in Names, t \in {"plain", "path"}}
    \cup {o \in {[BaseObs EXCEPT !.idOk = i, !.text[f] = t, !.text[g] = u] :
                     i \in BOOLEAN, f \in Fields, g \in Fields,
                     t \in ProviderText, u \in ProviderText} :
              o.idOk <=> o.text["PluginID"] \in {"plain", "unsafe"}}
    \cup {[BaseObs EXCEPT !.Event = e, !.Component = c, !.Details = d] :
              e \in {"reported", "plain"}, c \in {"blank", "diagnostic"},
              d \in UNION {DetailsUnder(k) : k \in {"plain", "unsafe", "path"}}}

\* Command lines: a flag that is not given has its default value.
File(d, t, ps) == [ok |-> TRUE, dir |-> d, timeout |-> t, plugins |-> ps]
Spec1(i, p) == [id |-> i, path |-> p]
Lists == {<<>>, <<Spec1("a", "exe")>>, <<Spec1("b", "exe"), Spec1("a", "exe")>>,
          <<Spec1("a", "exe"), Spec1("a", "exe")>>, <<Spec1("a", "exe"), Spec1("b", "noexec")>>,
          <<Spec1("b", "exe"), Spec1("", "exe")>>,
          <<Spec1("c", "exe"), Spec1("a", "exe"), Spec1("b", "exe")>>}
Files == {[File("", "", <<>>) EXCEPT !.ok = FALSE]}
         \cup {File(d, t, ps) : d \in {"", "r2"}, t \in {"", "ok", "bad"}, ps \in Lists}
MCCommands ==
    {c \in [explicit : SUBSET {"plugins", "plugin", "plugin-id", "runtime-dir", "dial-timeout"},
            dir : {"r1", "r2", ""}, list : Lists, spec : [id : {"a", "b"}, path : {"", "exe"}],
            file : {File("", "", <<>>)}] :
        /\ "plugins" \notin c.explicit => c.list = <<>>
        /\ "plugin" \notin c.explicit => c.spec.path = ""
        /\ "plugin-id" \notin c.explicit => c.spec.id = "a"
        /\ "runtime-dir" \notin c.explicit => c.dir = "r1"}
Given(flags, l, s) == [explicit |-> flags, dir |-> "r1", list |-> l, spec |-> s,
                       file |-> File("", "", <<>>)]
MCLaunches ==
    MCCommands
    \cup {[c EXCEPT !.file = f] : f \in Files,
              c \in {Given({}, <<>>, Spec1("a", "")),
                     Given({"plugin"}, <<>>, Spec1("a", "exe")),
                     Given({"plugins", "dial-timeout"}, <<Spec1("b", "exe")>>, Spec1("a", ""))}}

-----------------------------------------------------------------------------
LoaderOff ==
    /\ opts = Base /\ isDir = FALSE /\ manifest = NoManifest /\ bytes = NoManifest
    /\ lua = [f \in LuaFiles |-> [is |-> "missing", body |-> ""]]
    /\ edits = 0 /\ at = "off"
    /\ md = [PluginID |-> "p", PluginGeneration |-> 1, BundleRootPath |-> "blank",
             ManifestPath |-> "blank", ManifestDigest |-> {}, SchemaVersion |-> "",
             Stamped |-> TRUE, LuaAssets |-> <<>>, ValidationStatus |-> "",
             RedactedErrorCode |-> ""]
EventsOff ==
    obs = BaseObs /\ doing = "off" /\ event = NoEvent /\ accepted = {} /\ writes = 0
DaemonOff ==
    /\ phase = "none" /\ told = {} /\ dir = DefaultDir
    /\ todo = <<>> /\ managers = {} /\ launches = 0 /\ logs = [d \in Dirs |-> {}]
    /\ rotated = {} /\ asks = "no" /\ left = {} /\ found = {} /\ missed = {} /\ answer = {}

Init ==
    \/ LoaderInit /\ EventsOff /\ DaemonOff
    \/ LoaderOff /\ EventsInit /\ DaemonOff
    \/ LoaderOff /\ EventsOff /\ DaemonInit

Next ==
    \/ LoaderNext /\ UNCHANGED <<eventVars, daemonVars>>
    \/ EventsNext /\ UNCHANGED <<loaderVars, daemonVars>>
    \/ DaemonNext /\ UNCHANGED <<loaderVars, eventVars>>

Spec == Init /\ [][Next]_<<loaderVars, eventVars, daemonVars>>
=============================================================================
