-------------------------- MODULE DeclaredBundles --------------------------
(***************************************************************************)
(* The provider bundle metadata a manager exposes.  Its configuration      *)
(* carries one declaration, a map of declarations by generation, or both,  *)
(* cloned by NewHost and New and never changed afterwards; State and       *)
(* CoreState expose the one that is bound to the generation in             *)
(* Manager.state (internal/kernel/manager.go).                             *)
(***************************************************************************)
EXTENDS PluginManager

CONSTANTS
    PluginID,  \* Config.PluginID
    Static,    \* Config.ProviderBundleMetadata, as a set of at most one
    Refresh    \* Config.ProviderBundleMetadataRefresh.ByGeneration, [] if nil

\* A declaration is told apart by the plugin and the generation it is about.
BoundTo(m, gen) == m.plugin = PluginID /\ m.gen = gen

\* generationBoundProviderBundleMetadataLocked: the entry for this generation,
\* or, if there is none or it is about something else, the static one.
generationBound(gen) ==
    LET refreshed == {m \in {Refresh[g] : g \in DOMAIN Refresh \cap {gen}} : BoundTo(m, gen)}
    IN  IF refreshed # {} THEN refreshed ELSE {m \in Static : BoundTo(m, gen)}

Exposed == generationBound(state.GenerationID)

-----------------------------------------------------------------------------
\* docs/PRD.md: restart invalidates prior bundle metadata.  Once a start has
\* moved on to a later generation, metadata of an earlier one is not exposed any
\* more.
PriorBundlesStayInvalid ==
    [][\A m \in Exposed' : m.gen >= state.GenerationID]_vars
=============================================================================
