--------------------------- MODULE ProviderEvents ---------------------------
(***************************************************************************)
(* The path of a provider's diagnostic from the plugin that reports it to  *)
(* the operator who reads it: ProviderEvent checks the observation and     *)
(* makes an event of it (internal/eventlog/provider.go), Logger writes the *)
(* event as JSON (pkg/plugin/logging.go), RedactForDisplay decides what of *)
(* the line is shown (internal/eventlog/read.go).                          *)
(*                                                                         *)
(* safeProviderDetails copies the outermost map only.  What lies deeper is *)
(* still the plugin's own memory while the event waits to be written, and  *)
(* other goroutines of the plugin may write to it.  A plugin may also pass *)
(* an event to Logger.Event, which checks nothing.                         *)
(*                                                                         *)
(* A text is told apart by what the checks see in it: "blank" is empty or  *)
(* white space, "unsafe" holds one of unsafeDetailMarkers, "path" is an    *)
(* absolute path of either style.                                          *)
(***************************************************************************)
EXTENDS Integers, Sequences

CONSTANTS
    Observations, \* what plugins pass to ProviderDiagnostic or Logger.Event
    MaxWrites     \* bound: writes of the plugin to the details it handed over

VARIABLES
    doing,      \* where the report stands
    obs,        \* the ProviderObservation, or the LogEvent
    event,      \* the Event made of it, then the Event read back
    accepted,   \* history: the event ProviderEvent returned, if it did
    writes      \* writes to the details since then

eventVars == <<doing, obs, event, accepted, writes>>

-----------------------------------------------------------------------------
ProviderText == {"blank", "plain", "control", "unsafe", "path"}
Required == {"CapabilityID", "OperationID", "CorrelationID"}
Checked == Required \cup {"ErrorClass", "DegradedReason", "Message"}
\* The fields RedactForDisplay covers, and all of the texts of an Event, which
\* FormatText and WriteEventsJSON print, next to its Component, Event and Status.
Redacts == Checked \cup {"SocketPath", "Error", "Reason"}
Fields == Redacts \cup {"Level", "PluginID", "Method"}

providerEventStatus ==
    [started |-> "started", succeeded |-> "succeeded", failed |-> "failed",
     degraded |-> "degraded", unavailable |-> "unavailable", rejected |-> "rejected"]
providerStatuses == DOMAIN providerEventStatus
BoundaryEvents == providerStatuses \ {"rejected"}
DiagnosticEvents == {"reported", "rejected"}

\* A component, an event or a status is one the code names, or any other text.
Components == {"boundary", "diagnostic"} \cup ProviderText
Names == providerStatuses \cup DiagnosticEvents \cup ProviderText

UnsafeProviderText(text) == text = "unsafe"
looksLikeProviderPrivatePath(text) == text = "path"
Hidden(text) == UnsafeProviderText(text) \/ looksLikeProviderPrivatePath(text)

\* A check of the fields that forgets about paths.
MarkersOnly(text) == text = "blank" \/ (text # "control" /\ ~UnsafeProviderText(text))
validateSafeProviderText(text) == text = "blank" \/ (text # "control" /\ ~Hidden(text))
requireProviderField(text) == text # "blank" /\ validateSafeProviderText(text)

validateProviderEventComponent(component, name, status) ==
    \/ name \in BoundaryEvents /\ component = "boundary"
           /\ status = providerEventStatus[name]
    \/ name = "reported" /\ component = "diagnostic"
    \/ name = "rejected" /\ component = "diagnostic" /\ status = "rejected"

\* Details: a map of any depth, as the set of the places in it.  A place is found
\* at a sequence of positions, has a key, "blank" in a list, and holds a
\* scalar, a string, a []string, a []any, a map or another Go value, that is a
\* struct; texts are the strings it holds itself.
Kinds == {"scalar", "string", "strings", "list", "map", "struct"}
Places ==
    {p \in [at : Seq(Nat), key : ProviderText, kind : Kinds, texts : SUBSET ProviderText] :
        p.kind \notin {"string", "strings"} => p.texts = {}}

\* What a plugin can pass, by the types of ProviderObservation and LogEvent.  A
\* PluginID that matches providerPluginIDPattern (idOk) is no path, for want of
\* separators, but may hold a marker.
ASSUME EventConstants ==
    /\ MaxWrites \in Nat
    /\ \A o \in Observations :
          /\ o.Component \in Components /\ {o.Event, o.Status} \subseteq Names
          /\ o.text \in [Fields -> ProviderText] /\ o.Details \subseteq Places
          /\ o.idOk => o.text["PluginID"] \in {"plain", "unsafe"}

String(at, key, t) == [at |-> at, key |-> key, kind |-> "string", texts |-> {t}]

\* The two call each other down to the last place, and one refusal refuses all.
validateProviderDetailValue(p) ==
    \/ p.kind \in {"scalar", "list", "map"}
    \/ p.kind \in {"string", "strings"} /\ \A t \in p.texts : ~Hidden(t)
safeProviderDetails(details) ==
    \A p \in details : ~UnsafeProviderText(p.key) /\ validateProviderDetailValue(p)

validateProviderObservation(o) ==
    /\ o.idOk /\ o.GenerationID # 0
    /\ \A f \in Required : requireProviderField(o.text[f])
    /\ \A f \in Checked : validateSafeProviderText(o.text[f])
    /\ o.DurationMS >= 0
    /\ o.Status \in providerStatuses
    /\ validateProviderEventComponent(o.Component, o.Event, o.Status)

\* json.Marshal, then json.Unmarshal into map[string]any.
AsJSON(p) ==
    CASE p.kind = "strings" -> [p EXCEPT !.kind = "list", !.texts = {}]
      [] p.kind = "struct"  -> [p EXCEPT !.kind = "map"]
      [] OTHER              -> p
ThroughJSON(details) ==
    {AsJSON(p) : p \in details}
    \cup UNION {{String(Append(p.at, 0), "blank", t) : t \in p.texts} :
                    p \in {q \in details : q.kind = "strings"}}

\* Redaction that goes by the component alone.
ByComponent(e) == e.Component \in {"boundary", "diagnostic"}
isProviderObservationEvent(e) ==
    e.Component \in {"boundary", "diagnostic"} \/ e.Event \in BoundaryEvents \cup DiagnosticEvents

\* {"redacted": true}
Redacted == {[at |-> <<1>>, key |-> "plain", kind |-> "scalar", texts |-> {}]}
RedactForDisplay(e) ==
    IF ~isProviderObservationEvent(e) THEN e
    ELSE [e EXCEPT !.text = [f \in Fields |-> IF f \in Redacts /\ Hidden(@[f])
                                              THEN "redacted" ELSE @[f]],
                   !.Details = IF safeProviderDetails(@) THEN @ ELSE Redacted]

-----------------------------------------------------------------------------
NoEvent == [Component |-> "blank", Event |-> "blank", Status |-> "blank", Details |-> {},
            text |-> [f \in Fields |-> "blank"]]
EventOf(o) == [Component |-> o.Component, Event |-> o.Event, Status |-> o.Status,
               Details |-> o.Details, text |-> o.text]

EventsInit ==
    /\ obs \in Observations
    /\ doing = "report" /\ event = NoEvent /\ accepted = {} /\ writes = 0

\* A ProviderObservation has no more than the fields ProviderEvent checks, a
\* PluginID and a Level, which is LogLevelInfo in the only call.
IsObservation(o) ==
    /\ \A f \in {"SocketPath", "Error", "Reason", "Method"} : o.text[f] = "blank"
    /\ o.text["Level"] = "plain"

\* Logger.ProviderDiagnostic up to its call of Write: the error of ProviderEvent
\* is returned to the plugin, or there is an event.  It passes one component and one
\* event; here they are any, as ProviderEvent allows.
ProviderEvent ==
    /\ doing = "report"
    /\ IsObservation(obs)
    /\ \/ /\ validateProviderObservation(obs) /\ safeProviderDetails(obs.Details)
          /\ event' = EventOf(obs)
          /\ accepted' = {EventOf(obs)}
          /\ doing' = "write"
       \/ /\ ~(validateProviderObservation(obs) /\ safeProviderDetails(obs.Details))
          /\ doing' = "refused"
          /\ UNCHANGED <<event, accepted>>
    /\ UNCHANGED <<obs, writes>>

\* Logger.Event: the defaults for the component, the level and the plugin's own id
\* (an empty text gets one, white space does not), no check.
Filled(text, defaults) == {text} \cup (IF text = "blank" THEN defaults ELSE {})
LoggerEvent ==
    /\ doing = "report"
    /\ \E component \in Filled(obs.Component, {"plain"}),
          level \in Filled(obs.text["Level"], {"plain"}),
          id \in Filled(obs.text["PluginID"], {"plain", "unsafe"}) :
          event' = [EventOf(obs) EXCEPT !.Component = component,
                       !.text = [@ EXCEPT !["Level"] = level, !["PluginID"] = id]]
    /\ doing' = "write"
    /\ UNCHANGED <<obs, accepted, writes>>

\* A goroutine of the plugin stores a string to a map or slice inside the details:
\* over what was there, as an element of a []string, or under a new key of a map.
Within(at, place) == Len(place) <= Len(at) /\ SubSeq(at, 1, Len(place)) = place
PluginStores(key, text) ==
    /\ doing = "write" /\ writes < MaxWrites /\ writes' = writes + 1
    /\ \E p \in event.Details :
          \/ /\ Len(p.at) > 1
             /\ event' = [event EXCEPT !.Details =
                   {q \in @ : ~Within(q.at, p.at)} \cup {String(p.at, p.key, text)}]
          \/ /\ p.kind = "strings"
             /\ event' = [event EXCEPT !.Details = (@ \ {p}) \cup {[p EXCEPT !.texts = {text}]}]
          \/ /\ p.kind = "map"
             /\ event' = [event EXCEPT !.Details =
                   @ \cup {String(Append(p.at, 0), key, text)}]
    /\ UNCHANGED <<doing, obs, accepted>>

\* Logger.Write, and later the scan of a reader.
WriteLine ==
    /\ doing = "write" /\ doing' = "line"
    /\ event' = [event EXCEPT !.Details = ThroughJSON(@)]
    /\ UNCHANGED <<obs, accepted, writes>>

Display ==
    /\ doing = "line" /\ doing' = "shown"
    /\ event' = RedactForDisplay(event)
    /\ UNCHANGED <<obs, accepted, writes>>

EventsNext ==
    \/ ProviderEvent \/ LoggerEvent \/ WriteLine \/ Display
    \/ \E key, text \in ProviderText : PluginStores(key, text)

EventsSpec == EventsInit /\ [][EventsNext]_eventVars

-----------------------------------------------------------------------------
\* docs/implementation-spec.md: operator display redacts unsafe provider material.
\* Whichever way a provider event was written, and whatever the plugin stored to its
\* details on the way, what is shown holds no marker and no host path in the nine
\* fields RedactForDisplay covers and in the detail values at any depth, and no
\* marker in a detail key.  The other texts are printed as they are: they hold
\* neither when the event came through ProviderEvent, except that a plugin id may
\* hold a marker.  Nothing is said of them in an event a plugin passed to
\* Logger.Event, nor of a detail key that is a path, which safeProviderDetails
\* lets pass.
DisplayRedacts ==
    doing = "shown" =>
        /\ (event.Component \in {"boundary", "diagnostic"}
            \/ event.Event \in BoundaryEvents \cup DiagnosticEvents) =>
              /\ \A f \in Redacts : event.text[f] \notin {"unsafe", "path"}
              /\ \A p \in event.Details :
                    p.texts \cap {"unsafe", "path"} = {} /\ p.key # "unsafe"
        /\ accepted # {} =>
              /\ {event.Component, event.Event, event.Status,
                  event.text["Level"], event.text["Method"]} \cap {"unsafe", "path"} = {}
              /\ event.text["PluginID"] # "path"

\* Accepting and showing agree: an event ProviderEvent let through is shown whole,
\* after the round trip through JSON that turns its Go types into others, unless
\* the plugin wrote to it in between.
AcceptedIsShown ==
    doing = "shown" /\ writes = 0 =>
        \A e \in accepted : event = [e EXCEPT !.Details = ThroughJSON(@)]

\* What holds of a report on its way: ProviderEvent accepted nothing but a valid
\* observation, of which nothing but the details can change, and until the plugin
\* writes to them, that is what is written and shown.
EventType ==
    [Component : Components, Event : Names, Status : Names, Details : SUBSET Places,
     text : [Fields -> ProviderText \cup {"redacted"}]]
WrittenForm(e) == [e EXCEPT !.Details = ThroughJSON(@)]
SameTexts(e, o) ==
    /\ e.Component = o.Component /\ e.Event = o.Event /\ e.Status = o.Status
    /\ e.text = o.text
EventsInv ==
    /\ doing \in {"report", "refused", "write", "line", "shown"}
    /\ obs \in Observations /\ event \in EventType /\ writes \in Nat
    /\ doing \in {"report", "refused"} => accepted = {}
    /\ accepted # {} =>
          /\ accepted = {EventOf(obs)}
          /\ validateProviderObservation(obs) /\ safeProviderDetails(obs.Details)
          /\ IsObservation(obs) /\ SameTexts(event, obs)
    /\ accepted # {} /\ writes = 0 =>
          event = IF doing = "write" THEN EventOf(obs) ELSE WrittenForm(EventOf(obs))
    /\ DisplayRedacts
=============================================================================
