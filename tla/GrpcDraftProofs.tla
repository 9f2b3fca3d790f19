-------------------------- MODULE GrpcDraftProofs --------------------------
(***************************************************************************)
(* What GrpcDraft keeps whatever is typed, chosen, loaded and run, for any *)
(* URLs, paths and values and any number of edits and calls; and, as one   *)
(* specification, what the parts that MCExchanges puts beside it keep.     *)
(***************************************************************************)
EXTENDS MCExchanges, SequenceTheorems, TLAPS

Assumed == Relative \in Paths /\ \A u, v : NoTarget # <<u, v>>

(***************************************************************************)
(* A definition that loads or is loaded describes what it connects to, or  *)
(* the file it is read from.                                               *)
(***************************************************************************)
Describes(d) ==
  \/ d.source[1] = "url" /\ d.target # NoTarget /\ d.of = d.target
  \/ d.source[1] = "path" /\ d.target = NoTarget
       /\ d.of = <<"file", IF d.source[2] = Relative THEN Absolute ELSE d.source[2]>>

DefinitionFits(d) ==
  /\ d = [at |-> d.at, source |-> d.source, target |-> d.target, of |-> d.of]
  /\ d.at \in {"idle", "debouncing", "loading", "loaded", "failed"}
  /\ d.at \in {"idle", "debouncing"} => d.source = NoSource
  /\ d.at \in {"loading", "loaded"} => Describes(d)

Fresh(d) ==
  request.reflects /\ d.at \in {"loading", "loaded", "failed"} => d.source = Source(request)

(***************************************************************************)
(* A starting call keeps the settings it was invoked with, and what it     *)
(* loaded or loads is from those settings but for the URL.                 *)
(***************************************************************************)
StartFits ==
  /\ start = [at |-> start.at, request |-> start.request, source |-> start.source,
              loaded |-> start.loaded, sends |-> start.sends, with |-> start.with]
  /\ start.request = [reflects |-> start.request.reflects, url |-> start.request.url,
                      path |-> start.request.path]
  /\ start.at \in {"none", "script", "loading", "opening"}
  /\ start.at \in {"script", "loading"} =>
       /\ start.request.reflects \in BOOLEAN
       /\ start.request.reflects => start.source[1] = "url"
       /\ ~start.request.reflects => start.source = <<"path", start.request.path>>
       /\ DefinitionFits(start.loaded)
  /\ start.at = "script" =>
       (start.loaded.at = "loaded" => start.loaded.source = start.source)
  /\ start.at = "loading" =>
       /\ start.loaded.at = "loading" /\ start.sends = start.loaded.of
       /\ start.request.reflects => start.loaded.source[1] = "url"
       /\ ~start.request.reflects => start.loaded.source = start.source
  /\ start.at = "opening" => start.with = start.sends

IInv ==
  /\ TypeOK
  /\ DefinitionFits(definition)
  /\ StartFits
  /\ Fresh(definition)
  /\ AwaitingIsServed

Requests == [reflects : BOOLEAN, url : {""} \union Urls, path : {""} \union Paths]

\* Settings, the URL of which may be any.
Settings(r) ==
  r.reflects \in BOOLEAN /\ r = [reflects |-> r.reflects, url |-> r.url, path |-> r.path]

-----------------------------------------------------------------------------
(***************************************************************************)
(* A load that begins is one of the settings it is begun with.             *)
(***************************************************************************)
LEMMA LoadingFits ==
  ASSUME Assumed, NEW r, Settings(r), NEW v
  PROVE  /\ DefinitionFits(Loading(r, v))
         /\ Loading(r, v).at = "loading" /\ Loading(r, v).source = Source(r)
         /\ Loading(r, v).of = Services(r, v) /\ Loading(r, v).target = Target(r, v)
BY DEF Assumed, Settings, DefinitionFits, Describes, Loading, Source, Target, Services

LEMMA NoDefinitionFits ==
  /\ DefinitionFits(NoDefinition) /\ NoDefinition.at = "idle"
  /\ DefinitionFits(Debouncing) /\ Debouncing.at = "debouncing"
BY DEF DefinitionFits, NoDefinition, Debouncing

\* No settings are those of a definition that is not there.
LEMMA SourcesAreSome ==
  ASSUME NEW r \in Requests
  PROVE  Source(r) # NoSource
BY DEF Requests, Source, NoSource

(***************************************************************************)
(* load_definition() leaves a definition that fits and is fresh, and one   *)
(* that loads for an Invoke that goes on waiting.                          *)
(***************************************************************************)
LEMMA LoadKeeps ==
  ASSUME Assumed, NEW r \in Requests, NEW d, DefinitionFits(d), NEW force \in BOOLEAN,
         Load(r, d, force)
  PROVE  /\ DefinitionFits(definition')
         /\ definition'.at \in {"loading", "loaded", "failed"} => definition'.source = Source(r)
         /\ HasSource(r) =>
              \/ definition'.at = "loading"
              \/ ~force /\ definition' = d /\ IsFor(d, r) /\ d.at \in {"loading", "loaded", "failed"}
<1>1. CASE ~HasSource(r)
  BY <1>1, NoDefinitionFits DEF Load
<1>2. CASE HasSource(r) /\ ~force /\ IsFor(d, r)
  <2>1. definition' = d /\ d.source = Source(r)
    BY <1>2 DEF Load, IsFor
  <2>2. d.at \in {"loading", "loaded", "failed"}
    BY <2>1, SourcesAreSome DEF DefinitionFits
  <2> QED BY <1>2, <2>1, <2>2
<1>3. CASE HasSource(r) /\ (force \/ ~IsFor(d, r))
  BY <1>3, LoadingFits DEF Load, Requests, Settings
<1> QED BY <1>1, <1>2, <1>3

(***************************************************************************)
(* The requests of the window and of the next state.                       *)
(***************************************************************************)
LEMMA RequestsOK == ASSUME TypeOK PROVE request \in Requests /\ value \in Values
BY DEF TypeOK, Requests

(***************************************************************************)
(* invoke() on a definition that fits: a call starts with its services, or *)
(* waits for a definition that loads.                                      *)
(***************************************************************************)
LEMMA InvokesKeeps ==
  ASSUME Assumed, TypeOK, StartFits, start.at = "none",
         NEW d, DefinitionFits(d), Fresh(d), Invokes(d), UNCHANGED <<request, value>>
  PROVE  /\ DefinitionFits(definition') /\ Fresh(definition)'
         /\ StartFits'
         /\ call' \in {"idle", "awaiting", "starting"}
         /\ (start'.at = "none") = (call' # "starting")
         /\ AwaitingIsServed'
<1>0. request \in Requests /\ value \in Values
  BY RequestsOK
<1>10. /\ request.reflects \in BOOLEAN
       /\ request = [reflects |-> request.reflects, url |-> request.url, path |-> request.path]
  BY <1>0 DEF Requests
<1>11. /\ request.reflects => Source(request) = <<"url", request.url>> /\ Source(request)[1] = "url"
       /\ ~request.reflects => /\ Source(request) = <<"path", request.path>>
                               /\ Source(request)[1] = "path" /\ Source(request)[2] = request.path
  BY <1>10 DEF Source
<1>12. /\ request.reflects => /\ Target(request, value) # NoTarget
                              /\ Services(request, value) = Target(request, value)
       /\ ~request.reflects =>
            /\ Target(request, value) = NoTarget
            /\ Services(request, value) =
                 <<"file", IF request.path = Relative THEN Absolute ELSE request.path>>
  BY <1>10 DEF Target, Services, Assumed
<1>1. CASE call' = "idle" /\ definition' = d /\ UNCHANGED start
  BY <1>1 DEF Fresh, StartFits, DefinitionFits, AwaitingIsServed, Describes, Source
<1>2. CASE HasSource(request) /\ InvokeScripted(d)
  <2>1. /\ call' = "starting" /\ definition' = d
        /\ start'.at = "script" /\ start'.request = request /\ start'.source = Source(request)
        /\ start'.loaded = (IF IsCurrent(d) THEN d ELSE NoDefinition)
        /\ start' = [at |-> start'.at, request |-> start'.request, source |-> start'.source,
                     loaded |-> start'.loaded, sends |-> start'.sends, with |-> start'.with]
    BY <1>2 DEF InvokeScripted, NoStart
  <2>2. DefinitionFits(start'.loaded)
    BY <2>1, NoDefinitionFits
  <2>3. start'.loaded.at = "loaded" => start'.loaded.source = start'.source
    BY <2>1, NoDefinitionFits DEF IsCurrent, IsFor
  <2>4. /\ start'.request.reflects \in BOOLEAN
        /\ start'.request = [reflects |-> start'.request.reflects, url |-> start'.request.url,
                             path |-> start'.request.path]
        /\ start'.request.reflects => start'.source[1] = "url"
        /\ ~start'.request.reflects => start'.source = <<"path", start'.request.path>>
    <3>1. start'.request = request /\ start'.source = Source(request)
      BY <2>1
    <3> QED BY <1>10, <1>11, <3>1
  <2>5. StartFits'
    BY <2>1, <2>2, <2>3, <2>4 DEF StartFits, DefinitionFits, Describes
  <2> QED BY <2>1, <2>5 DEF Fresh, Source, AwaitingIsServed
<1>3. CASE Awaits(d)
  <2>1. call' = "awaiting" /\ UNCHANGED start /\ Load(request, d, TargetChanged(d) \/ d.at = "failed")
    BY <1>3 DEF Awaits
  <2>2. HasSource(request)
    BY <1>1, <1>3 DEF Invokes, Awaits, InvokeScripted
  <2>3. TargetChanged(d) \in BOOLEAN
    BY DEF TargetChanged
  <2>4. /\ DefinitionFits(definition')
        /\ definition'.at \in {"loading", "loaded", "failed"} => definition'.source = Source(request)
        /\ \/ definition'.at = "loading"
           \/ /\ ~TargetChanged(d) /\ d.at # "failed" /\ definition' = d /\ IsFor(d, request)
              /\ d.at \in {"loading", "loaded", "failed"}
    BY <1>0, <2>1, <2>2, <2>3, LoadKeeps
  <2>5. definition'.at = "loading"
    BY <1>3, <2>4 DEF Awaits, IsCurrent
  <2> QED BY <2>1, <2>4, <2>5 DEF Fresh, Source, StartFits, DefinitionFits, Describes, AwaitingIsServed
<1>4. CASE InvokesDirectly(d)
  <2>1. /\ call' = "starting" /\ definition' = d
        /\ start'.at = "opening" /\ start'.request = request
        /\ start'.sends = Services(request, value) /\ start'.with = d.of
        /\ start' = [at |-> start'.at, request |-> start'.request, source |-> start'.source,
                     loaded |-> start'.loaded, sends |-> start'.sends, with |-> start'.with]
    BY <1>4 DEF InvokesDirectly, NoStart
  <2>2. d.at = "loaded" /\ d.source = Source(request) /\ d.target = Target(request, value)
    BY <1>4 DEF InvokesDirectly, IsCurrent, IsFor, TargetChanged
  <2>3. d.of = Services(request, value)
    <3>1. Describes(d)
      BY <2>2 DEF DefinitionFits
    <3>2. CASE request.reflects
      <4>1. d.source[1] = "url" /\ d.target # NoTarget
        BY <1>11, <1>12, <2>2, <3>2
      <4>2. d.of = d.target
        BY <3>1, <4>1 DEF Describes
      <4> QED BY <1>12, <2>2, <3>2, <4>2
    <3>3. CASE ~request.reflects
      <4>1. d.source[2] = request.path /\ d.target = NoTarget
        BY <1>11, <1>12, <2>2, <3>3
      <4>2. d.of = <<"file", IF d.source[2] = Relative THEN Absolute ELSE d.source[2]>>
        BY <3>1, <4>1 DEF Describes
      <4> QED BY <1>12, <3>3, <4>1, <4>2
    <3> QED BY <1>10, <3>2, <3>3
  <2>4. start'.request = [reflects |-> start'.request.reflects, url |-> start'.request.url,
                          path |-> start'.request.path]
    BY <1>0, <2>1 DEF Requests
  <2>5. StartFits'
    BY <2>1, <2>3, <2>4 DEF StartFits
  <2> QED BY <2>1, <2>5 DEF Fresh, Source, AwaitingIsServed
<1> QED BY <1>1, <1>2, <1>3, <1>4 DEF Invokes

-----------------------------------------------------------------------------
(***************************************************************************)
(* A call that is dropped waited; one that goes on waiting has a source.   *)
(***************************************************************************)
LEMMA DropKeeps ==
  ASSUME NEW r, DropsPendingInvoke(r)
  PROVE  /\ call' = call \/ (call = "awaiting" /\ call' = "idle")
         /\ call' = "awaiting" => call = "awaiting" /\ HasSource(r)
BY DEF DropsPendingInvoke

(***************************************************************************)
(* load_definition() of the settings the request has from now on.          *)
(***************************************************************************)
LEMMA LoadDefinitionKeeps ==
  ASSUME Assumed, IInv, NEW r \in Requests, NEW force \in BOOLEAN,
         LoadDefinition(r, force), request' = r, UNCHANGED <<start, value>>
  PROVE  IInv'
<1>1. /\ DefinitionFits(definition')
      /\ definition'.at \in {"loading", "loaded", "failed"} => definition'.source = Source(r)
      /\ HasSource(r) =>
           \/ definition'.at = "loading"
           \/ definition' = definition /\ definition.at \in {"loading", "loaded", "failed"}
  BY LoadKeeps DEF LoadDefinition, IInv
<1>2. /\ call' = call \/ (call = "awaiting" /\ call' = "idle")
      /\ call' = "awaiting" => call = "awaiting" /\ HasSource(r)
  BY DropKeeps DEF LoadDefinition
<1>3. TypeOK'
  BY <1>1, <1>2 DEF IInv, TypeOK, Requests, DefinitionFits
<1>4. AwaitingIsServed'
  BY <1>1, <1>2 DEF IInv, AwaitingIsServed
<1>5. StartFits'
  BY DEF IInv, StartFits, DefinitionFits, Describes
<1>6. DefinitionFits(definition)' /\ Fresh(definition)'
  BY <1>1 DEF Fresh, DefinitionFits, Describes, Source
<1> QED BY <1>3, <1>4, <1>5, <1>6 DEF IInv

(***************************************************************************)
(* A URL that is typed.                                                    *)
(***************************************************************************)
LEMMA ScheduleKeeps ==
  ASSUME Assumed, IInv, NEW r \in Requests, r.reflects = request.reflects,
         ScheduleReflection(r), request' = r, UNCHANGED <<start, value>>
  PROVE  IInv'
<1>1. CASE ~r.reflects \/ IsFor(definition, r)
  <2>1. UNCHANGED <<definition, call>>
    BY <1>1 DEF ScheduleReflection
  <2>2. Fresh(definition)'
    BY <1>1, <2>1 DEF Fresh, IsFor, Source
  <2>3. TypeOK' /\ AwaitingIsServed'
    BY <2>1 DEF IInv, TypeOK, Requests, AwaitingIsServed
  <2>4. DefinitionFits(definition)'
    BY <2>1 DEF IInv, DefinitionFits, Describes
  <2>5. StartFits'
    BY DEF IInv, StartFits, DefinitionFits, Describes
  <2> QED BY <2>2, <2>3, <2>4, <2>5 DEF IInv
<1>2. CASE ~(~r.reflects \/ IsFor(definition, r))
  <2>1. /\ definition' = (IF HasSource(r) THEN Debouncing ELSE NoDefinition)
        /\ DropsPendingInvoke(r)
    BY <1>2 DEF ScheduleReflection
  <2>2. /\ call' = call \/ (call = "awaiting" /\ call' = "idle")
        /\ call' = "awaiting" => call = "awaiting" /\ HasSource(r)
    BY <2>1, DropKeeps
  <2>3. /\ DefinitionFits(definition') /\ definition'.at \in {"idle", "debouncing"}
        /\ HasSource(r) => definition'.at = "debouncing"
    BY <2>1, NoDefinitionFits
  <2>4. TypeOK' /\ AwaitingIsServed'
    BY <2>2, <2>3 DEF IInv, TypeOK, Requests, AwaitingIsServed
  <2>5. StartFits' /\ DefinitionFits(definition)' /\ Fresh(definition)'
    BY <2>3 DEF IInv, StartFits, DefinitionFits, Describes, Fresh, Source
  <2> QED BY <2>4, <2>5 DEF IInv
<1> QED BY <1>1, <1>2

(***************************************************************************)
(* Where the request, its definition and its starting call stay.           *)
(***************************************************************************)
LEMMA RestKeeps ==
  ASSUME IInv, UNCHANGED <<request, definition>>, value' \in Values,
         \/ UNCHANGED <<call, start>>
         \/ call' \in {"idle", "open", "closed"} /\ start' = NoStart
  PROVE  IInv'
<1>1. StartFits' /\ ((start.at = "none") = (call # "starting"))'
  <2>1. CASE UNCHANGED <<call, start>>
    BY <2>1 DEF IInv, TypeOK, StartFits, DefinitionFits, Describes
  <2>2. CASE call' \in {"idle", "open", "closed"} /\ start' = NoStart
    <3>1. /\ start' = [at |-> start'.at, request |-> start'.request, source |-> start'.source,
                       loaded |-> start'.loaded, sends |-> start'.sends, with |-> start'.with]
          /\ start'.request = [reflects |-> start'.request.reflects, url |-> start'.request.url,
                               path |-> start'.request.path]
          /\ start'.at = "none"
      BY <2>2 DEF NoStart
    <3> QED BY <2>2, <3>1 DEF StartFits
  <2> QED BY <2>1, <2>2
<1>2. TypeOK' /\ AwaitingIsServed'
  BY <1>1 DEF IInv, TypeOK, AwaitingIsServed, StartFits
<1>3. DefinitionFits(definition)' /\ Fresh(definition)'
  BY DEF IInv, DefinitionFits, Describes, Fresh, Source
<1> QED BY <1>1, <1>2, <1>3 DEF IInv

-----------------------------------------------------------------------------
(***************************************************************************)
(* The script of a starting call ends: the call opens with the definition  *)
(* it was invoked with only if that describes where the script leaves it.  *)
(***************************************************************************)
LEMMA ScriptEndKeeps ==
  ASSUME Assumed, IInv, NEW u, NEW v, ScriptEnds(u, v)
  PROVE  IInv'
<1> DEFINE r == [start.request EXCEPT !.url = u]
<1>1. /\ start.at = "script" /\ UNCHANGED <<request, value, definition, call>>
      /\ StartFits /\ call = "starting"
  BY DEF ScriptEnds, Window, IInv, TypeOK
<1>2. /\ Settings(r) /\ r.reflects = start.request.reflects /\ r.path = start.request.path
      /\ r.reflects => start.source[1] = "url"
      /\ ~r.reflects => start.source = <<"path", r.path>>
      /\ DefinitionFits(start.loaded)
      /\ start.loaded.at = "loaded" => start.loaded.source = start.source
  BY <1>1 DEF StartFits, Settings
<1>3. /\ start'.request = r /\ start'.sends = Services(r, v) /\ start'.source = start.source
      /\ start' = [at |-> start'.at, request |-> start'.request, source |-> start'.source,
                   loaded |-> start'.loaded, sends |-> start'.sends, with |-> start'.with]
      /\ \/ /\ Fits(Target(r, v))
            /\ start'.at = "opening" /\ start'.with = start.loaded.of
         \/ start'.at = "loading" /\ start'.loaded = Loading(r, v)
  BY <1>1 DEF ScriptEnds, StartFits
<1> HIDE DEF r
<1>4. StartFits' /\ start'.at # "none"
  <2>1. CASE Fits(Target(r, v)) /\ start'.at = "opening" /\ start'.with = start.loaded.of
    <3>1. Describes(start.loaded) /\ start.loaded.target = Target(r, v)
          /\ start.loaded.source = start.source
      BY <1>2, <2>1 DEF Fits, DefinitionFits
    <3>2. start.loaded.of = Services(r, v)
      BY <1>2, <3>1 DEF Describes, Services, Target, Settings, Assumed
    <3> QED BY <1>2, <1>3, <2>1, <3>2 DEF StartFits, Settings
  <2>2. CASE start'.at = "loading" /\ start'.loaded = Loading(r, v)
    <3>1. /\ DefinitionFits(start'.loaded) /\ start'.loaded.at = "loading"
          /\ start'.loaded.source = Source(r) /\ start'.loaded.of = Services(r, v)
      BY <1>2, <2>2, LoadingFits
    <3>2. /\ r.reflects => Source(r)[1] = "url"
          /\ ~r.reflects => Source(r) = <<"path", r.path>>
      BY DEF Source
    <3> QED BY <1>2, <1>3, <2>2, <3>1, <3>2 DEF StartFits, Settings, DefinitionFits, Describes
  <2> QED BY <1>3, <2>1, <2>2
<1>5. TypeOK' /\ AwaitingIsServed'
  BY <1>1, <1>4 DEF IInv, TypeOK, StartFits, AwaitingIsServed
<1>6. DefinitionFits(definition)' /\ Fresh(definition)'
  BY <1>1 DEF IInv, DefinitionFits, Describes, Fresh, Source
<1> QED BY <1>4, <1>5, <1>6 DEF IInv

\* A definition that is kept with another source.
LEMMA RenamedIs ==
  ASSUME NEW e, DefinitionFits(e), NEW s, NEW d,
         d = [e EXCEPT !.at = "loaded", !.source = s]
  PROVE  d = [at |-> "loaded", source |-> s, target |-> e.target, of |-> e.of]
BY DEF DefinitionFits

(***************************************************************************)
(* The definition of a starting call is loaded, and the tab keeps it when  *)
(* the settings are still those of the call.                               *)
(***************************************************************************)
LEMMA StartLoadKeeps ==
  ASSUME Assumed, IInv, StartLoads
  PROVE  IInv'
<1>1. /\ start.at = "loading" /\ UNCHANGED <<request, value, call>> /\ KeepDefinition
      /\ start' = [start EXCEPT !.at = "opening", !.with = start.loaded.of]
      /\ StartFits /\ call = "starting"
  BY DEF StartLoads, Window, IInv, TypeOK
<1>2. StartFits' /\ start'.at = "opening"
  BY <1>1 DEF StartFits
<1>3. DefinitionFits(definition)' /\ Fresh(definition)'
  <2>1. CASE HasSource(request) /\ start.source = Source(request)
    <3>1. definition' = [start.loaded EXCEPT !.at = "loaded", !.source = start.source]
      BY <1>1, <2>1 DEF KeepDefinition
    <3>2. /\ DefinitionFits(start.loaded) /\ Describes(start.loaded)
          /\ \/ start.source[1] = "url" /\ start.loaded.source[1] = "url"
             \/ start.source = start.loaded.source
      BY <1>1 DEF StartFits, DefinitionFits
    <3>3. definition' = [at |-> "loaded", source |-> start.source,
                         target |-> start.loaded.target, of |-> start.loaded.of]
      BY <3>1, <3>2, RenamedIs
    <3>4. Describes(definition')
      BY <3>2, <3>3 DEF Describes
    <3>5. DefinitionFits(definition') /\ definition'.source = Source(request)
      BY <2>1, <3>3, <3>4 DEF DefinitionFits
    <3> QED BY <1>1, <3>5 DEF DefinitionFits, Describes, Fresh, Source
  <2>2. CASE ~(HasSource(request) /\ start.source = Source(request))
    <3>1. UNCHANGED definition
      BY <1>1, <2>2 DEF KeepDefinition
    <3> QED BY <1>1, <3>1 DEF IInv, DefinitionFits, Describes, Fresh, Source
  <2> QED BY <2>1, <2>2
<1>4. TypeOK' /\ AwaitingIsServed'
  BY <1>1, <1>2, <1>3 DEF IInv, TypeOK, DefinitionFits, AwaitingIsServed
<1> QED BY <1>2, <1>3, <1>4 DEF IInv

(***************************************************************************)
(* A load of the tab's own ends, and an Invoke that waited goes on.        *)
(***************************************************************************)
LEMMA LoadEndKeeps ==
  ASSUME Assumed, IInv, NEW result \in {"loaded", "failed"}, LoadEnds(result)
  PROVE  IInv'
<1> DEFINE d == IF result = "loaded" THEN [definition EXCEPT !.at = "loaded"]
                ELSE [definition EXCEPT !.at = "failed", !.target = NoTarget, !.of = NoServices]
<1>1. /\ definition.at = "loading" /\ UNCHANGED <<request, value>>
      /\ \/ call = "awaiting" /\ Invokes(d)
         \/ /\ definition' = d /\ UNCHANGED start
            /\ \/ call = "awaiting" /\ call' = "idle"
               \/ call # "awaiting" /\ call' = call
  BY DEF LoadEnds, Window
<1>2. DefinitionFits(d) /\ Fresh(d)
  BY <1>1 DEF IInv, DefinitionFits, Describes, Fresh
<1>3. start.at = "none" <=> call # "starting"
  BY DEF IInv, TypeOK
<1> HIDE DEF d
<1>4. CASE call = "awaiting" /\ Invokes(d)
  <2>1. /\ DefinitionFits(definition') /\ Fresh(definition)' /\ StartFits'
        /\ call' \in {"idle", "awaiting", "starting"}
        /\ (start'.at = "none") = (call' # "starting")
        /\ AwaitingIsServed'
    BY <1>1, <1>2, <1>3, <1>4, InvokesKeeps DEF IInv
  <2>2. TypeOK'
    BY <1>1, <2>1 DEF IInv, TypeOK, DefinitionFits, StartFits
  <2> QED BY <2>1, <2>2 DEF IInv, DefinitionFits, Describes
<1>5. CASE /\ definition' = d /\ UNCHANGED start
           /\ \/ call = "awaiting" /\ call' = "idle"
              \/ call # "awaiting" /\ call' = call
  <2>1. TypeOK' /\ AwaitingIsServed'
    BY <1>1, <1>2, <1>5 DEF IInv, TypeOK, DefinitionFits, AwaitingIsServed
  <2>2. DefinitionFits(definition)' /\ Fresh(definition)'
    BY <1>1, <1>2, <1>5 DEF DefinitionFits, Describes, Fresh, Source
  <2>3. StartFits'
    BY <1>5 DEF IInv, StartFits, DefinitionFits, Describes
  <2> QED BY <2>1, <2>2, <2>3 DEF IInv
<1> QED BY <1>1, <1>4, <1>5

-----------------------------------------------------------------------------
(***************************************************************************)
(* The edits of the request.                                               *)
(***************************************************************************)
Edited ==
  \/ \E u \in {""} \union Urls : TypesUrl(u)
  \/ \E p \in {""} \union Paths : TypesPath(p)
  \/ \E p \in Paths : ChoosesFile(p)
  \/ \E reflects \in BOOLEAN : Uses(reflects)
  \/ SetDefinition \/ EditsScript
  \/ \E v \in Values : SetsVariable(v)

LEMMA EditsKeep == ASSUME Assumed, IInv, Edited PROVE IInv'
<1>1. request \in Requests /\ value \in Values
  BY RequestsOK DEF IInv
<1>2. ASSUME NEW u \in {""} \union Urls, TypesUrl(u) PROVE IInv'
  <2> DEFINE r == [request EXCEPT !.url = u]
  <2>1. r \in Requests /\ r.reflects = request.reflects
    BY <1>1 DEF Requests
  <2>2. ScheduleReflection(r) /\ request' = r /\ UNCHANGED <<start, value>>
    BY <1>2 DEF TypesUrl, Edits
  <2> QED BY <2>1, <2>2, ScheduleKeeps
<1>3. ASSUME NEW p \in {""} \union Paths, TypesPath(p) PROVE IInv'
  <2>1. /\ request' \in Requests /\ ~request'.reflects
        /\ UNCHANGED <<value, definition, call, start>>
    BY <1>1, <1>3 DEF TypesPath, Edits, Requests
  <2>2. TypeOK' /\ AwaitingIsServed'
    BY <2>1 DEF IInv, TypeOK, Requests, AwaitingIsServed
  <2>3. StartFits' /\ DefinitionFits(definition)' /\ Fresh(definition)'
    BY <2>1 DEF IInv, StartFits, DefinitionFits, Describes, Fresh, Source
  <2> QED BY <2>2, <2>3 DEF IInv
<1>4. ASSUME NEW p \in Paths, ChoosesFile(p) PROVE IInv'
  <2> DEFINE r == IF request.reflects THEN request ELSE [request EXCEPT !.path = p]
  <2>1. r \in Requests
    BY <1>1 DEF Requests
  <2>2. LoadDefinition(r, TRUE) /\ request' = r /\ UNCHANGED <<start, value>>
    BY <1>4 DEF ChoosesFile, Edits
  <2> QED BY <2>1, <2>2, LoadDefinitionKeeps
<1>5. ASSUME NEW reflects \in BOOLEAN, Uses(reflects) PROVE IInv'
  <2> DEFINE r == [request EXCEPT !.reflects = reflects, !.path = ""]
  <2>1. r \in Requests
    BY <1>1 DEF Requests
  <2>2. LoadDefinition(r, FALSE) /\ request' = r /\ UNCHANGED <<start, value>>
    BY <1>5 DEF Uses, Edits
  <2> QED BY <2>1, <2>2, LoadDefinitionKeeps
<1>6. CASE SetDefinition
  <2> DEFINE r == [request EXCEPT !.path = Relative]
  <2>1. /\ r \in Requests /\ ~r.reflects /\ request' = r
        /\ Source(r) = <<"path", Relative>> /\ Source(request) = <<"path", Absolute>>
        /\ UNCHANGED <<value, call, start>>
        /\ definition' = (IF IsCurrent(definition)
                          THEN [definition EXCEPT !.source = Source(r)] ELSE definition)
    BY <1>1, <1>6 DEF SetDefinition, Edits, Requests, Assumed, Source
  <2> HIDE DEF r
  <2>2. DefinitionFits(definition') /\ definition'.at = definition.at
    <3>1. CASE IsCurrent(definition)
      <4>1. /\ definition.at = "loaded" /\ definition.source = <<"path", Absolute>>
            /\ DefinitionFits(definition) /\ Describes(definition)
        BY <2>1, <3>1 DEF IsCurrent, IsFor, IInv, DefinitionFits
      <4>2. definition.target = NoTarget /\ definition.of = <<"file", Absolute>>
        <5>1. definition.source[1] = "path" /\ definition.source[2] = Absolute
          BY <4>1
        <5> QED BY <4>1, <5>1 DEF Describes
      <4>3. definition' = [definition EXCEPT !.source = <<"path", Relative>>]
        BY <2>1, <3>1
      <4>4. /\ definition' = [at |-> definition'.at, source |-> definition'.source,
                              target |-> definition'.target, of |-> definition'.of]
            /\ definition'.at = "loaded" /\ definition'.source = <<"path", Relative>>
            /\ definition'.target = NoTarget /\ definition'.of = <<"file", Absolute>>
        BY <4>1, <4>2, <4>3 DEF DefinitionFits
      <4>5. definition'.source[1] = "path" /\ definition'.source[2] = Relative
        BY <4>4
      <4> QED BY <4>1, <4>4, <4>5 DEF DefinitionFits, Describes
    <3>2. CASE ~IsCurrent(definition)
      BY <2>1, <3>2 DEF IInv, DefinitionFits, Describes
    <3> QED BY <3>1, <3>2
  <2>3. TypeOK' /\ AwaitingIsServed'
    BY <2>1, <2>2 DEF IInv, TypeOK, Requests, AwaitingIsServed
  <2>4. StartFits' /\ DefinitionFits(definition)' /\ Fresh(definition)'
    BY <2>1, <2>2 DEF IInv, StartFits, DefinitionFits, Describes, Fresh, Source
  <2> QED BY <2>3, <2>4 DEF IInv
<1>7. CASE EditsScript
  BY <1>1, <1>7, RestKeeps DEF EditsScript, Edits
<1>8. ASSUME NEW v \in Values, SetsVariable(v) PROVE IInv'
  BY <1>8, RestKeeps DEF SetsVariable, Edits
<1> QED BY <1>2, <1>3, <1>4, <1>5, <1>6, <1>7, <1>8 DEF Edited

(***************************************************************************)
(* Every step keeps the invariant.                                         *)
(***************************************************************************)
LEMMA StepKeeps == ASSUME Assumed, IInv, [Next]_vars PROVE IInv'
<1>1. request \in Requests /\ value \in Values
  BY RequestsOK DEF IInv
<1>2. CASE DebounceEnds
  <2>1. /\ definition.at = "debouncing" /\ UNCHANGED <<request, value, start>>
        /\ Load(request, NoDefinition, FALSE) /\ DropsPendingInvoke(request)
    BY <1>2 DEF DebounceEnds, LoadsAfterTyping, Window
  <2>2. /\ DefinitionFits(definition')
        /\ definition'.at \in {"loading", "loaded", "failed"} =>
             definition'.source = Source(request)
        /\ HasSource(request) => definition'.at = "loading"
    BY <1>1, <2>1, LoadKeeps, NoDefinitionFits
  <2>3. /\ call' = call \/ (call = "awaiting" /\ call' = "idle")
        /\ call' = "awaiting" => call = "awaiting" /\ HasSource(request)
    BY <2>1, DropKeeps
  <2>4. TypeOK' /\ AwaitingIsServed'
    BY <2>1, <2>2, <2>3 DEF IInv, TypeOK, DefinitionFits, AwaitingIsServed
  <2>5. StartFits' /\ DefinitionFits(definition)' /\ Fresh(definition)'
    BY <2>1, <2>2 DEF IInv, StartFits, DefinitionFits, Describes, Fresh, Source
  <2> QED BY <2>4, <2>5 DEF IInv
<1>3. ASSUME NEW result \in {"loaded", "failed"}, LoadEnds(result) PROVE IInv'
  BY <1>3, LoadEndKeeps
<1>4. CASE StartLoads
  BY <1>4, StartLoadKeeps
<1>5. CASE StartFails
  BY <1>1, <1>5, RestKeeps DEF StartFails, DoesNotStart, Window
<1>6. CASE Follow
  BY <1>1, <1>6, RestKeeps DEF Follow
<1>7. ASSUME NEW u, NEW v, ScriptEnds(u, v) PROVE IInv'
  BY <1>7, ScriptEndKeeps
<1>8. CASE Prepare
  BY <1>1, <1>8, LoadDefinitionKeeps DEF Prepare
<1>9. CASE Invoke
  <2>1. /\ call = "idle" /\ Invokes(definition) /\ UNCHANGED <<request, value>>
        /\ start.at = "none"
    BY <1>9 DEF Invoke, IInv, TypeOK
  <2>2. /\ DefinitionFits(definition') /\ Fresh(definition)' /\ StartFits'
        /\ call' \in {"idle", "awaiting", "starting"}
        /\ (start'.at = "none") = (call' # "starting")
        /\ AwaitingIsServed'
    BY <2>1, InvokesKeeps DEF IInv
  <2>3. TypeOK'
    BY <1>1, <2>1, <2>2 DEF IInv, TypeOK, DefinitionFits, StartFits
  <2> QED BY <2>2, <2>3 DEF IInv, DefinitionFits, Describes
<1>10. CASE Cancel
  BY <1>1, <1>10, RestKeeps DEF Cancel
<1>11. CASE Close
  <2>1. /\ UNCHANGED <<request, value>> /\ call' = "closed"
        /\ start' = NoStart /\ definition' = NoDefinition
    BY <1>11 DEF Close
  <2>2. DefinitionFits(definition') /\ definition'.at = "idle"
    BY <2>1, NoDefinitionFits
  <2>3. StartFits' /\ start'.at = "none"
    <3>1. /\ start' = [at |-> start'.at, request |-> start'.request, source |-> start'.source,
                       loaded |-> start'.loaded, sends |-> start'.sends, with |-> start'.with]
          /\ start'.request = [reflects |-> start'.request.reflects, url |-> start'.request.url,
                               path |-> start'.request.path]
          /\ start'.at = "none"
      BY <2>1 DEF NoStart
    <3> QED BY <3>1 DEF StartFits
  <2>4. TypeOK' /\ AwaitingIsServed'
    BY <2>1, <2>2, <2>3 DEF IInv, TypeOK, AwaitingIsServed
  <2>5. DefinitionFits(definition)' /\ Fresh(definition)'
    BY <2>2 DEF DefinitionFits, Describes, Fresh
  <2> QED BY <2>3, <2>4, <2>5 DEF IInv
<1>12. ASSUME NEW outcome, End(outcome) PROVE IInv'
  BY <1>1, <1>12, RestKeeps DEF End
<1>13. CASE UNCHANGED vars
  BY <1>1, <1>13, RestKeeps DEF vars
<1> QED
  BY <1>2, <1>3, <1>4, <1>5, <1>6, <1>7, <1>8, <1>9, <1>10, <1>11, <1>12, <1>13, EditsKeep
     DEF Next, Tasks, Starting, User, Edited

LEMMA InitFits == ASSUME Init PROVE IInv
<1>1. StartFits
  BY DEF Init, StartFits, NoStart
<1>2. definition.at = "idle" /\ start.at = "none" /\ DefinitionFits(definition)
  BY NoDefinitionFits DEF Init, NoStart
<1> QED BY <1>1, <1>2 DEF Init, IInv, TypeOK, Fresh, AwaitingIsServed

LEMMA Invariant == ASSUME Assumed PROVE Spec => []IInv
<1>1. ASSUME IInv, [Next]_vars PROVE IInv'
  BY <1>1, StepKeeps
<1> QED BY <1>1, InitFits, PTL DEF Spec

-----------------------------------------------------------------------------
(***************************************************************************)
(* Requests, definitions and calls have their shapes, and a call has its   *)
(* task while it starts, for any URLs, files and number of edits.          *)
(***************************************************************************)
THEOREM TypeCorrect == ASSUME Assumed PROVE Spec => []TypeOK
<1>1. IInv => TypeOK
  BY DEF IInv
<1> QED BY <1>1, Invariant, PTL

(***************************************************************************)
(* An Invoke that waits for the service definition always has one that     *)
(* loads or will load: no edit leaves it waiting for nothing.              *)
(***************************************************************************)
THEOREM WaitingIsServed == ASSUME Assumed PROVE Spec => []AwaitingIsServed
<1>1. IInv => AwaitingIsServed
  BY DEF IInv
<1> QED BY <1>1, Invariant, PTL

(***************************************************************************)
(* A call opens with the services of the server or file it is sent to.     *)
(***************************************************************************)
THEOREM CallsFit == ASSUME Assumed PROVE Spec => []CallsFitTheirDefinition
<1>1. IInv => CallsFitTheirDefinition
  BY DEF IInv, StartFits, CallsFitTheirDefinition
<1> QED BY <1>1, Invariant, PTL

(***************************************************************************)
(* A definition by reflection is that of the request's current settings.   *)
(***************************************************************************)
THEOREM ReflectionStaysCurrent == ASSUME Assumed PROVE Spec => []ReflectionIsCurrent
<1>1. IInv => ReflectionIsCurrent
  BY DEF IInv, Fresh, ReflectionIsCurrent
<1> QED BY <1>1, Invariant, PTL

-----------------------------------------------------------------------------
(***************************************************************************)
(* What history is told, and what the response says.                       *)
(***************************************************************************)
Told == {"sent", "finished", "failed", "cancelled"}

HistoryInv == TypeOK /\ history \in Seq(Told) /\ HistoryPairsUp

LEMMA TellsMore ==
  ASSUME NEW h \in Seq(Told), NEW e \in Told
  PROVE  /\ Append(h, e) \in Seq(Told) /\ Len(Append(h, e)) = Len(h) + 1
         /\ Append(h, e)[Len(h) + 1] = e
         /\ \A i \in 1 .. Len(h) : Append(h, e)[i] = h[i]
  BY AppendProperties

\* A call that begins is told of after pairs only.
LEMMA BeginningIsTold ==
  ASSUME HistoryInv, call # "open", history' = Append(history, "sent"), call' = "open"
  PROVE  history' \in Seq(Told) /\ HistoryPairsUp'
<1>1. Len(history) \in Nat /\ Len(history) % 2 # 1
  BY DEF HistoryInv, HistoryPairsUp
<1>2. (Len(history) + 1) % 2 = 1
  BY <1>1
<1>3. /\ history' \in Seq(Told) /\ Len(history') = Len(history) + 1
      /\ history'[Len(history) + 1] = "sent"
      /\ \A i \in 1 .. Len(history) : history'[i] = history[i]
  BY TellsMore DEF HistoryInv, Told
<1>4. ASSUME NEW i \in 1 .. Len(history') PROVE (history'[i] = "sent") = (i % 2 = 1)
  <2>1. CASE i = Len(history) + 1
    BY <1>2, <1>3, <2>1
  <2>2. CASE i # Len(history) + 1
    <3>1. i \in 1 .. Len(history)
      BY <1>1, <1>3, <2>2
    <3> QED BY <1>3, <3>1 DEF HistoryInv, HistoryPairsUp
  <2> QED BY <2>1, <2>2
<1> QED BY <1>2, <1>3, <1>4 DEF HistoryPairsUp

\* Its end is told of right after its beginning.
LEMMA EndIsTold ==
  ASSUME HistoryInv, call = "open", call' # "open",
         NEW e \in Told \ {"sent"}, history' = Append(history, e)
  PROVE  history' \in Seq(Told) /\ HistoryPairsUp'
<1>1. Len(history) \in Nat /\ Len(history) % 2 = 1
  BY DEF HistoryInv, HistoryPairsUp
<1>2. (Len(history) + 1) % 2 # 1
  BY <1>1
<1>3. /\ history' \in Seq(Told) /\ Len(history') = Len(history) + 1
      /\ history'[Len(history) + 1] = e
      /\ \A i \in 1 .. Len(history) : history'[i] = history[i]
  BY TellsMore DEF HistoryInv
<1>4. ASSUME NEW i \in 1 .. Len(history') PROVE (history'[i] = "sent") = (i % 2 = 1)
  <2>1. CASE i = Len(history) + 1
    BY <1>2, <1>3, <2>1
  <2>2. CASE i # Len(history) + 1
    <3>1. i \in 1 .. Len(history)
      BY <1>1, <1>3, <2>2
    <3> QED BY <1>3, <3>1 DEF HistoryInv, HistoryPairsUp
  <2> QED BY <2>1, <2>2
<1> QED BY <1>2, <1>3, <1>4 DEF HistoryPairsUp

\* Nothing is told of a call that is not open and does not open.
LEMMA NothingToTell ==
  ASSUME HistoryInv, UNCHANGED history, (call = "open") = (call' = "open")
  PROVE  history' \in Seq(Told) /\ HistoryPairsUp'
  BY DEF HistoryInv, HistoryPairsUp

LEMMA StoppedIsTold ==
  ASSUME HistoryInv, Stopped, call' # "open"
  PROVE  history' \in Seq(Told) /\ HistoryPairsUp'
<1>1. CASE call = "open"
  BY <1>1, EndIsTold DEF Stopped, Told
<1>2. CASE call # "open"
  BY <1>2, NothingToTell DEF Stopped
<1> QED BY <1>1, <1>2

LEMMA InvokesStaysShut ==
  ASSUME NEW d, Invokes(d) PROVE call' \in {"idle", "awaiting", "starting"}
  BY DEF Invokes, InvokeScripted, Awaits, InvokesDirectly

LEMMA HistoryKeeps ==
  ASSUME HistoryInv, TypeOK', [Next]_vars PROVE HistoryInv'
<1>1. CASE Follow
  BY <1>1, BeginningIsTold DEF Follow, HistoryInv, TypeOK
<1>2. ASSUME NEW outcome \in {"finished", "failed"}, End(outcome) PROVE HistoryInv'
  BY <1>2, EndIsTold DEF End, HistoryInv, Told
<1>3. CASE Cancel
  BY <1>3, StoppedIsTold DEF Cancel, HistoryInv
<1>4. CASE Close
  BY <1>4, StoppedIsTold DEF Close, HistoryInv
<1>5. CASE DebounceEnds
  BY <1>5, NothingToTell DEF DebounceEnds, DropsPendingInvoke, Window, HistoryInv
<1>6. ASSUME NEW result \in {"loaded", "failed"}, LoadEnds(result) PROVE HistoryInv'
  <2>1. UNCHANGED history
    BY <1>6 DEF LoadEnds, Window
  <2>2. UNCHANGED call \/ (call = "awaiting" /\ call' \in {"idle", "awaiting", "starting"})
    BY <1>6, InvokesStaysShut DEF LoadEnds
  <2> QED BY <2>1, <2>2, NothingToTell DEF HistoryInv
<1>7. CASE StartLoads \/ StartFails \/ \E u, v : ScriptEnds(u, v)
  <2>1. UNCHANGED history
    BY <1>7 DEF StartLoads, StartFails, DoesNotStart, ScriptEnds, Window
  <2>2. UNCHANGED call \/ (call # "open" /\ call' = "idle")
    BY <1>7 DEF StartLoads, StartFails, DoesNotStart, ScriptEnds, HistoryInv, TypeOK
  <2> QED BY <2>1, <2>2, NothingToTell DEF HistoryInv
<1>8. CASE Edited
  <2>1. UNCHANGED history
    BY <1>8 DEF Edited, Edits, TypesUrl, TypesPath, ChoosesFile, Uses, SetDefinition, EditsScript,
                SetsVariable
  <2>2. UNCHANGED call \/ (call = "awaiting" /\ call' = "idle")
    BY <1>8 DEF Edited, TypesUrl, TypesPath, ChoosesFile, Uses, SetDefinition, EditsScript,
                SetsVariable, ScheduleReflection, LoadDefinition, DropsPendingInvoke
  <2> QED BY <2>1, <2>2, NothingToTell DEF HistoryInv
<1>9. CASE Prepare
  <2>1. UNCHANGED history /\ (UNCHANGED call \/ (call = "awaiting" /\ call' = "idle"))
    BY <1>9 DEF Prepare, LoadDefinition, DropsPendingInvoke
  <2> QED BY <2>1, NothingToTell DEF HistoryInv
<1>10. CASE Invoke
  <2>1. UNCHANGED history /\ call = "idle" /\ call' \in {"idle", "awaiting", "starting"}
    BY <1>10, InvokesStaysShut DEF Invoke
  <2> QED BY <2>1, NothingToTell DEF HistoryInv
<1>11. CASE UNCHANGED vars
  BY <1>11, NothingToTell DEF vars, HistoryInv
<1> QED
  BY <1>1, <1>2, <1>3, <1>4, <1>5, <1>6, <1>7, <1>8, <1>9, <1>10, <1>11
     DEF Next, Tasks, Starting, User, Edited

LEMMA HistoryStarts == Init => HistoryInv
<1>1. ASSUME Init PROVE history \in Seq(Told) /\ Len(history) = 0 /\ call = "idle"
  BY <1>1, EmptySeq DEF Init
<1>2. Init => TypeOK
  BY InitFits DEF IInv
<1> QED BY <1>1, <1>2 DEF HistoryInv, HistoryPairsUp

(***************************************************************************)
(* History is told of each call that started and then of its end, in turn, *)
(* also of one that is cancelled or whose tab closes, for any number of    *)
(* calls.                                                                  *)
(***************************************************************************)
THEOREM HistoryAlwaysPairs == ASSUME Assumed PROVE Spec => []HistoryPairsUp
<1>1. Init => HistoryInv  BY HistoryStarts
<1>2. HistoryInv /\ TypeOK' /\ [Next]_vars => HistoryInv'
  BY HistoryKeeps
<1>3. HistoryInv => HistoryPairsUp
  BY DEF HistoryInv
<1> QED BY <1>1, <1>2, <1>3, TypeCorrect, PTL DEF Spec

(***************************************************************************)
(* An Invoke that waits for reflection has a URL to reflect from.          *)
(***************************************************************************)
AwaitedHasUrl == call = "awaiting" /\ request.reflects => request.url # ""

LEMMA AwaitedKeepsUrl ==
  ASSUME IInv, AwaitedHasUrl, [Next]_vars PROVE AwaitedHasUrl'
<1>1. request \in Requests
  BY RequestsOK DEF IInv
<1>2. ASSUME NEW d, Invokes(d), call' = "awaiting" PROVE HasSource(request)
  BY <1>2 DEF Invokes
<1>3. ASSUME NEW r, DropsPendingInvoke(r), call' = "awaiting" PROVE call = "awaiting" /\ HasSource(r)
  BY <1>3 DEF DropsPendingInvoke
<1>4. ASSUME NEW r \in Requests, HasSource(r), r.reflects PROVE r.url # ""
  BY <1>4 DEF HasSource, Source
<1>5. CASE call' # "awaiting"
  BY <1>5 DEF AwaitedHasUrl
<1>6. CASE call' = "awaiting" /\ UNCHANGED <<request, call>>
  BY <1>6 DEF AwaitedHasUrl
<1>7. CASE call' = "awaiting" /\ HasSource(request) /\ UNCHANGED request
  BY <1>1, <1>4, <1>7 DEF AwaitedHasUrl
<1>8. ASSUME NEW u \in {""} \union Urls, TypesUrl(u), call' = "awaiting" PROVE AwaitedHasUrl'
  <2> DEFINE r == [request EXCEPT !.url = u]
  <2>1. r \in Requests /\ request' = r /\ ScheduleReflection(r)
    BY <1>1, <1>8 DEF TypesUrl, Requests
  <2>2. CASE ~r.reflects
    BY <2>1, <2>2 DEF AwaitedHasUrl
  <2>3. CASE r.reflects /\ IsFor(definition, r)
    BY <1>4, <2>1, <2>3 DEF AwaitedHasUrl, IsFor
  <2>4. CASE r.reflects /\ ~IsFor(definition, r)
    BY <1>3, <1>4, <1>8, <2>1, <2>4 DEF AwaitedHasUrl, ScheduleReflection
  <2> QED BY <2>2, <2>3, <2>4
<1>9. ASSUME NEW p \in {""} \union Paths, TypesPath(p) PROVE AwaitedHasUrl'
  BY <1>1, <1>9 DEF TypesPath, AwaitedHasUrl, Requests
<1>10. ASSUME NEW p \in Paths, ChoosesFile(p), call' = "awaiting" PROVE AwaitedHasUrl'
  <2> DEFINE r == IF request.reflects THEN request ELSE [request EXCEPT !.path = p]
  <2>1. r \in Requests /\ request' = r /\ DropsPendingInvoke(r)
    BY <1>1, <1>10 DEF ChoosesFile, LoadDefinition, Requests
  <2>2. HasSource(r)
    BY <1>3, <1>10, <2>1
  <2> QED BY <1>4, <2>1, <2>2 DEF AwaitedHasUrl
<1>11. ASSUME NEW reflects \in BOOLEAN, Uses(reflects), call' = "awaiting" PROVE AwaitedHasUrl'
  <2> DEFINE r == [request EXCEPT !.reflects = reflects, !.path = ""]
  <2>1. r \in Requests /\ request' = r /\ DropsPendingInvoke(r)
    BY <1>1, <1>11 DEF Uses, LoadDefinition, Requests
  <2>2. HasSource(r)
    BY <1>3, <1>11, <2>1
  <2> QED BY <1>4, <2>1, <2>2 DEF AwaitedHasUrl
<1>12. CASE SetDefinition
  BY <1>1, <1>12 DEF SetDefinition, AwaitedHasUrl, Requests
<1>13. CASE EditsScript \/ (\E v \in Values : SetsVariable(v)) \/ StartLoads
            \/ (\E u, v : ScriptEnds(u, v)) \/ UNCHANGED vars
  BY <1>5, <1>6, <1>13 DEF EditsScript, SetsVariable, StartLoads, ScriptEnds, Window, vars
<1>14. CASE StartFails \/ Follow \/ Cancel \/ Close \/ \E outcome : End(outcome)
  BY <1>5, <1>14 DEF StartFails, DoesNotStart, Follow, Cancel, Close, End
<1>15. CASE Prepare \/ DebounceEnds
  BY <1>3, <1>5, <1>7, <1>15 DEF Prepare, DebounceEnds, LoadDefinition, Window
<1>16. CASE Invoke \/ \E result \in {"loaded", "failed"} : LoadEnds(result)
  BY <1>2, <1>5, <1>6, <1>7, <1>16 DEF Invoke, LoadEnds, Window
<1> QED
  BY <1>5, <1>8, <1>9, <1>10, <1>11, <1>12, <1>13, <1>14, <1>15, <1>16
     DEF Next, Tasks, Starting, User

LEMMA ResponseSays ==
  ASSUME IInv, AwaitedHasUrl, [Next]_vars PROVE KeepsResponse
<1>1. request \in Requests
  BY RequestsOK DEF IInv
<1>2. ASSUME NEW r, DropsPendingInvoke(r), call # "idle", call' = "idle" PROVE response' = "idle"
  BY <1>2 DEF DropsPendingInvoke
<1>3. ASSUME NEW d, Invokes(d), call = "awaiting" PROVE KeepsResponse
  BY <1>1, <1>3
     DEF Invokes, InvokeScripted, Awaits, InvokesDirectly, KeepsResponse, AwaitedHasUrl, Requests
<1>4. CASE UNCHANGED call \/ call' # "idle" \/ response' \notin {"waiting", "running"}
  BY <1>4 DEF KeepsResponse
<1>5. CASE Edited
  BY <1>2, <1>4, <1>5 DEF Edited, TypesUrl, TypesPath, ChoosesFile, Uses, SetDefinition, EditsScript,
                          SetsVariable, ScheduleReflection, LoadDefinition
<1>6. CASE Prepare \/ DebounceEnds
  BY <1>2, <1>4, <1>6 DEF Prepare, DebounceEnds, LoadDefinition
<1>7. CASE \E result \in {"loaded", "failed"} : LoadEnds(result)
  BY <1>3, <1>4, <1>7 DEF LoadEnds
<1>8. CASE StartLoads \/ StartFails \/ Follow \/ \E u, v : ScriptEnds(u, v)
  BY <1>4, <1>8 DEF StartLoads, StartFails, DoesNotStart, Follow, ScriptEnds
<1>9. CASE Invoke
  BY <1>9 DEF Invoke, KeepsResponse
<1>10. CASE Cancel \/ Close \/ \E outcome \in {"finished", "failed"} : End(outcome)
  BY <1>4, <1>10 DEF Cancel, Close, End
<1>11. CASE UNCHANGED vars
  BY <1>4, <1>11 DEF vars
<1> QED
  BY <1>5, <1>6, <1>7, <1>8, <1>9, <1>10, <1>11 DEF Next, Tasks, Starting, User, Edited

(***************************************************************************)
(* The response says that a call is prepared or runs only while one is,    *)
(* but when the URL is cleared while the Invoke of a request with a .proto *)
(* file waits.                                                             *)
(***************************************************************************)
THEOREM ResponseAlwaysFollows == ASSUME Assumed PROVE Spec => ResponseFollows
<1>1. Init => AwaitedHasUrl
  BY DEF Init, AwaitedHasUrl
<1>2. IInv /\ AwaitedHasUrl /\ [Next]_vars => AwaitedHasUrl'
  BY AwaitedKeepsUrl
<1>3. IInv /\ AwaitedHasUrl /\ [Next]_vars => [KeepsResponse]_vars
  BY ResponseSays
<1> QED BY <1>1, <1>2, <1>3, Invariant, PTL DEF Spec, ResponseFollows
-----------------------------------------------------------------------------
(***************************************************************************)
(* The parts in one run.  A behavior of ExchangesSpec is one of a single   *)
(* part, so what the specification of each part keeps holds of it: XP and  *)
(* SP are what is proved of those parts, which MCExchanges names otherwise.*)
(***************************************************************************)
XP == INSTANCE ExchangesProofs WITH history <- connections
SP == INSTANCE SessionsProofs WITH
        Tasks <- EnvTasks, Paths <- EnvPaths, Updates <- EnvUpdates,
        session <- scopes, call <- inCall, shown <- scopesSeen

LEMMA RunnerIsSame ==
  /\ R!Init <=> XP!R!Init
  /\ R!Next <=> XP!R!Next
  /\ R!TypeOK <=> XP!R!TypeOK
  /\ R!EachGoesOutOnce <=> XP!R!EachGoesOutOnce
  /\ R!CompleteRunsSendAll <=> XP!R!CompleteRunsSendAll
  /\ R!CookiesReachTheApp <=> XP!R!CookiesReachTheApp
  /\ R!VariablesStayApart <=> XP!R!VariablesStayApart
  /\ UNCHANGED R!vars <=> UNCHANGED XP!R!vars
BY DEF
     R!Advanced, R!Begin, R!Begins, R!Cancelled, R!Chosen, R!Close, R!CompleteRunsSendAll,
     R!CookiesReachTheApp, R!Dropped, R!EachGoesOutOnce, R!Execute, R!Executes, R!Finishes,
     R!Index, R!Init, R!IsActive, R!IsLast, R!IsOver, R!Jars, R!MaySend, R!Next, R!NextStart,
     R!NoRun, R!Number, R!Over, R!Pause, R!PausesRun, R!Record, R!Records, R!Resume, R!ResumesTask,
     R!Send, R!SetsVariables, R!Start, R!Stop, R!TakesCookies, R!TypeOK, R!VariablesStayApart,
     R!vars, XP!R!Advanced, XP!R!Begin, XP!R!Begins, XP!R!Cancelled, XP!R!Chosen, XP!R!Close,
     XP!R!CompleteRunsSendAll, XP!R!CookiesReachTheApp, XP!R!Dropped, XP!R!EachGoesOutOnce,
     XP!R!Execute, XP!R!Executes, XP!R!Finishes, XP!R!Index, XP!R!Init, XP!R!IsActive, XP!R!IsLast,
     XP!R!IsOver, XP!R!Jars, XP!R!MaySend, XP!R!Next, XP!R!NextStart, XP!R!NoRun, XP!R!Number,
     XP!R!Over, XP!R!Pause, XP!R!PausesRun, XP!R!Record, XP!R!Records, XP!R!Resume,
     XP!R!ResumesTask, XP!R!Send, XP!R!SetsVariables, XP!R!Start, XP!R!Stop, XP!R!TakesCookies,
     XP!R!TypeOK, XP!R!VariablesStayApart, XP!R!vars

LEMMA ExchangeIsSame ==
  /\ X!Init <=> XP!X!Init
  /\ X!Next <=> XP!X!Next
  /\ X!TypeOK <=> XP!X!TypeOK
  /\ X!LogHoldsWhatArrived <=> XP!X!LogHoldsWhatArrived
  /\ X!StreamLogsEnd <=> XP!X!StreamLogsEnd
  /\ X!HistoryHasWhatWentOut <=> XP!X!HistoryHasWhatWentOut
  /\ UNCHANGED X!vars <=> UNCHANGED XP!X!vars
BY DEF
     X!BodyEnds, X!Cancel, X!CancelEnds, X!Cancelled, X!Cardinality, X!Dispatches, X!DropsTasks,
     X!Ends, X!EndsStream, X!Executor, X!Fails, X!Finish, X!Finished, X!Goes, X!HasRoom, X!Heads,
     X!HistoryHasWhatWentOut, X!Idle, X!Init, X!IsReading, X!LogHoldsWhatArrived, X!MayTimeOut,
     X!Next, X!NoChannel, X!NoExecution, X!PostScripts, X!Push, X!Pushes, X!Reads, X!Receive,
     X!Records, X!Sends, X!Shows, X!Stop, X!Stops, X!Stream, X!StreamLogsEnd, X!Tab, X!TimesOut,
     X!ToSet, X!TypeOK, X!UpdatesEnd, X!Window, X!background, X!ghosts, X!vars, XP!X!BodyEnds,
     XP!X!Cancel, XP!X!CancelEnds, XP!X!Cancelled, XP!X!Cardinality, XP!X!Dispatches,
     XP!X!DropsTasks, XP!X!Ends, XP!X!EndsStream, XP!X!Executor, XP!X!Fails, XP!X!Finish,
     XP!X!Finished, XP!X!Goes, XP!X!HasRoom, XP!X!Heads, XP!X!HistoryHasWhatWentOut, XP!X!Idle,
     XP!X!Init, XP!X!IsReading, XP!X!LogHoldsWhatArrived, XP!X!MayTimeOut, XP!X!Next,
     XP!X!NoChannel, XP!X!NoExecution, XP!X!PostScripts, XP!X!Push, XP!X!Pushes, XP!X!Reads,
     XP!X!Receive, XP!X!Records, XP!X!Sends, XP!X!Shows, XP!X!Stop, XP!X!Stops, XP!X!Stream,
     XP!X!StreamLogsEnd, XP!X!Tab, XP!X!TimesOut, XP!X!ToSet, XP!X!TypeOK, XP!X!UpdatesEnd,
     XP!X!Window, XP!X!background, XP!X!ghosts, XP!X!vars

LEMMA ScriptedIsSame ==
  /\ S!Init <=> XP!S!Init
  /\ S!Next <=> XP!S!Next
  /\ S!TypeOK <=> XP!S!TypeOK
  /\ S!ScriptsAreTold <=> XP!S!ScriptsAreTold
  /\ S!CancelledScriptsStop <=> XP!S!CancelledScriptsStop
  /\ UNCHANGED S!vars <=> UNCHANGED XP!S!vars
BY DEF
     S!AllScripts, S!Answers, S!Applies, S!CancelledScriptsStop, S!CannotResolve, S!CannotSend,
     S!Checks, S!Dropped, S!Ended, S!Ends, S!EndsPost, S!EndsPre, S!Evaluated, S!Exported, S!Fails,
     S!Init, S!Interrupted, S!Interrupts, S!Kept, S!Leaves, S!Loop, S!MaySend, S!Names, S!Next,
     S!NextScript, S!NoScript, S!NoThread, S!OnThread, S!Post, S!Pre, S!Refused, S!Report,
     S!Reports, S!Resolves, S!Responds, S!Returns, S!Runs, S!ScriptsAreTold, S!Sends, S!Steps,
     S!Stops, S!Taken, S!Takes, S!TakesPhase, S!TakesResolve, S!Thread, S!TimePasses, S!TimesOut,
     S!To, S!Told, S!TypeOK, S!Unanswered, S!Unreadable, S!Wakes, S!Written, S!ghosts, S!send,
     S!vars, XP!S!AllScripts, XP!S!Answers, XP!S!Applies, XP!S!CancelledScriptsStop,
     XP!S!CannotResolve, XP!S!CannotSend, XP!S!Checks, XP!S!Dropped, XP!S!Ended, XP!S!Ends,
     XP!S!EndsPost, XP!S!EndsPre, XP!S!Evaluated, XP!S!Exported, XP!S!Fails, XP!S!Init,
     XP!S!Interrupted, XP!S!Interrupts, XP!S!Kept, XP!S!Leaves, XP!S!Loop, XP!S!MaySend,
     XP!S!Names, XP!S!Next, XP!S!NextScript, XP!S!NoScript, XP!S!NoThread, XP!S!OnThread,
     XP!S!Post, XP!S!Pre, XP!S!Refused, XP!S!Report, XP!S!Reports, XP!S!Resolves, XP!S!Responds,
     XP!S!Returns, XP!S!Runs, XP!S!ScriptsAreTold, XP!S!Sends, XP!S!Steps, XP!S!Stops, XP!S!Taken,
     XP!S!Takes, XP!S!TakesPhase, XP!S!TakesResolve, XP!S!Thread, XP!S!TimePasses, XP!S!TimesOut,
     XP!S!To, XP!S!Told, XP!S!TypeOK, XP!S!Unanswered, XP!S!Unreadable, XP!S!Wakes, XP!S!Written,
     XP!S!ghosts, XP!S!send, XP!S!vars

LEMMA SocketIsSame ==
  /\ W!Init <=> XP!W!Init
  /\ W!Next <=> XP!W!Next
  /\ W!TypeOK <=> XP!W!TypeOK
  /\ W!HistoryPairsUp <=> XP!W!HistoryPairsUp
  /\ W!BacklogIsExact <=> XP!W!BacklogIsExact
  /\ UNCHANGED W!vars <=> UNCHANGED XP!W!vars
BY SMTT(20) DEF
     W!Abandons, W!AbandonsSend, W!BacklogIsExact, W!BytesOf, W!CloseFrameSent, W!CloseTab,
     W!CloseTimesOut, W!Connect, W!Contains, W!Disconnect, W!Disconnects, W!Emits, W!End, W!Ended,
     W!Event, W!Farewell, W!Finishes, W!Free, W!Greets, W!Handshakes, W!HistoryPairsUp, W!Init,
     W!IsOpen, W!IsReading, W!IsWaiting, W!Last, W!Looks, W!Next, W!NoReader, W!NoWriter, W!Parks,
     W!Pushes, W!QueuedBytes, W!Read, W!Reader, W!Reading, W!Reads, W!Receives, W!Registers,
     W!Reports, W!SendEnds, W!SendMessage, W!Sends, W!Sent, W!Server, W!StartsClosing,
     W!StopsHandshake, W!StopsReading, W!StreamEnds, W!TakeOff, W!Takes, W!TakesOff, W!TypeOK,
     W!User, W!Waiting, W!Wakes, W!Woken, W!Writer, W!queueVars, W!tabVars, W!vars, XP!W!Abandons,
     XP!W!AbandonsSend, XP!W!BacklogIsExact, XP!W!BytesOf, XP!W!CloseFrameSent, XP!W!CloseTab,
     XP!W!CloseTimesOut, XP!W!Connect, XP!W!Contains, XP!W!Disconnect, XP!W!Disconnects,
     XP!W!Emits, XP!W!End, XP!W!Ended, XP!W!Event, XP!W!Farewell, XP!W!Finishes, XP!W!Free,
     XP!W!Greets, XP!W!Handshakes, XP!W!HistoryPairsUp, XP!W!Init, XP!W!IsOpen, XP!W!IsReading,
     XP!W!IsWaiting, XP!W!Last, XP!W!Looks, XP!W!Next, XP!W!NoReader, XP!W!NoWriter, XP!W!Parks,
     XP!W!Pushes, XP!W!QueuedBytes, XP!W!Read, XP!W!Reader, XP!W!Reading, XP!W!Reads,
     XP!W!Receives, XP!W!Registers, XP!W!Reports, XP!W!SendEnds, XP!W!SendMessage, XP!W!Sends,
     XP!W!Sent, XP!W!Server, XP!W!StartsClosing, XP!W!StopsHandshake, XP!W!StopsReading,
     XP!W!StreamEnds, XP!W!TakeOff, XP!W!Takes, XP!W!TakesOff, XP!W!TypeOK, XP!W!User,
     XP!W!Waiting, XP!W!Wakes, XP!W!Woken, XP!W!Writer, XP!W!queueVars, XP!W!tabVars, XP!W!vars

LEMMA ThreadIsSame ==
  /\ A!Init <=> SP!A!Init
  /\ A!Next <=> SP!A!Next
  /\ A!TypeOK <=> SP!A!TypeOK
  /\ A!FirstPromptBriefs <=> SP!A!FirstPromptBriefs
  /\ A!PromptWaited <=> SP!A!PromptWaited
  /\ UNCHANGED A!vars <=> UNCHANGED SP!A!vars
BY DEF
     A!Answered, A!AnswersChange, A!Asks, A!AsksForExact, A!BriefedStill, A!Cardinality,
     A!Changes, A!ChangesMode, A!Chose, A!Client, A!Connection, A!Decide, A!Dies, A!Disconnected,
     A!Emits, A!EndsTurn, A!Exact, A!FirstPromptBriefs, A!HandleCancel, A!HandleDropped,
     A!HandleFailed, A!HandleOptions, A!HandlePermission, A!HandlePrompt, A!HandleRejected,
     A!HandleSetOption, A!HandleStarted, A!HandleTurnEnded, A!Init, A!May, A!Min, A!Modes,
     A!Needs, A!NewThread, A!NewThreadPanel, A!Next, A!Next1, A!NoAgent, A!NoPrompt, A!Number,
     A!Options, A!Panel, A!PickMode, A!Prompt, A!PromptGoesOn, A!PromptTask, A!PromptWaited,
     A!Prompted, A!Reaches, A!ReadsVariables, A!Rejects, A!Send, A!Sends, A!SetOption, A!Started,
     A!Starts, A!Stop, A!StopsCounted, A!Takes, A!Took, A!TurnOver, A!TypeOK, A!vars,
     SP!A!Answered, SP!A!AnswersChange, SP!A!Asks, SP!A!AsksForExact, SP!A!BriefedStill,
     SP!A!Cardinality, SP!A!Changes, SP!A!ChangesMode, SP!A!Chose, SP!A!Client, SP!A!Connection,
     SP!A!Decide, SP!A!Dies, SP!A!Disconnected, SP!A!Emits, SP!A!EndsTurn, SP!A!Exact,
     SP!A!FirstPromptBriefs, SP!A!HandleCancel, SP!A!HandleDropped, SP!A!HandleFailed,
     SP!A!HandleOptions, SP!A!HandlePermission, SP!A!HandlePrompt, SP!A!HandleRejected,
     SP!A!HandleSetOption, SP!A!HandleStarted, SP!A!HandleTurnEnded, SP!A!Init, SP!A!May,
     SP!A!Min, SP!A!Modes, SP!A!Needs, SP!A!NewThread, SP!A!NewThreadPanel, SP!A!Next, SP!A!Next1,
     SP!A!NoAgent, SP!A!NoPrompt, SP!A!Number, SP!A!Options, SP!A!Panel, SP!A!PickMode,
     SP!A!Prompt, SP!A!PromptGoesOn, SP!A!PromptTask, SP!A!PromptWaited, SP!A!Prompted,
     SP!A!Reaches, SP!A!ReadsVariables, SP!A!Rejects, SP!A!Send, SP!A!Sends, SP!A!SetOption,
     SP!A!Started, SP!A!Starts, SP!A!Stop, SP!A!StopsCounted, SP!A!Takes, SP!A!Took,
     SP!A!TurnOver, SP!A!TypeOK, SP!A!vars

LEMMA EnvironmentIsSame ==
  /\ E!Init <=> SP!Init
  /\ E!Next <=> SP!Next
  /\ E!TypeOK <=> SP!TypeOK
  /\ E!LimitsHold <=> SP!LimitsHold
  /\ UNCHANGED E!vars <=> UNCHANGED SP!vars
BY DEF
     E!Accepts, E!Apply, E!Begins, E!Bytes, E!Calls, E!Cardinality, E!Check, E!Copy, E!Count,
     E!Dropped, E!Entries, E!Goes, E!Init, E!KindIds, E!Kinds, E!Leaves, E!Length, E!LimitsHold, E!Lock,
     E!LockedAs, E!MapThenFoldSet, E!MapThenSumSet, E!Next, E!NoChanges, E!Own, E!Scope,
     E!ScopeIds, E!Shared, E!Step, E!ToSet, E!Turns, E!TypeOK, E!Unlock, E!Unlocked,
     E!WithinLimits, E!Write, E!vars, SP!Accepts, SP!Apply, SP!Begins, SP!Bytes, SP!Calls,
     SP!Cardinality, SP!Check, SP!Copy, SP!Count, SP!Dropped, SP!Entries, SP!Goes, SP!Init,
     SP!KindIds, SP!Kinds, SP!Leaves, SP!Length, SP!LimitsHold, SP!Lock, SP!LockedAs, SP!MapThenFoldSet,
     SP!MapThenSumSet, SP!Next, SP!NoChanges, SP!Own, SP!Scope, SP!ScopeIds, SP!Shared, SP!Step,
     SP!ToSet, SP!Turns, SP!TypeOK, SP!Unlock, SP!Unlocked, SP!WithinLimits, SP!Write, SP!vars

LEMMA PromiseIsSame ==
  /\ SP!Promised!Init => E!Promised!Init
  /\ E!Promised!Next <=> SP!Promised!Next
  /\ UNCHANGED E!Promised!vars <=> UNCHANGED SP!Promised!vars
<1>1. E!StoreSeen = SP!StoreSeen /\ E!SessionSeen = SP!SessionSeen
  BY DEF
     E!Apply, E!Committed, E!Forked, E!KindIds, E!Kinds, E!Own, E!ScopeIds, E!SessionSeen,
     E!StoreSeen, E!ToSet, SP!Apply, SP!Committed, SP!Forked, SP!KindIds, SP!Kinds, SP!Own,
     SP!ScopeIds, SP!SessionSeen, SP!StoreSeen, SP!ToSet
<1>2. SP!Promised!Init => E!Promised!Init
  BY <1>1 DEF
     E!Promised!Init, E!Promised!KindIds, E!Promised!Kinds, E!Promised!NoChanges,
     E!Promised!ScopeIds, E!Promised!Shared, SP!Promised!Init, SP!Promised!KindIds,
     SP!Promised!Kinds, SP!Promised!NoChanges, SP!Promised!ScopeIds, SP!Promised!Shared
<1>3. ASSUME NEW t PROVE E!Promised!Read(t) <=> SP!Promised!Read(t)
  BY DEF
     E!Promised!KindIds, E!Promised!Read, E!Promised!Snapshot, E!Apply, E!Committed, E!Forked,
     E!KindIds, E!Kinds, E!Own, E!ScopeIds, E!SessionSeen, E!StoreSeen, E!ToSet,
     SP!Promised!KindIds, SP!Promised!Read, SP!Promised!Snapshot, SP!Apply, SP!Committed,
     SP!Forked, SP!KindIds, SP!Kinds, SP!Own, SP!ScopeIds, SP!SessionSeen, SP!StoreSeen, SP!ToSet
<1>4. ASSUME NEW t PROVE E!Promised!Fork(t) <=> SP!Promised!Fork(t)
  BY SMTT(20) DEF
     E!Promised!Fork, E!Promised!KindIds, E!Promised!Kinds, E!Promised!Own, E!Promised!ScopeIds,
     E!Apply, E!Committed, E!Forked, E!KindIds, E!Kinds, E!Own, E!ScopeIds, E!SessionSeen,
     E!StoreSeen, E!ToSet, SP!Promised!Fork, SP!Promised!KindIds, SP!Promised!Kinds,
     SP!Promised!Own, SP!Promised!ScopeIds, SP!Apply, SP!Committed, SP!Forked, SP!KindIds,
     SP!Kinds, SP!Own, SP!ScopeIds, SP!SessionSeen, SP!StoreSeen, SP!ToSet
<1>5. ASSUME NEW t, NEW update PROVE E!Promised!Update(t, update) <=> SP!Promised!Update(t, update)
  BY DEF
     E!Promised!KindIds, E!Promised!Kinds, E!Promised!ScopeIds, E!Promised!Snapshot,
     E!Promised!Update, E!Apply, E!Bytes, E!Cardinality, E!Committed, E!Entries, E!Forked,
     E!KindIds, E!Kinds, E!Length, E!MapThenFoldSet, E!MapThenSumSet, E!Own, E!ScopeIds,
     E!SessionSeen, E!StoreSeen, E!ToSet, E!WithinLimits, SP!Promised!KindIds, SP!Promised!Kinds,
     SP!Promised!ScopeIds, SP!Promised!Snapshot, SP!Promised!Update, SP!Apply, SP!Bytes,
     SP!Cardinality, SP!Committed, SP!Entries, SP!Forked, SP!KindIds, SP!Kinds, SP!Length,
     SP!MapThenFoldSet, SP!MapThenSumSet, SP!Own, SP!ScopeIds, SP!SessionSeen, SP!StoreSeen,
     SP!ToSet, SP!WithinLimits
<1>6. UNCHANGED E!Promised!vars <=> UNCHANGED SP!Promised!vars
  BY DEF
     E!Promised!vars, E!Apply, E!Committed, E!Forked, E!KindIds, E!Kinds, E!Own, E!ScopeIds,
     E!SessionSeen, E!StoreSeen, E!ToSet, SP!Promised!vars, SP!Apply, SP!Committed, SP!Forked,
     SP!KindIds, SP!Kinds, SP!Own, SP!ScopeIds, SP!SessionSeen, SP!StoreSeen, SP!ToSet
<1>7. QED  BY <1>2, <1>3, <1>4, <1>5, <1>6 DEF E!Promised!Next, SP!Promised!Next

\* A step is one of the part that the behavior is of, and leaves the part.
LEMMA StepsOfAPart ==
  ASSUME [ExchangesNext]_exchangesVars
  PROVE  /\ part' = part
         /\ part = "grpc" => [Next]_vars
         /\ part = "environment" => [E!Next]_(E!vars)
         /\ part = "agent" => [A!Next]_(A!vars)
         /\ part = "runner" => [R!Next]_(R!vars)
         /\ part = "exchange" => [X!Next]_(X!vars)
         /\ part = "scripts" => [S!Next]_(S!vars)
         /\ part = "websocket" => [W!Next]_(W!vars)
<1>1. CASE ExchangesNext  BY <1>1 DEF ExchangesNext, Goes, OthersStay
<1>2. CASE UNCHANGED exchangesVars
  BY <1>2 DEF exchangesVars, environmentVars, agentVars, runnerVars, exchangeVars, scriptsVars,
              socketVars, vars, E!vars, A!vars, R!vars, X!vars, S!vars, W!vars
<1>3. QED  BY <1>1, <1>2

(***************************************************************************)
(* runner.rs:785 and :944: a run sends one request at a time, each once,   *)
(* and every one unless it is stopped or led elsewhere, and the app gets   *)
(* its cookies and variables only if they are to be kept, for any number   *)
(* of requests, iterations, pauses and runs.                               *)
(***************************************************************************)
THEOREM RunsStayExact ==
  ASSUME MaxIterations \in Nat, MaxRequests \in Nat
  PROVE  ExchangesSpec => []RunIsExact
<1> DEFINE Kept == part = "runner" => XP!RunInv
<1>1. ExchangesInit => Kept  BY RunnerIsSame, XP!RunStarts DEF ExchangesInit
<1>2. Kept /\ [ExchangesNext]_exchangesVars => Kept'
  <2> SUFFICES ASSUME Kept, [ExchangesNext]_exchangesVars PROVE Kept'  OBVIOUS
  <2>1. part' = part /\ (part = "runner" => [R!Next]_(R!vars))  BY StepsOfAPart
  <2>2. ASSUME part = "runner" PROVE XP!RunInv'
    <3>1. [XP!R!Next]_(XP!R!vars)  BY <2>1, <2>2, RunnerIsSame
    <3>2. QED  BY <2>2, <3>1, XP!RunStepKeeps
  <2>3. QED  BY <2>1, <2>2
<1>3. Kept => RunIsExact  BY RunnerIsSame, XP!WhatFollows DEF RunIsExact
<1>4. QED  BY <1>1, <1>2, <1>3, PTL DEF ExchangesSpec

(***************************************************************************)
(* runtime.rs:325: who gets a response is told of every script that ran    *)
(* and of every change that the session took, and of the scripts of a      *)
(* cancelled request at most one still changes it, for any limits.         *)
(***************************************************************************)
THEOREM ScriptsStayTold ==
  ASSUME XP!NetworkAssumed
  PROVE  ExchangesSpec => []ScriptsAreTold
<1> DEFINE Kept == part = "scripts" => XP!ScriptedInv
<1>1. ExchangesInit => Kept  BY ScriptedIsSame, XP!ScriptedStarts DEF ExchangesInit
<1>2. Kept /\ [ExchangesNext]_exchangesVars => Kept'
  <2> SUFFICES ASSUME Kept, [ExchangesNext]_exchangesVars PROVE Kept'  OBVIOUS
  <2>1. part' = part /\ (part = "scripts" => [S!Next]_(S!vars))  BY StepsOfAPart
  <2>2. ASSUME part = "scripts" PROVE XP!ScriptedInv'
    <3>1. [XP!S!Next]_(XP!S!vars)  BY <2>1, <2>2, ScriptedIsSame
    <3>2. QED  BY <2>2, <3>1, XP!ScriptedStepKeeps
  <2>3. QED  BY <2>1, <2>2
<1>3. Kept => ScriptsAreTold
  BY ScriptedIsSame, XP!ScriptedIsTyped, XP!ScriptedTells DEF ScriptsAreTold
<1>4. QED  BY <1>1, <1>2, <1>3, PTL DEF ExchangesSpec

(***************************************************************************)
(* execution.rs:323, invocation.rs:392 and draft.rs:490: the log of a      *)
(* stream shows what arrived and how it ended, and history has each        *)
(* request that went out once and the end of each call and connection that *)
(* began, for any sizes of the queues and any number of events.            *)
(***************************************************************************)
THEOREM ExchangesStayRecorded ==
  ASSUME Assumed, XP!LimitsAssumed, XP!QueueAssumed
  PROVE  ExchangesSpec => []ExchangesAreRecorded
<1> DEFINE Kept == /\ part = "grpc" => IInv /\ HistoryInv
                   /\ part = "exchange" => XP!ExchangeInv
                   /\ part = "websocket" => XP!SocketInv
<1>1. ExchangesInit => Kept
  <2> SUFFICES ASSUME ExchangesInit PROVE Kept  OBVIOUS
  <2>1. ASSUME part = "grpc" PROVE IInv /\ HistoryInv
    BY <2>1, InitFits, HistoryStarts DEF ExchangesInit
  <2>2. ASSUME part = "exchange" PROVE XP!ExchangeInv
    BY <2>2, ExchangeIsSame, XP!ExchangeStarts DEF ExchangesInit
  <2>3. ASSUME part = "websocket" PROVE XP!SocketInv
    BY <2>3, SocketIsSame, XP!SocketStarts DEF ExchangesInit
  <2>4. QED  BY <2>1, <2>2, <2>3
<1>2. Kept /\ [ExchangesNext]_exchangesVars => Kept'
  <2> SUFFICES ASSUME Kept, [ExchangesNext]_exchangesVars PROVE Kept'  OBVIOUS
  <2>1. /\ part' = part
        /\ part = "grpc" => [Next]_vars
        /\ part = "exchange" => [X!Next]_(X!vars)
        /\ part = "websocket" => [W!Next]_(W!vars)
    BY StepsOfAPart
  <2>2. ASSUME part = "grpc" PROVE IInv' /\ HistoryInv'
    <3>1. IInv'  BY <2>1, <2>2, StepKeeps
    <3>2. QED  BY <2>1, <2>2, <3>1, HistoryKeeps DEF IInv
  <2>3. ASSUME part = "exchange" PROVE XP!ExchangeInv'
    <3>1. [XP!X!Next]_(XP!X!vars)  BY <2>1, <2>3, ExchangeIsSame
    <3>2. QED  BY <2>3, <3>1, XP!ExchangeStepKeeps
  <2>4. ASSUME part = "websocket" PROVE XP!SocketInv'
    <3>1. [XP!W!Next]_(XP!W!vars)  BY <2>1, <2>4, SocketIsSame
    <3>2. QED  BY <2>4, <3>1, XP!SocketStepKeeps
  <2>5. QED  BY <2>1, <2>2, <2>3, <2>4
<1>3. Kept => ExchangesAreRecorded
  <2> SUFFICES ASSUME Kept PROVE ExchangesAreRecorded  OBVIOUS
  <2>1. ASSUME part = "exchange"
        PROVE  X!TypeOK /\ X!LogHoldsWhatArrived /\ X!StreamLogsEnd /\ X!HistoryHasWhatWentOut
    BY <2>1, ExchangeIsSame, XP!ExchangeIsTyped, XP!ArrivalsShown, XP!LogsClose, XP!RecordsOnce
  <2>2. part = "grpc" => HistoryPairsUp  BY DEF HistoryInv
  <2>3. ASSUME part = "websocket" PROVE W!HistoryPairsUp  BY <2>3, SocketIsSame DEF XP!SocketInv
  <2>4. QED  BY <2>1, <2>2, <2>3 DEF ExchangesAreRecorded
<1>4. QED  BY <1>1, <1>2, <1>3, PTL DEF ExchangesSpec

(***************************************************************************)
(* connection.rs:257 and panel.rs:60: a prompt runs in the options chosen  *)
(* before it, and of those that reach an agent the first one briefs it and *)
(* no other does, for any number of prompts, choices and troubles.         *)
(***************************************************************************)
THEOREM PromptsStayPrepared == ExchangesSpec => PromptsArePrepared
<1> DEFINE Kept == part = "agent" => SP!AgentInv
           Waits == part = "agent" => A!PromptWaited
<1>1. ExchangesInit => Kept  BY ThreadIsSame, SP!AgentInit DEF ExchangesInit
<1>2. Kept /\ [ExchangesNext]_exchangesVars => Kept' /\ [Waits]_agentVars
  <2> SUFFICES ASSUME Kept, [ExchangesNext]_exchangesVars PROVE Kept' /\ [Waits]_agentVars  OBVIOUS
  <2>1. part' = part /\ (part = "agent" => [A!Next]_(A!vars))  BY StepsOfAPart
  <2>2. ASSUME part = "agent" PROVE SP!AgentInv' /\ [A!PromptWaited]_(A!vars)
    <3>1. [SP!A!Next]_(SP!A!vars)  BY <2>1, <2>2, ThreadIsSame
    <3>2. SP!AgentInv'  BY <2>2, <3>1, SP!AgentInductive
    <3>3. [SP!A!PromptWaited]_(SP!A!vars)  BY <2>2, <3>1, SP!ReachesPrepared
    <3>4. QED  BY <3>2, <3>3, ThreadIsSame
  <2>3. UNCHANGED A!vars <=> UNCHANGED agentVars  BY DEF A!vars, agentVars
  <2>4. QED  BY <2>1, <2>2, <2>3
<1>3. Kept => (part = "agent" => A!TypeOK /\ A!FirstPromptBriefs)
  BY ThreadIsSame, SP!ThreadIsTyped DEF SP!AgentInv
<1>4. ExchangesSpec => [](part = "agent" => A!TypeOK /\ A!FirstPromptBriefs)
  BY <1>1, <1>2, <1>3, PTL DEF ExchangesSpec
<1>5. ExchangesSpec => [][Waits]_agentVars
  BY <1>1, <1>2, PTL DEF ExchangesSpec
<1>6. QED  BY <1>4, <1>5 DEF PromptsArePrepared

(***************************************************************************)
(* session.rs:157: for any tasks, collections and updates, what requests   *)
(* see of their variables is as if an update, a snapshot and a fork were   *)
(* one step each.                                                          *)
(***************************************************************************)
THEOREM UpdatesStayAtomic == ASSUME SP!Assumed PROVE ExchangesSpec => UpdatesAreAtomic
<1> DEFINE Kept == part = "environment" => SP!IInv
           FitsSeen == part = "environment" => SP!SeenFits
           Seen == IsEnvironment => E!Promised!Next
<1>1. ExchangesInit => Kept  BY EnvironmentIsSame, SP!InitFits DEF ExchangesInit
<1>2. ExchangesInit => (IsEnvironment => E!Promised!Init)
  BY EnvironmentIsSame, PromiseIsSame, SP!SeenAtFirst DEF ExchangesInit, IsEnvironment
<1>3. Kept => FitsSeen  BY SP!SeenRight
<1>4. Kept /\ [ExchangesNext]_exchangesVars => Kept'
  <2> SUFFICES ASSUME Kept, [ExchangesNext]_exchangesVars PROVE Kept'  OBVIOUS
  <2>1. part' = part /\ (part = "environment" => [E!Next]_(E!vars))  BY StepsOfAPart
  <2>2. ASSUME part = "environment" PROVE SP!IInv'  BY <2>1, <2>2, EnvironmentIsSame, SP!NextFits
  <2>3. QED  BY <2>1, <2>2
<1>5. Kept /\ Kept' /\ FitsSeen /\ FitsSeen' /\ [ExchangesNext]_exchangesVars => [Seen]_(E!Promised!vars)
  <2> SUFFICES ASSUME Kept, Kept', FitsSeen, FitsSeen', [ExchangesNext]_exchangesVars, IsEnvironment
               PROVE  [E!Promised!Next]_(E!Promised!vars)
    OBVIOUS
  <2>1. part = "environment" /\ part' = part /\ [E!Next]_(E!vars)  BY StepsOfAPart DEF IsEnvironment
  <2>2. SP!Both  BY <2>1 DEF SP!Both
  <2>3. [SP!Promised!Next]_(SP!Promised!vars)  BY <2>1, <2>2, EnvironmentIsSame, SP!StepIsSeen
  <2>4. QED  BY <2>3, PromiseIsSame
<1>6. QED  BY <1>1, <1>2, <1>3, <1>4, <1>5, PTL DEF ExchangesSpec, UpdatesAreAtomic

(***************************************************************************)
(* websocket.rs:384 and session.rs:161: the bytes that a reader waits for  *)
(* are those of the messages in the queue, and no updates and deletions of *)
(* tasks that overlap pass the limits of a scope, for any limits.          *)
(***************************************************************************)
THEOREM LimitsStayHeld ==
  ASSUME XP!LimitsAssumed, SP!Assumed, SP!LimitsAssumed
  PROVE  ExchangesSpec => []LimitsHold
<1> DEFINE Kept == /\ part = "websocket" => XP!SocketInv
                   /\ part = "environment" => SP!IInv /\ SP!LimitInv
<1>1. ExchangesInit => Kept
  <2> SUFFICES ASSUME ExchangesInit PROVE Kept  OBVIOUS
  <2>1. ASSUME part = "websocket" PROVE XP!SocketInv
    BY <2>1, SocketIsSame, XP!SocketStarts DEF ExchangesInit
  <2>2. ASSUME part = "environment" PROVE SP!IInv /\ SP!LimitInv
    BY <2>2, EnvironmentIsSame, SP!InitFits, SP!LimitsAtFirst DEF ExchangesInit
  <2>3. QED  BY <2>1, <2>2
<1>2. Kept /\ [ExchangesNext]_exchangesVars => Kept'
  <2> SUFFICES ASSUME Kept, [ExchangesNext]_exchangesVars PROVE Kept'  OBVIOUS
  <2>1. /\ part' = part
        /\ part = "websocket" => [W!Next]_(W!vars)
        /\ part = "environment" => [E!Next]_(E!vars)
    BY StepsOfAPart
  <2>2. ASSUME part = "websocket" PROVE XP!SocketInv'
    <3>1. [XP!W!Next]_(XP!W!vars)  BY <2>1, <2>2, SocketIsSame
    <3>2. QED  BY <2>2, <3>1, XP!SocketStepKeeps
  <2>3. ASSUME part = "environment" PROVE SP!IInv' /\ SP!LimitInv'
    <3>1. [SP!Next]_(SP!vars)  BY <2>1, <2>3, EnvironmentIsSame
    <3>2. QED  BY <2>3, <3>1, SP!NextFits, SP!LimitsStay
  <2>4. QED  BY <2>1, <2>2, <2>3
<1>3. Kept => LimitsHold
  <2> SUFFICES ASSUME Kept PROVE LimitsHold  OBVIOUS
  <2>1. ASSUME part = "websocket" PROVE W!TypeOK /\ W!BacklogIsExact
    BY <2>1, SocketIsSame DEF XP!SocketInv, XP!SocketTyped
  <2>2. ASSUME part = "environment" PROVE E!TypeOK /\ E!LimitsHold
    BY <2>2, EnvironmentIsSame, SP!IsTyped, SP!LimitsAre
  <2>3. QED  BY <2>1, <2>2 DEF LimitsHold
<1>4. QED  BY <1>1, <1>2, <1>3, PTL DEF ExchangesSpec
=============================================================================
