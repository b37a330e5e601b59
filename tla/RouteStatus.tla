----------------------------- MODULE RouteStatus -----------------------------
(***************************************************************************)
(* status.MarkRoutesAccepted (controller/internal/status/writer.go): the   *)
(* reconciles of several Gateways, each in a goroutine of its own, and     *)
(* other controllers write entries into the status.parents list of the     *)
(* same Routes.                                                            *)
(*                                                                         *)
(* The three mark...RoutesAccepted functions are the same loop over three  *)
(* kinds; a Route here is of any kind.  Whether a parent accepts a Route   *)
(* is RouteAttachment's subject: here a verdict is identified by what it   *)
(* was computed from, the parentRef and the generations of the Route and   *)
(* of the Gateway.  A Route may be deleted and created again; a Gateway    *)
(* that is deleted stays so here.                                          *)
(***************************************************************************)
EXTENDS Naturals, Sequences, SequencesExt, FiniteSets

CONSTANTS
  Gateways,       \* Gateways of our class
  Routes,         \* HTTPRoutes, GRPCRoutes and TLSRoutes
  Sections,       \* what a parentRef may name of its Gateway (sectionName and port)
  RefLists,       \* the spec.parentRefs a Route may have, sorted by Gateway
  ConflictSteps,  \* 5, the steps of retry.DefaultRetry
  MaxEdits        \* bound: writes by users and other controllers

ASSUME BoundsAssumption ==
  /\ ConflictSteps \in Nat \ {0}
  /\ MaxEdits \in Nat

(* The API server refuses two parentRefs to the same section of a Gateway. *)
ASSUME RefListsAssumption ==
  /\ Sections # {}
  /\ RefLists \subseteq [Gateways -> Seq(Sections)]
  /\ [g \in Gateways |-> <<>>] \in RefLists
  /\ \A R \in RefLists : \A g \in Gateways : \A i, j \in 1 .. Len(R[g]) :
       R[g][i] = R[g][j] => i = j

VARIABLES
  gws,            \* generation of each Gateway, 0 when it is gone
  cache, stream,  \* of each Route: the informer's version, the ones after it
  phase, dirty,   \* the queue of Gateways
  pc,             \* of each Gateway's goroutine
  gen,            \* the Gateway's generation its reconcile read
  todo, cur,      \* Routes still to visit, and the one being written
  read,           \* the version of cur that Get returned
  newest,         \* it is still the newest version
  tries,          \* conflicts met by the current RetryOnConflict
  aborted,        \* Gateways whose last run did not visit every Route
  missed,         \* Routes created again in a gap of the watch, not visited since
  edits

queueVars == <<phase, dirty>>
runVars == <<pc, gen, todo, cur, read, newest, tries>>
vars == <<gws, cache, stream, phase, dirty, pc, gen, todo, cur, read, newest, tries,
          aborted, missed, edits>>

Queue == INSTANCE KeyQueue WITH Keys <- Gateways

(* An entry of status.parents.  Other controllers use their own names.     *)
Entries == [ctl : {"ours", "other"}, gw : Gateways, section : Sections, og : Nat, gg : Nat]

(* A version of a Route; gen is 0 when it does not exist.                  *)
Versions == [gen : Nat, refs : RefLists, parents : Seq(Entries)]

(* The entries of one controller for Gateway g.                            *)
EntriesFor(c, g) == [ctl : {c}, gw : {g}, section : Sections, og : Nat, gg : Nat]

(* The entries of s that are in S, in their order: the loop that appends   *)
(* the entries it keeps, written as a recursive function of its index.     *)
Keep(s, S) ==
  LET out[i \in 0 .. Len(s)] ==
        IF i = 0 THEN <<>>
        ELSE IF s[i] \in S THEN Append(out[i - 1], s[i]) ELSE out[i - 1]
  IN  out[Len(s)]

NoRoute == [gen |-> 0, refs |-> [g \in Gateways |-> <<>>], parents |-> <<>>]
Api(r) == Last(<<cache[r]>> \o stream[r])

TypeOK ==
  /\ gws \in [Gateways -> Nat]
  /\ cache \in [Routes -> Versions] /\ stream \in [Routes -> Seq(Versions)]
  /\ Queue!TypeOK
  /\ pc \in [Gateways -> {"off", "get", "write"}]
  /\ gen \in [Gateways -> Nat]
  /\ todo \in [Gateways -> SUBSET Routes]
  /\ cur \in [Gateways -> SUBSET Routes] /\ \A g \in Gateways : Cardinality(cur[g]) <= 1
  /\ read \in [Gateways -> Versions] /\ newest \in [Gateways -> BOOLEAN]
  /\ tries \in [Gateways -> 0 .. ConflictSteps - 1]
  /\ aborted \subseteq Gateways /\ missed \subseteq Routes
  /\ edits \in 0 .. MaxEdits

Init ==
  /\ gws = [g \in Gateways |-> 1]
  /\ \E R \in RefLists :
       cache = [r \in Routes |-> [gen |-> 1, refs |-> R, parents |-> <<>>]]
  /\ stream = [r \in Routes |-> <<>>]
  /\ phase = [g \in Gateways |-> "queued"] /\ dirty = {}
  /\ pc = [g \in Gateways |-> "off"]
  /\ gen = [g \in Gateways |-> 0]
  /\ todo = [g \in Gateways |-> {}] /\ cur = [g \in Gateways |-> {}]
  /\ read = [g \in Gateways |-> NoRoute] /\ newest = [g \in Gateways |-> FALSE]
  /\ tries = [g \in Gateways |-> 0]
  /\ aborted = {} /\ missed = {}
  /\ edits = 0

-----------------------------------------------------------------------------
(***************************************************************************)
(* Users, other controllers, and the informers.                            *)
(***************************************************************************)
Store(r, v) ==
  /\ stream' = [stream EXCEPT ![r] = Append(@, v)]
  /\ newest' = [g \in Gateways |-> newest[g] /\ r \notin cur[g]]

EditRoute(r) ==
  /\ edits < MaxEdits
  /\ edits' = edits + 1
  /\ \/ \E R \in RefLists :
          Store(r, IF Api(r).gen = 0 THEN [gen |-> 1, refs |-> R, parents |-> <<>>]
                   ELSE [Api(r) EXCEPT !.gen = @ + 1, !.refs = R])
     \/ Api(r).gen > 0 /\ Store(r, NoRoute)
  /\ UNCHANGED <<gws, cache, queueVars, pc, gen, todo, cur, read, tries, aborted, missed>>

EditGateway(g) ==
  /\ edits < MaxEdits
  /\ gws[g] > 0
  /\ edits' = edits + 1
  /\ \E n \in {0, gws[g] + 1} : gws' = [gws EXCEPT ![g] = n]
  /\ Queue!Enqueue(g)
  /\ UNCHANGED <<cache, stream, runVars, aborted, missed>>

(* Another controller adds its entry at the end, or removes it.            *)
NewForeign(r, g) ==
  [ctl |-> "other", gw |-> g, section |-> CHOOSE x \in Sections : TRUE, og |-> Api(r).gen, gg |-> 0]

ForeignWrite(r, g) ==
  /\ edits < MaxEdits
  /\ Api(r).gen > 0
  /\ edits' = edits + 1
  /\ LET rest == Keep(Api(r).parents, Entries \ EntriesFor("other", g))
     IN  Store(r, [Api(r) EXCEPT !.parents =
           IF Len(rest) = Len(@) THEN Append(rest, NewForeign(r, g)) ELSE rest])
  /\ UNCHANGED <<gws, cache, queueVars, pc, gen, todo, cur, read, tries, aborted, missed>>

(* The handler: a new generation, a Route that appears and one that is     *)
(* gone enqueue every Gateway that is listed.                              *)
ListedGateways == {g \in Gateways : gws[g] > 0}

Show(r, v) ==
  /\ cache' = [cache EXCEPT ![r] = v]
  /\ IF v.gen # cache[r].gen THEN Queue!EnqueueAll(ListedGateways) ELSE UNCHANGED queueVars

(* The watch delivers the next version.                                    *)
Sync(r) ==
  /\ stream[r] # <<>>
  /\ stream' = [stream EXCEPT ![r] = Tail(@)]
  /\ Show(r, Head(stream[r]))
  /\ missed' = IF Head(stream[r]).gen # cache[r].gen THEN {} ELSE missed
  /\ UNCHANGED <<gws, runVars, aborted, edits>>

(* After a lost watch the informer lists: it shows the newest version only.*)
(* A Route that was created again meanwhile may carry the old generation,  *)
(* which objectChanged takes for no change.                                *)
Relist(r) ==
  /\ Len(stream[r]) > 1
  /\ stream' = [stream EXCEPT ![r] = <<>>]
  /\ Show(r, Api(r))
  /\ missed' = IF Api(r).gen # cache[r].gen THEN {}
               ELSE IF \E i \in 1 .. Len(stream[r]) : stream[r][i].gen # cache[r].gen
                    THEN missed \cup {r} ELSE missed
  /\ UNCHANGED <<gws, runVars, aborted, edits>>

PeriodicRefresh ==
  /\ Queue!EnqueueAll(ListedGateways)
  /\ missed' = {}
  /\ UNCHANGED <<gws, cache, stream, runVars, aborted, edits>>

-----------------------------------------------------------------------------
(***************************************************************************)
(* routeParentStatuses and mergeRouteParents for Gateway g.                *)
(***************************************************************************)
(* One entry for each parentRef that names g, in the order of the refs.    *)
RouteParentStatuses(v, g) ==
  [i \in 1 .. Len(v.refs[g]) |->
     [ctl |-> "ours", gw |-> g, section |-> v.refs[g][i], og |-> v.gen, gg |-> gen[g]]]

(* parentStatusReferencesGateway, and the controller's own name.           *)
OwnEntries(g) == EntriesFor("ours", g)

(* Mutants: every entry of this controller is replaced, whichever Gateway  *)
(* it is for; entries of any controller for this Gateway are replaced; the *)
(* old entries are not removed.                                            *)
MergeRouteParentsAllOwn(existing, g, parents) ==
  Keep(existing, {e \in Entries : e.ctl # "ours"}) \o parents

MergeRouteParentsAnyOwner(existing, g, parents) ==
  Keep(existing, {e \in Entries : e.gw # g}) \o parents

MergeRouteParentsAppend(existing, g, parents) ==
  IF \E i \in DOMAIN existing : \E j \in DOMAIN parents : existing[i] = parents[j]
  THEN existing ELSE existing \o parents

MergeRouteParents(existing, g, parents) ==
  Keep(existing, Entries \ OwnEntries(g)) \o parents

Updated(v, g) == MergeRouteParents(v.parents, g, RouteParentStatuses(v, g))

-----------------------------------------------------------------------------
(***************************************************************************)
(* The end of Reconcile: MarkRoutesAccepted for a Gateway.                 *)
(***************************************************************************)
Leave(g) ==
  /\ pc' = [pc EXCEPT ![g] = "off"]
  /\ todo' = [todo EXCEPT ![g] = {}]
  /\ cur' = [cur EXCEPT ![g] = {}]
  /\ read' = [read EXCEPT ![g] = NoRoute]
  /\ newest' = [newest EXCEPT ![g] = FALSE]
  /\ tries' = [tries EXCEPT ![g] = 0]
  /\ gen' = [gen EXCEPT ![g] = 0]
  /\ Queue!Finish(g)

(* Reconcile reads the Gateway.  When it is gone only its infra objects    *)
(* are cleaned up: no Route is visited.  Otherwise the Routes are listed.  *)
Begin(g) ==
  /\ Queue!Begin(g)
  /\ pc' = [pc EXCEPT ![g] = "get"]
  /\ gen' = [gen EXCEPT ![g] = gws[g]]
  /\ todo' = [todo EXCEPT ![g] = IF gws[g] = 0 THEN {} ELSE {r \in Routes : cache[r].gen > 0}]
  /\ UNCHANGED <<gws, cache, stream, cur, read, newest, tries, aborted, missed, edits>>

(* The Get and DeepEqual of a Route, in the arbitrary order of List.       *)
GetRoute(g, r) ==
  /\ pc[g] = "get"
  /\ r \in (IF cur[g] # {} THEN cur[g] ELSE todo[g])
  /\ cache[r].gen > 0
  /\ todo' = [todo EXCEPT ![g] = @ \ {r}]
  /\ IF Updated(cache[r], g) = cache[r].parents
     THEN /\ cur' = [cur EXCEPT ![g] = {}]
          /\ tries' = [tries EXCEPT ![g] = 0]
          /\ UNCHANGED <<pc, read, newest>>
     ELSE /\ cur' = [cur EXCEPT ![g] = {r}]
          /\ pc' = [pc EXCEPT ![g] = "write"]
          /\ read' = [read EXCEPT ![g] = cache[r]]
          /\ newest' = [newest EXCEPT ![g] = (stream[r] = <<>>)]
          /\ UNCHANGED tries
  /\ UNCHANGED <<gws, cache, stream, queueVars, gen, aborted, missed, edits>>

(* Mutant: the update is not conditional on the resourceVersion.           *)
WriteRouteUnchecked(g, r) ==
  /\ pc[g] = "write" /\ r \in cur[g] /\ Api(r).gen > 0
  /\ stream' = [stream EXCEPT ![r] =
                  Append(@, [Api(r) EXCEPT !.parents = Updated(read[g], g)])]
  /\ newest' = [h \in Gateways |-> newest[h] /\ r \notin cur[h]]
  /\ pc' = [pc EXCEPT ![g] = "get"]
  /\ cur' = [cur EXCEPT ![g] = {}]
  /\ tries' = [tries EXCEPT ![g] = 0]
  /\ read' = [read EXCEPT ![g] = NoRoute]
  /\ UNCHANGED <<gws, cache, queueVars, gen, todo, aborted, missed, edits>>

(* The object that was read goes back with its status rewritten; the API   *)
(* server takes it while it is the newest version.                         *)
WriteRoute(g, r) ==
  /\ pc[g] = "write" /\ r \in cur[g]
  /\ newest[g]
  /\ pc' = [pc EXCEPT ![g] = "get"]
  /\ Store(r, [read[g] EXCEPT !.parents = Updated(read[g], g)])
  /\ cur' = [cur EXCEPT ![g] = {}]
  /\ tries' = [tries EXCEPT ![g] = 0]
  /\ read' = [read EXCEPT ![g] = NoRoute]
  /\ UNCHANGED <<gws, cache, queueVars, gen, todo, aborted, missed, edits>>

(* Mutant: one retry too many.                                             *)
WriteConflictOffByOne(g, r) ==
  /\ pc[g] = "write" /\ r \in cur[g]
  /\ ~newest[g]
  /\ Api(r).gen > 0
  /\ tries[g] + 1 <= ConflictSteps
  /\ tries' = [tries EXCEPT ![g] = @ + 1]
  /\ pc' = [pc EXCEPT ![g] = "get"]
  /\ read' = [read EXCEPT ![g] = NoRoute]
  /\ UNCHANGED <<gws, cache, stream, queueVars, gen, todo, cur, newest, aborted, missed, edits>>

(* A conflict: RetryOnConflict calls Get again.                            *)
WriteConflict(g, r) ==
  /\ pc[g] = "write" /\ r \in cur[g]
  /\ ~newest[g]
  /\ Api(r).gen > 0
  /\ tries[g] + 1 < ConflictSteps
  /\ tries' = [tries EXCEPT ![g] = @ + 1]
  /\ pc' = [pc EXCEPT ![g] = "get"]
  /\ read' = [read EXCEPT ![g] = NoRoute]
  /\ UNCHANGED <<gws, cache, stream, queueVars, gen, todo, cur, newest, aborted, missed, edits>>

(* The error of one Route ends the loop and is only logged: the Route is   *)
(* gone, or conflicts are used up.                                         *)
Abort(g) ==
  /\ \/ /\ pc[g] = "get"
        /\ \E r \in (IF cur[g] # {} THEN cur[g] ELSE todo[g]) : cache[r].gen = 0
     \/ /\ pc[g] = "write" /\ ~newest[g]
        /\ \E r \in cur[g] : Api(r).gen = 0 \/ tries[g] + 1 >= ConflictSteps
  /\ Leave(g)
  /\ aborted' = aborted \cup {g}
  /\ UNCHANGED <<gws, cache, stream, missed, edits>>

(* Reconcile fails before it reaches the Routes (a bad certificate, a data *)
(* plane that is not ready) or a request fails.                            *)
Fails(g) ==
  /\ pc[g] \in {"get", "write"}
  /\ Leave(g)
  /\ aborted' = aborted \cup {g}
  /\ UNCHANGED <<gws, cache, stream, missed, edits>>

End(g) ==
  /\ pc[g] = "get" /\ todo[g] = {} /\ cur[g] = {}
  /\ Leave(g)
  /\ aborted' = aborted \ {g}
  /\ UNCHANGED <<gws, cache, stream, missed, edits>>

-----------------------------------------------------------------------------
Run(g) ==
  \/ Begin(g) \/ Abort(g) \/ Fails(g) \/ End(g)
  \/ \E r \in Routes : GetRoute(g, r) \/ WriteRoute(g, r) \/ WriteConflict(g, r)

Next ==
  \/ \E r \in Routes : EditRoute(r) \/ Sync(r) \/ Relist(r) \/ \E g \in Gateways : ForeignWrite(r, g)
  \/ \E g \in Gateways : EditGateway(g) \/ Run(g)
  \/ PeriodicRefresh

Spec == Init /\ [][Next]_vars

-----------------------------------------------------------------------------
(***************************************************************************)
(* Properties.                                                             *)
(***************************************************************************)
AtRest ==
  /\ \A r \in Routes : stream[r] = <<>>
  /\ \A g \in Gateways : phase[g] = "idle"

EntriesOf(s, g) == Keep(s, OwnEntries(g))

(* What the status of Route r says of Gateway g when it is up to date.     *)
UpToDate(r, g) ==
  EntriesOf(Api(r).parents, g) =
    [i \in 1 .. Len(Api(r).refs[g]) |->
       [ctl |-> "ours", gw |-> g, section |-> Api(r).refs[g][i], og |-> Api(r).gen, gg |-> gws[g]]]

(* A status write for one Gateway keeps the entries of other controllers   *)
(* and of the other Gateways, in their order, although several goroutines  *)
(* and controllers rewrite the whole list of the same Route from a cache   *)
(* that lags.                                                              *)
OnlyOwnEntriesChange ==
  [][ \A g \in Gateways : \A r \in Routes :
        WriteRoute(g, r) =>
          Keep(Api(r)'.parents, Entries \ OwnEntries(g))
            = Keep(Api(r).parents, Entries \ OwnEntries(g)) ]_vars

(* This controller's entries for one Gateway on a Route are those of one   *)
(* run of routeParentStatuses: never two for the same parentRef, and never *)
(* entries of different generations of the Route or of the Gateway side by *)
(* side, whichever reconciles and controllers rewrote the list.            *)
OneEntryPerParentRef ==
  \A r \in Routes : \A g \in Gateways :
    LET own == EntriesOf(Api(r).parents, g)
    IN  \A i, j \in 1 .. Len(own) :
          /\ own[i].section = own[j].section => i = j
          /\ own[i].og = own[j].og /\ own[i].gg = own[j].gg

(* When the queues are empty, every Route says of every Gateway exactly    *)
(* what the current Route and the current Gateway give, one entry for each *)
(* parentRef, unless the Gateway's last run was cut short or the Route was *)
(* created again in a gap of the watch (until the next refresh).           *)
SettledRoutes ==
  AtRest => \A r \in Routes \ missed : \A g \in Gateways \ aborted :
    Api(r).gen > 0 /\ gws[g] > 0 => UpToDate(r, g)
=============================================================================
