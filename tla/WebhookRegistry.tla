-------------------------- MODULE WebhookRegistry --------------------------
(***************************************************************************)
(* The webhooks collection and the requests that change it: the routes of  *)
(* webhook.routes.ts, the use cases behind them, and the repository.  A    *)
(* request reads the collection, works on an entity of its own, and writes *)
(* the whole entity back (replaceOne with upsert) or deletes it; requests  *)
(* of other processes run between the two.                                 *)
(***************************************************************************)
EXTENDS Naturals

CONSTANTS
  HookIds,     \* ids randomUUID may give
  Urls,
  HookEvents,  \* WebhookEvent
  Requests,    \* requests under way at a time
  MaxRequests, \* bound on requests
  NoHook

VARIABLES
  hooks,       \* the collection: id -> entity, or NoHook
  issued,      \* ids that have been given to a webhook
  request,     \* each request: what it will write, where, and why
  requested,   \* how many requests have begun
  serial,      \* history: the collection, had each write been one step with its read
  overlapped,  \* history: ids two requests have worked on at once
  contested    \* history: URLs an update wrote, or that were checked while
               \* another request was about to write them

registryVars == <<hooks, issued, request, requested, serial, overlapped, contested>>

Hook == [url : Urls, events : SUBSET HookEvents \ {{}}, active : BOOLEAN]

(* What PUT may ask for: some of url, events and active, each a set that   *)
(* holds the new value if there is one.                                    *)
Optional(S) == {{}} \cup {{x} : x \in S}

(* Variant: the schema accepts an empty list of events.                    *)
WishesForNone == [url : Optional(Urls), events : Optional(SUBSET HookEvents), active : Optional(BOOLEAN)]

Wishes == [url : Optional(Urls), events : Optional(SUBSET HookEvents \ {{}}), active : Optional(BOOLEAN)]

Idle == [stage |-> "idle"]

RequestState == {Idle}
  \cup [stage : {"creating"}, entity : Hook]
  \cup [stage : {"updating"}, id : HookIds, wish : Wishes, entity : Hook]
  \cup [stage : {"deleting"}, id : HookIds]

ASSUME NoHookAssumption == NoHook \notin Hook /\ MaxRequests \in Nat

RegistryTypeOK ==
  /\ hooks \in [HookIds -> Hook \cup {NoHook}]
  /\ serial \in [HookIds -> Hook \cup {NoHook}]
  /\ issued \subseteq HookIds /\ overlapped \subseteq HookIds
  /\ requested \in 0 .. MaxRequests
  /\ contested \subseteq Urls
  /\ request \in [Requests -> RequestState]
  /\ \A r \in Requests : request[r].stage \in {"updating", "deleting"} => request[r].id \in issued

(* A registry that is in use: some webhooks are there, each with its URL.  *)
RegistryInit ==
  /\ hooks \in [HookIds -> Hook \cup {NoHook}]
  /\ \A h, i \in HookIds : hooks[h] # NoHook /\ hooks[i] # NoHook /\ h # i => hooks[h].url # hooks[i].url
  /\ issued = {h \in HookIds : hooks[h] # NoHook}
  /\ request = [r \in Requests |-> Idle]
  /\ requested = 0
  /\ serial = hooks
  /\ overlapped = {}
  /\ contested = {}

-----------------------------------------------------------------------------
Kept == {h \in HookIds : hooks[h] # NoHook}

Begin(r, state) ==
  /\ request[r].stage = "idle"
  /\ requested < MaxRequests
  /\ requested' = requested + 1
  /\ request' = [request EXCEPT ![r] = state]

End(r) == request' = [request EXCEPT ![r] = Idle] /\ UNCHANGED requested

WorkingOn(h) == {r \in Requests : request[r].stage \in {"updating", "deleting"} /\ request[r].id = h}
Writing(u) == {r \in Requests : request[r].stage \in {"creating", "updating"} /\ request[r].entity.url = u}

(* CreateWebhookUseCase: the URL is not in the collection.  (If it is, the *)
(* request is refused and nothing changes.)                                *)
CheckUrl(r, u, es) ==
  /\ \A h \in Kept : hooks[h].url # u
  /\ Begin(r, [stage |-> "creating", entity |-> [url |-> u, events |-> es, active |-> TRUE]])
  /\ contested' = IF Writing(u) = {} THEN contested ELSE contested \cup {u}
  /\ UNCHANGED <<hooks, issued, serial, overlapped>>

SaveNew(r) ==
  /\ request[r].stage = "creating"
  /\ \E h \in HookIds \ issued :
       /\ hooks' = [hooks EXCEPT ![h] = request[r].entity]
       /\ serial' = [serial EXCEPT ![h] = request[r].entity]
       /\ issued' = issued \cup {h}
  /\ End(r)
  /\ UNCHANGED <<overlapped, contested>>

Given(wished, current) == IF wished = {} THEN current ELSE CHOOSE x \in wished : TRUE

(* Variant: `if (input.active)' in place of `!== undefined'.               *)
AppliedTruthy(w, hook) ==
  [url    |-> Given(w.url, hook.url),
   events |-> Given(w.events, hook.events),
   active |-> hook.active \/ w.active = {TRUE}]

(* updateUrl, updateEvents, and activate or deactivate.                    *)
Applied(w, hook) ==
  [url    |-> Given(w.url, hook.url),
   events |-> Given(w.events, hook.events),
   active |-> Given(w.active, hook.active)]

(* UpdateWebhookUseCase finds the webhook and changes its copy.  The new   *)
(* URL is not looked up.                                                   *)
FindHook(r, h, w) ==
  /\ h \in Kept
  /\ Begin(r, [stage |-> "updating", id |-> h, wish |-> w, entity |-> Applied(w, hooks[h])])
  /\ overlapped' = IF WorkingOn(h) = {} THEN overlapped ELSE overlapped \cup {h}
  /\ contested' = contested \cup w.url
  /\ UNCHANGED <<hooks, issued, serial>>

(* save: the whole document, inserted again if it has been deleted.        *)
SaveHook(r) ==
  /\ request[r].stage = "updating"
  /\ LET h == request[r].id
         w == request[r].wish
     IN /\ hooks' = [hooks EXCEPT ![h] = request[r].entity]
        /\ serial' = [serial EXCEPT ![h] =
                        IF @ = NoHook THEN NoHook
                        ELSE [f \in DOMAIN @ |-> IF w[f] = {} THEN @[f] ELSE CHOOSE x \in w[f] : TRUE]]
  /\ End(r)
  /\ UNCHANGED <<issued, overlapped, contested>>

FindDoomed(r, h) ==
  /\ h \in Kept
  /\ Begin(r, [stage |-> "deleting", id |-> h])
  /\ overlapped' = IF WorkingOn(h) = {} THEN overlapped ELSE overlapped \cup {h}
  /\ UNCHANGED <<hooks, issued, serial, contested>>

DeleteHook(r) ==
  /\ request[r].stage = "deleting"
  /\ hooks' = [hooks EXCEPT ![request[r].id] = NoHook]
  /\ serial' = [serial EXCEPT ![request[r].id] = NoHook]
  /\ End(r)
  /\ UNCHANGED <<issued, overlapped, contested>>

(* POST, PUT and DELETE of webhook.routes.ts: a body that the schema and   *)
(* zod accept goes to the use case.                                        *)
PostWebhook(r) == \E u \in Urls, es \in SUBSET HookEvents \ {{}} : CheckUrl(r, u, es)
PutWebhook(r) == \E h \in HookIds, w \in Wishes : FindHook(r, h, w)
DeleteWebhook(r) == \E h \in HookIds : FindDoomed(r, h)

RegistryNext ==
  \E r \in Requests :
    \/ PostWebhook(r) \/ SaveNew(r)
    \/ PutWebhook(r) \/ SaveHook(r)
    \/ DeleteWebhook(r) \/ DeleteHook(r)

RegistrySpec == RegistryInit /\ [][RegistryNext]_registryVars

-----------------------------------------------------------------------------
(* Requests on one webhook that do not overlap take effect one after the   *)
(* other, each changing what it names and nothing else.  Overlapping ones  *)
(* may lose an update, or bring a deleted webhook back.                    *)
RequestsAreSerial == \A h \in HookIds : h \in overlapped \/ hooks[h] = serial[h]

(* Two webhooks share a URL only if a PUT wrote it, or a POST checked it   *)
(* while another request was about to write it.                            *)
SharedUrlsHaveACause ==
  \A h, i \in Kept : h # i /\ hooks[h].url = hooks[i].url => hooks[h].url \in contested
=============================================================================
