--------------------------- MODULE Webhooks_proof ---------------------------
(***************************************************************************)
(* The webhooks, for any webhooks, URLs, requests and events to deliver:   *)
(* requests that do not overlap are serial, a URL is shared only when it   *)
(* is contested, and a delivery is retried after failures alone.           *)
(***************************************************************************)
EXTENDS WebhookDelivery, TLAPS

(* An entity that a request holds while nobody else works on its webhook   *)
(* is the stored one with the request's wish applied.                      *)
CopiesAreFresh ==
  \A r \in Requests :
    request[r].stage = "updating" /\ request[r].id \notin overlapped =>
      /\ hooks[request[r].id] # NoHook
      /\ request[r].entity = Applied(request[r].wish, hooks[request[r].id])

(* Two requests on one webhook have made it overlapped; a webhook that was *)
(* never issued is worked on by nobody and not stored.                     *)
OneWorker ==
  \A q, r \in Requests : \A h \in HookIds :
    q \in WorkingOn(h) /\ r \in WorkingOn(h) /\ h \notin overlapped => q = r

OnlyIssued == \A h \in HookIds : h \notin issued => hooks[h] = NoHook /\ serial[h] = NoHook

(* Who has a URL or is about to write it: a stored webhook, an update      *)
(* under way for its webhook, a creation under way.                        *)
HasUrl(h, u) ==
  \/ hooks[h] # NoHook /\ hooks[h].url = u
  \/ \E r \in Requests : request[r].stage = "updating" /\ request[r].id = h /\ request[r].entity.url = u
Creates(r, u) == request[r].stage = "creating" /\ request[r].entity.url = u

Exclusive(u) ==
  /\ \A h, i \in HookIds : HasUrl(h, u) /\ HasUrl(i, u) => h = i
  /\ \A q, r \in Requests : Creates(q, u) /\ Creates(r, u) => q = r
  /\ \A h \in HookIds, r \in Requests : ~(HasUrl(h, u) /\ Creates(r, u))

UrlsAreExclusive == \A u \in Urls : u \in contested \/ Exclusive(u)

RegistryInv ==
  /\ RegistryTypeOK
  /\ RequestsAreSerial
  /\ CopiesAreFresh /\ OneWorker /\ OnlyIssued
  /\ UrlsAreExclusive

-----------------------------------------------------------------------------
(* What the parts of a state are, and what a wish does to an entity.       *)
LEMMA StateTypes ==
  ASSUME RegistryTypeOK, NEW r \in Requests
  PROVE  /\ request[r] \in RequestState
         /\ request[r].stage \in {"idle", "creating", "updating", "deleting"}
         /\ request[r].stage = "creating" => request[r].entity \in Hook
         /\ request[r].stage = "updating" =>
              request[r].entity \in Hook /\ request[r].id \in HookIds /\ request[r].wish \in Wishes
         /\ request[r].stage = "deleting" => request[r].id \in HookIds
  BY DEF RegistryTypeOK, RequestState, Idle

LEMMA GivenType ==
  ASSUME NEW S, NEW x \in S, NEW w \in Optional(S)
  PROVE  Given(w, x) \in S /\ (w # {} => w = {Given(w, x)})
<1>1. CASE w = {}
  BY <1>1 DEF Given
<1>2. CASE w # {}
  <2>1. PICK y \in S : w = {y}
    BY <1>2 DEF Optional
  <2>2. (CHOOSE z \in w : TRUE) = y
    BY <2>1
  <2> QED BY <1>2, <2>1, <2>2 DEF Given
<1> QED BY <1>1, <1>2

LEMMA AppliedType ==
  ASSUME NEW hook \in Hook, NEW w \in Wishes
  PROVE  /\ Applied(w, hook) \in Hook
         /\ w.url = {} => Applied(w, hook).url = hook.url
         /\ w.url # {} => w.url = {Applied(w, hook).url}
<1>1. hook.url \in Urls /\ hook.events \in SUBSET HookEvents \ {{}} /\ hook.active \in BOOLEAN
  BY DEF Hook
<1>2. w.url \in Optional(Urls) /\ w.events \in Optional(SUBSET HookEvents \ {{}}) /\ w.active \in Optional(BOOLEAN)
  BY DEF Wishes
<1>3. Given(w.url, hook.url) \in Urls /\ (w.url # {} => w.url = {Given(w.url, hook.url)})
  BY <1>1, <1>2, GivenType
<1>4. Given(w.events, hook.events) \in SUBSET HookEvents \ {{}}
  <2> DEFINE Lists == SUBSET HookEvents \ {{}}
  <2>1. hook.events \in Lists /\ w.events \in Optional(Lists)
    BY <1>1, <1>2
  <2> HIDE DEF Lists
  <2>2. Given(w.events, hook.events) \in Lists
    BY <2>1, GivenType
  <2> QED BY <2>2 DEF Lists
<1>5. Given(w.active, hook.active) \in BOOLEAN
  BY <1>1, <1>2, GivenType
<1>6. w.url = {} => Given(w.url, hook.url) = hook.url
  BY DEF Given
<1> HIDE DEF Given
<1> QED BY <1>3, <1>4, <1>5, <1>6 DEF Applied, Hook

LEMMA InitInv == RegistryInit => RegistryInv
<1> SUFFICES ASSUME RegistryInit
             PROVE  RegistryInv
  OBVIOUS
<1>1. RegistryTypeOK
  BY NoHookAssumption DEF RegistryInit, RegistryTypeOK, RequestState, Idle
<1>2. \A r \in Requests : request[r].stage = "idle"
  BY DEF RegistryInit, Idle
<1>3. CopiesAreFresh /\ OneWorker /\ RequestsAreSerial /\ OnlyIssued
  BY <1>2 DEF RegistryInit, CopiesAreFresh, OneWorker, WorkingOn, RequestsAreSerial, OnlyIssued
<1>4. UrlsAreExclusive
  BY <1>2 DEF RegistryInit, UrlsAreExclusive, Exclusive, HasUrl, Creates
<1> QED BY <1>1, <1>3, <1>4 DEF RegistryInv

-----------------------------------------------------------------------------
(* A request begins: it goes from idle to a state of its own.              *)
LEMMA BeginEffect ==
  ASSUME RegistryInv, NEW r \in Requests, NEW state \in RequestState, Begin(r, state)
  PROVE  /\ request[r].stage = "idle"
         /\ \A q \in Requests : request'[q] = IF q = r THEN state ELSE request[q]
         /\ request' \in [Requests -> RequestState]
         /\ requested' \in 0 .. MaxRequests
  BY NoHookAssumption DEF Begin, RegistryInv, RegistryTypeOK

LEMMA EndEffect ==
  ASSUME RegistryInv, NEW r \in Requests, End(r)
  PROVE  /\ \A q \in Requests : request'[q] = IF q = r THEN Idle ELSE request[q]
         /\ request' \in [Requests -> RequestState]
         /\ requested' = requested
         /\ Idle.stage = "idle"
  BY DEF End, RegistryInv, RegistryTypeOK, RequestState, Idle

(* POST, the look-up: nobody stored has the URL, and whoever is about to   *)
(* write it makes it contested.                                            *)
LEMMA CheckUrlInv ==
  ASSUME RegistryInv, NEW r \in Requests, NEW u \in Urls,
         NEW es \in SUBSET HookEvents \ {{}}, CheckUrl(r, u, es)
  PROVE  RegistryInv'
<1> DEFINE entity == [url |-> u, events |-> es, active |-> TRUE]
           state == [stage |-> "creating", entity |-> entity]
<1>1. entity \in Hook /\ entity.url = u
  BY DEF Hook
<1> HIDE DEF entity
<1>2. state \in RequestState /\ state.stage = "creating" /\ state.entity = entity
  BY <1>1 DEF RequestState
<1>3. Begin(r, state) /\ UNCHANGED <<hooks, issued, serial, overlapped>>
  BY DEF CheckUrl, entity
<1> HIDE DEF state
<1>4. /\ request[r].stage = "idle"
      /\ \A q \in Requests : request'[q] = IF q = r THEN state ELSE request[q]
      /\ request' \in [Requests -> RequestState]
      /\ requested' \in 0 .. MaxRequests
  BY <1>2, <1>3, BeginEffect
<1>5. contested' \in SUBSET Urls /\ contested \subseteq contested'
      /\ (Writing(u) # {} => u \in contested')
  BY DEF CheckUrl, RegistryInv, RegistryTypeOK
<1>6. RegistryTypeOK'
  BY <1>2, <1>3, <1>4, <1>5 DEF RegistryInv, RegistryTypeOK
<1>7. (RequestsAreSerial /\ CopiesAreFresh /\ OneWorker /\ OnlyIssued)'
  BY <1>2, <1>3, <1>4
  DEF RegistryInv, RequestsAreSerial, CopiesAreFresh, OneWorker, WorkingOn, OnlyIssued
<1>8. UrlsAreExclusive'
  <2> SUFFICES ASSUME NEW v \in Urls, v \notin contested'
               PROVE  Exclusive(v)'
    BY DEF UrlsAreExclusive
  <2>1. Exclusive(v)
    BY <1>5 DEF RegistryInv, UrlsAreExclusive
  <2>2. \A h \in HookIds : HasUrl(h, v)' <=> HasUrl(h, v)
    BY <1>2, <1>3, <1>4 DEF HasUrl
  <2>3. \A q \in Requests : Creates(q, v)' <=> Creates(q, v) \/ (q = r /\ v = u)
    BY <1>1, <1>2, <1>4 DEF Creates
  <2>4. CASE v # u
    BY <2>1, <2>2, <2>3, <2>4 DEF Exclusive
  <2>5. CASE v = u
    <3>1. Writing(u) = {}
      BY <1>5, <2>5
    <3>2. \A q \in Requests : ~Creates(q, v)
      BY <2>5, <3>1 DEF Writing, Creates
    <3>3. \A h \in HookIds : ~HasUrl(h, v)
      BY <2>5, <3>1 DEF Writing, HasUrl, CheckUrl, Kept
    <3> QED BY <2>1, <2>2, <2>3, <3>2, <3>3 DEF Exclusive
  <2> QED BY <2>4, <2>5
<1> QED BY <1>6, <1>7, <1>8 DEF RegistryInv

(* POST, the write: the webhook takes over what the creation was about to  *)
(* write.                                                                  *)
LEMMA SaveNewInv ==
  ASSUME RegistryInv, NEW r \in Requests, SaveNew(r)
  PROVE  RegistryInv'
<1>1. PICK h \in HookIds \ issued :
        /\ hooks' = [hooks EXCEPT ![h] = request[r].entity]
        /\ serial' = [serial EXCEPT ![h] = request[r].entity]
        /\ issued' = issued \cup {h}
  BY DEF SaveNew
<1>2. request[r].stage = "creating" /\ request[r].entity \in Hook /\ UNCHANGED <<overlapped, contested>>
  BY StateTypes DEF SaveNew, RegistryInv
<1>3. /\ \A q \in Requests : request'[q] = IF q = r THEN Idle ELSE request[q]
      /\ request' \in [Requests -> RequestState]
      /\ requested' = requested /\ Idle.stage = "idle"
  BY EndEffect DEF SaveNew
<1>4. RegistryTypeOK'
  BY <1>1, <1>2, <1>3 DEF RegistryInv, RegistryTypeOK
<1>5. \A i \in HookIds : i # h => hooks'[i] = hooks[i] /\ serial'[i] = serial[i]
  BY <1>1 DEF RegistryInv, RegistryTypeOK
<1>6. hooks'[h] = request[r].entity /\ serial'[h] = request[r].entity
  BY <1>1 DEF RegistryInv, RegistryTypeOK
<1>7. \A q \in Requests : request[q].stage \in {"updating", "deleting"} => request[q].id # h
  BY <1>1 DEF RegistryInv, RegistryTypeOK
<1>8. (RequestsAreSerial /\ OnlyIssued)'
  BY <1>1, <1>2, <1>5, <1>6 DEF RegistryInv, RequestsAreSerial, OnlyIssued
<1>9. CopiesAreFresh'
  <2> SUFFICES ASSUME NEW q \in Requests, request'[q].stage = "updating", request'[q].id \notin overlapped
               PROVE  /\ hooks'[request'[q].id] # NoHook
                      /\ request'[q].entity = Applied(request'[q].wish, hooks'[request'[q].id])
    BY <1>2 DEF CopiesAreFresh
  <2>1. q # r /\ request'[q] = request[q]
    BY <1>3
  <2>2. request[q].id \in HookIds /\ request[q].id # h
    BY <2>1, <1>7, StateTypes DEF RegistryInv
  <2> QED BY <2>1, <2>2, <1>5 DEF RegistryInv, CopiesAreFresh
<1>10. OneWorker'
  BY <1>2, <1>3 DEF RegistryInv, OneWorker, WorkingOn
<1>11. UrlsAreExclusive'
  <2> SUFFICES ASSUME NEW v \in Urls, v \notin contested
               PROVE  Exclusive(v)'
    BY <1>2 DEF UrlsAreExclusive
  <2>1. Exclusive(v)
    BY DEF RegistryInv, UrlsAreExclusive
  <2>2. \A i \in HookIds : HasUrl(i, v)' => HasUrl(i, v) \/ (i = h /\ Creates(r, v))
    BY <1>2, <1>3, <1>5, <1>6 DEF HasUrl, Creates
  <2>3. \A q \in Requests : Creates(q, v)' => Creates(q, v) /\ q # r
    BY <1>3 DEF Creates
  <2> QED BY <2>1, <2>2, <2>3 DEF Exclusive
<1> QED BY <1>4, <1>8, <1>9, <1>10, <1>11 DEF RegistryInv

(* PUT, the look-up: the new URL, if there is one, is contested at once.   *)
LEMMA FindHookInv ==
  ASSUME RegistryInv, NEW r \in Requests, NEW h \in HookIds, NEW w \in Wishes, FindHook(r, h, w)
  PROVE  RegistryInv'
<1> DEFINE entity == Applied(w, hooks[h])
           state == [stage |-> "updating", id |-> h, wish |-> w, entity |-> entity]
<1>0. hooks[h] \in Hook /\ hooks[h] # NoHook
  BY DEF FindHook, Kept, RegistryInv, RegistryTypeOK
<1>1. entity \in Hook /\ (w.url = {} => entity.url = hooks[h].url) /\ (w.url # {} => w.url = {entity.url})
  BY <1>0, AppliedType
<1>2. entity = Applied(w, hooks[h])
  OBVIOUS
<1>u. w.url \subseteq Urls
  BY DEF Wishes, Optional
<1>i. h \in issued
  BY <1>0 DEF RegistryInv, OnlyIssued
<1>b. Begin(r, state) /\ UNCHANGED <<hooks, issued, serial>>
  BY DEF FindHook
<1> HIDE DEF entity
<1>3. /\ state \in RequestState /\ state.stage = "updating" /\ state.id = h
      /\ state.wish = w /\ state.entity = entity
  BY <1>1 DEF RequestState
<1> HIDE DEF state
<1>4. /\ request[r].stage = "idle"
      /\ \A q \in Requests : request'[q] = IF q = r THEN state ELSE request[q]
      /\ request' \in [Requests -> RequestState]
      /\ requested' \in 0 .. MaxRequests
  BY <1>3, <1>b, BeginEffect
<1>5. /\ overlapped' \subseteq HookIds /\ overlapped \subseteq overlapped'
      /\ WorkingOn(h) # {} => h \in overlapped'
  BY DEF FindHook, RegistryInv, RegistryTypeOK
<1>6. contested' = contested \cup w.url
  BY DEF FindHook
<1>7. RegistryTypeOK'
  BY <1>3, <1>4, <1>5, <1>6, <1>u, <1>i, <1>b DEF RegistryInv, RegistryTypeOK
<1>8. (RequestsAreSerial /\ OnlyIssued)'
  BY <1>5, <1>b DEF RegistryInv, RequestsAreSerial, OnlyIssued
<1>9. CopiesAreFresh'
  BY <1>0, <1>2, <1>3, <1>4, <1>5, <1>b DEF RegistryInv, CopiesAreFresh
<1>10. OneWorker'
  BY <1>3, <1>4, <1>5 DEF RegistryInv, OneWorker, WorkingOn
<1>11. UrlsAreExclusive'
  <2> SUFFICES ASSUME NEW v \in Urls, v \notin contested'
               PROVE  Exclusive(v)'
    BY DEF UrlsAreExclusive
  <2>1. Exclusive(v)
    BY <1>6 DEF RegistryInv, UrlsAreExclusive
  <2>2. entity.url = v => HasUrl(h, v)
    BY <1>0, <1>1, <1>6 DEF HasUrl
  <2>3. \A i \in HookIds : HasUrl(i, v)' => HasUrl(i, v)
    BY <1>3, <1>4, <1>b, <2>2 DEF HasUrl
  <2>4. \A q \in Requests : Creates(q, v)' => Creates(q, v)
    BY <1>3, <1>4 DEF Creates
  <2> QED BY <2>1, <2>3, <2>4 DEF Exclusive
<1> QED BY <1>7, <1>8, <1>9, <1>10, <1>11 DEF RegistryInv

(* What SaveHook does to the serial collection is what Applied does.       *)
LEMMA SerialApplies ==
  ASSUME NEW hook \in Hook, NEW w \in Wishes
  PROVE  [f \in DOMAIN hook |-> IF w[f] = {} THEN hook[f] ELSE CHOOSE x \in w[f] : TRUE] = Applied(w, hook)
<1>1. DOMAIN hook = {"url", "events", "active"}
  BY DEF Hook
<1>2. Applied(w, hook) = [f \in {"url", "events", "active"} |-> Given(w[f], hook[f])]
  BY DEF Applied
<1> QED BY <1>1, <1>2 DEF Given

(* PUT, the write: the webhook keeps a URL the update had for it already.  *)
LEMMA SaveHookInv ==
  ASSUME RegistryInv, NEW r \in Requests, SaveHook(r)
  PROVE  RegistryInv'
<1> DEFINE h == request[r].id
           w == request[r].wish
<1>1. request[r].stage = "updating" /\ UNCHANGED <<issued, overlapped, contested>>
  BY DEF SaveHook
<1>2. h \in HookIds /\ h \in issued /\ w \in Wishes /\ request[r].entity \in Hook
  BY <1>1, StateTypes DEF RegistryInv, RegistryTypeOK
<1>3. /\ \A q \in Requests : request'[q] = IF q = r THEN Idle ELSE request[q]
      /\ request' \in [Requests -> RequestState]
      /\ requested' = requested /\ Idle.stage = "idle"
  BY EndEffect DEF SaveHook
<1>4. hooks' = [hooks EXCEPT ![h] = request[r].entity]
  BY DEF SaveHook
<1>5. serial' = [serial EXCEPT ![h] =
                   IF serial[h] = NoHook THEN NoHook
                   ELSE [f \in DOMAIN serial[h] |->
                          IF w[f] = {} THEN serial[h][f] ELSE CHOOSE x \in w[f] : TRUE]]
  BY DEF SaveHook
<1>6. serial'[h] = IF serial[h] = NoHook THEN NoHook ELSE Applied(w, serial[h])
  BY <1>2, <1>5, SerialApplies DEF RegistryInv, RegistryTypeOK
<1>7. serial'[h] \in Hook \cup {NoHook}
  BY <1>2, <1>6, AppliedType DEF RegistryInv, RegistryTypeOK
<1>8. \A i \in HookIds : i # h => hooks'[i] = hooks[i] /\ serial'[i] = serial[i]
  BY <1>4, <1>5 DEF RegistryInv, RegistryTypeOK
<1>9. hooks'[h] = request[r].entity /\ hooks'[h] # NoHook
  BY <1>2, <1>4, NoHookAssumption DEF RegistryInv, RegistryTypeOK
<1>10. hooks' \in [HookIds -> Hook \cup {NoHook}] /\ serial' \in [HookIds -> Hook \cup {NoHook}]
  <2>1. hooks' \in [HookIds -> Hook \cup {NoHook}]
    BY <1>2, <1>4 DEF RegistryInv, RegistryTypeOK
  <2>2. DOMAIN serial' = HookIds /\ serial' = [i \in HookIds |-> serial'[i]]
    BY <1>5 DEF RegistryInv, RegistryTypeOK
  <2>3. \A i \in HookIds : serial'[i] \in Hook \cup {NoHook}
    BY <1>7, <1>8 DEF RegistryInv, RegistryTypeOK
  <2> QED BY <2>1, <2>2, <2>3
<1>11. RegistryTypeOK'
  BY <1>1, <1>3, <1>10 DEF RegistryInv, RegistryTypeOK
<1>12. RequestsAreSerial'
  <2>1. h \notin overlapped => hooks[h] # NoHook /\ request[r].entity = Applied(w, hooks[h]) /\ serial[h] = hooks[h]
    BY <1>1, <1>2 DEF RegistryInv, CopiesAreFresh, RequestsAreSerial
  <2>2. h \notin overlapped => hooks'[h] = serial'[h]
    BY <2>1, <1>6, <1>9
  <2> HIDE DEF h, w
  <2> QED BY <2>2, <1>1, <1>2, <1>8 DEF RegistryInv, RequestsAreSerial
<1>13. OnlyIssued'
  <2> HIDE DEF h, w
  <2> QED BY <1>1, <1>2, <1>8 DEF RegistryInv, OnlyIssued
<1>14. CopiesAreFresh'
  <2> SUFFICES ASSUME NEW q \in Requests, request'[q].stage = "updating", request'[q].id \notin overlapped
               PROVE  /\ hooks'[request'[q].id] # NoHook
                      /\ request'[q].entity = Applied(request'[q].wish, hooks'[request'[q].id])
    BY <1>1 DEF CopiesAreFresh
  <2>1. q # r /\ request'[q] = request[q]
    BY <1>3
  <2>2. request[q].id \in HookIds
    BY <2>1, StateTypes DEF RegistryInv
  <2>3. request[q].id # h
    BY <1>1, <1>2, <2>1, <2>2 DEF RegistryInv, OneWorker, WorkingOn
  <2> QED BY <2>1, <2>2, <2>3, <1>8 DEF RegistryInv, CopiesAreFresh
<1>15. OneWorker'
  BY <1>1, <1>3 DEF RegistryInv, OneWorker, WorkingOn
<1>16. UrlsAreExclusive'
  <2> SUFFICES ASSUME NEW v \in Urls, v \notin contested
               PROVE  Exclusive(v)'
    BY <1>1 DEF UrlsAreExclusive
  <2>1. Exclusive(v)
    BY DEF RegistryInv, UrlsAreExclusive
  <2>2. \A i \in HookIds : HasUrl(i, v)' => HasUrl(i, v)
    BY <1>1, <1>3, <1>8, <1>9 DEF HasUrl
  <2>3. \A q \in Requests : Creates(q, v)' => Creates(q, v)
    BY <1>3 DEF Creates
  <2> QED BY <2>1, <2>2, <2>3 DEF Exclusive
<1> QED BY <1>11, <1>12, <1>13, <1>14, <1>15, <1>16 DEF RegistryInv

(* DELETE, the look-up.                                                    *)
LEMMA FindDoomedInv ==
  ASSUME RegistryInv, NEW r \in Requests, NEW h \in HookIds, FindDoomed(r, h)
  PROVE  RegistryInv'
<1> DEFINE state == [stage |-> "deleting", id |-> h]
<1>1. state \in RequestState /\ state.stage = "deleting" /\ state.id = h
  BY DEF RequestState
<1>2. Begin(r, state) /\ UNCHANGED <<hooks, issued, serial, contested>>
  BY DEF FindDoomed
<1> HIDE DEF state
<1>3. /\ request[r].stage = "idle"
      /\ \A q \in Requests : request'[q] = IF q = r THEN state ELSE request[q]
      /\ request' \in [Requests -> RequestState]
      /\ requested' \in 0 .. MaxRequests
  BY <1>1, <1>2, BeginEffect
<1>4. /\ overlapped' \subseteq HookIds /\ overlapped \subseteq overlapped'
      /\ WorkingOn(h) # {} => h \in overlapped'
  BY DEF FindDoomed, RegistryInv, RegistryTypeOK
<1>5. h \in issued
  BY DEF FindDoomed, Kept, RegistryInv, OnlyIssued
<1>6. RegistryTypeOK'
  BY <1>1, <1>2, <1>3, <1>4, <1>5 DEF RegistryInv, RegistryTypeOK
<1>7. (RequestsAreSerial /\ OnlyIssued /\ CopiesAreFresh)'
  BY <1>1, <1>2, <1>3, <1>4 DEF RegistryInv, RequestsAreSerial, OnlyIssued, CopiesAreFresh
<1>8. OneWorker'
  BY <1>1, <1>3, <1>4 DEF RegistryInv, OneWorker, WorkingOn
<1>9. UrlsAreExclusive'
  <2> SUFFICES ASSUME NEW v \in Urls, v \notin contested
               PROVE  Exclusive(v)'
    BY <1>2 DEF UrlsAreExclusive
  <2>1. Exclusive(v)
    BY DEF RegistryInv, UrlsAreExclusive
  <2>2. \A i \in HookIds : HasUrl(i, v)' => HasUrl(i, v)
    BY <1>1, <1>2, <1>3 DEF HasUrl
  <2>3. \A q \in Requests : Creates(q, v)' => Creates(q, v)
    BY <1>1, <1>3 DEF Creates
  <2> QED BY <2>1, <2>2, <2>3 DEF Exclusive
<1> QED BY <1>6, <1>7, <1>8, <1>9 DEF RegistryInv

(* DELETE, the write.                                                      *)
LEMMA DeleteHookInv ==
  ASSUME RegistryInv, NEW r \in Requests, DeleteHook(r)
  PROVE  RegistryInv'
<1> DEFINE h == request[r].id
<1>1. request[r].stage = "deleting" /\ UNCHANGED <<issued, overlapped, contested>>
  BY DEF DeleteHook
<1>2. h \in HookIds
  BY <1>1, StateTypes DEF RegistryInv
<1>3. /\ \A q \in Requests : request'[q] = IF q = r THEN Idle ELSE request[q]
      /\ request' \in [Requests -> RequestState]
      /\ requested' = requested /\ Idle.stage = "idle"
  BY EndEffect DEF DeleteHook
<1>4. hooks' = [hooks EXCEPT ![h] = NoHook] /\ serial' = [serial EXCEPT ![h] = NoHook]
  BY DEF DeleteHook
<1>5. RegistryTypeOK'
  BY <1>1, <1>2, <1>3, <1>4 DEF RegistryInv, RegistryTypeOK
<1>6. hooks'[h] = NoHook /\ serial'[h] = NoHook
  BY <1>2, <1>4 DEF RegistryInv, RegistryTypeOK
<1>7. \A i \in HookIds : i # h => hooks'[i] = hooks[i] /\ serial'[i] = serial[i]
  BY <1>4 DEF RegistryInv, RegistryTypeOK
<1>8. (RequestsAreSerial /\ OnlyIssued)'
  <2> HIDE DEF h
  <2> QED BY <1>1, <1>6, <1>7 DEF RegistryInv, RequestsAreSerial, OnlyIssued
<1>9. CopiesAreFresh'
  <2> SUFFICES ASSUME NEW q \in Requests, request'[q].stage = "updating", request'[q].id \notin overlapped
               PROVE  /\ hooks'[request'[q].id] # NoHook
                      /\ request'[q].entity = Applied(request'[q].wish, hooks'[request'[q].id])
    BY <1>1 DEF CopiesAreFresh
  <2>1. q # r /\ request'[q] = request[q]
    BY <1>3
  <2>2. request[q].id \in HookIds
    BY <2>1, StateTypes DEF RegistryInv
  <2>3. request[q].id # h
    BY <1>1, <1>2, <2>1, <2>2 DEF RegistryInv, OneWorker, WorkingOn
  <2> QED BY <2>1, <2>2, <2>3, <1>7 DEF RegistryInv, CopiesAreFresh
<1>10. OneWorker'
  BY <1>1, <1>3 DEF RegistryInv, OneWorker, WorkingOn
<1>11. UrlsAreExclusive'
  <2> SUFFICES ASSUME NEW v \in Urls, v \notin contested
               PROVE  Exclusive(v)'
    BY <1>1 DEF UrlsAreExclusive
  <2>1. Exclusive(v)
    BY DEF RegistryInv, UrlsAreExclusive
  <2>2. \A i \in HookIds : HasUrl(i, v)' => HasUrl(i, v)
    BY <1>3, <1>6, <1>7 DEF HasUrl
  <2>3. \A q \in Requests : Creates(q, v)' => Creates(q, v)
    BY <1>3 DEF Creates
  <2> QED BY <2>1, <2>2, <2>3 DEF Exclusive
<1> QED BY <1>5, <1>8, <1>9, <1>10, <1>11 DEF RegistryInv

-----------------------------------------------------------------------------
LEMMA Inductive == RegistryInv /\ [RegistryNext]_registryVars => RegistryInv'
<1> SUFFICES ASSUME RegistryInv, [RegistryNext]_registryVars
             PROVE  RegistryInv'
  OBVIOUS
<1>1. CASE UNCHANGED registryVars
  BY <1>1
  DEF registryVars, RegistryInv, RegistryTypeOK, RequestsAreSerial, CopiesAreFresh, OneWorker,
      WorkingOn, OnlyIssued, UrlsAreExclusive, Exclusive, HasUrl, Creates
<1>2. CASE RegistryNext
  <2> PICK r \in Requests :
        \/ PostWebhook(r) \/ SaveNew(r)
        \/ PutWebhook(r) \/ SaveHook(r)
        \/ DeleteWebhook(r) \/ DeleteHook(r)
    BY <1>2 DEF RegistryNext
  <2>1. CASE PostWebhook(r)
    BY <2>1, CheckUrlInv DEF PostWebhook
  <2>2. CASE SaveNew(r)
    BY <2>2, SaveNewInv
  <2>3. CASE PutWebhook(r)
    BY <2>3, FindHookInv DEF PutWebhook
  <2>4. CASE SaveHook(r)
    BY <2>4, SaveHookInv
  <2>5. CASE DeleteWebhook(r)
    BY <2>5, FindDoomedInv DEF DeleteWebhook
  <2>6. CASE DeleteHook(r)
    BY <2>6, DeleteHookInv
  <2> QED BY <2>1, <2>2, <2>3, <2>4, <2>5, <2>6
<1> QED BY <1>1, <1>2

LEMMA RegistryInvariant == RegistrySpec => []RegistryInv
  BY InitInv, Inductive, PTL DEF RegistrySpec

(* The registry keeps its types: a stored webhook has a URL and listens to *)
(* at least one event, whatever requests create, change and delete it.     *)
THEOREM RegistryTyping == RegistrySpec => []RegistryTypeOK
<1>1. RegistryInv => RegistryTypeOK
  BY DEF RegistryInv
<1> QED BY <1>1, RegistryInvariant, PTL

(* Updates and deletions of webhooks (findById, then replaceOne or         *)
(* deleteOne) that do not overlap are serial, for any number of requests.  *)
THEOREM RequestsAreSerialHolds == RegistrySpec => []RequestsAreSerial
<1>1. RegistryInv => RequestsAreSerial
  BY DEF RegistryInv
<1> QED BY <1>1, RegistryInvariant, PTL

(* The look-up of POST keeps URLs apart but for the two ways past it: a    *)
(* PUT, which makes no look-up, and a look-up before another's write.      *)
THEOREM SharedUrlsHaveACauseHolds == RegistrySpec => []SharedUrlsHaveACause
<1>1. RegistryInv => SharedUrlsHaveACause
  <2> SUFFICES ASSUME RegistryInv, NEW h \in Kept, NEW i \in Kept, h # i, hooks[h].url = hooks[i].url
               PROVE  hooks[h].url \in contested
    BY DEF SharedUrlsHaveACause
  <2>1. h \in HookIds /\ i \in HookIds /\ hooks[h] # NoHook /\ hooks[i] # NoHook
    BY DEF Kept
  <2>2. hooks[h].url \in Urls
    <3>1. hooks[h] \in Hook
      BY <2>1 DEF RegistryInv, RegistryTypeOK
    <3> QED BY <3>1 DEF Hook
  <2>3. HasUrl(h, hooks[h].url) /\ HasUrl(i, hooks[h].url)
    BY <2>1 DEF HasUrl
  <2>4. ~Exclusive(hooks[h].url)
    BY <2>1, <2>3 DEF Exclusive
  <2> QED BY <2>2, <2>4 DEF RegistryInv, UrlsAreExclusive
<1> QED BY <1>1, RegistryInvariant, PTL

-----------------------------------------------------------------------------
(* Deliveries.  A call that has not looked for webhooks has begun no       *)
(* delivery; one that is not made has no answer; one under way, or lost on *)
(* its way, has failed so far and has posts left.                          *)
Deliveries == Announcements \X HookIds

DeliveryTypeOK ==
  /\ queueing \in BOOLEAN
  /\ dispatch \in [Announcements -> {"none", "looking", "looked", "lost"}]
  /\ delivery \in [Deliveries -> {"none", "unqueued", "posting", "delivered", "gave_up", "lost"}]
  /\ answers \in [Deliveries -> Seq(Answers)]
  /\ deaths \in Nat

Failed(d) == \A i \in 1 .. Len(answers[d]) : answers[d][i] \in {"client_error", "failed"}

RetriesOf(d) ==
  /\ Len(answers[d]) <= MaxRetries
  /\ \A i \in 1 .. Len(answers[d]) : i < Len(answers[d]) => answers[d][i] \notin {"ok", "other"}
  /\ delivery[d] = "delivered" <=> \E i \in 1 .. Len(answers[d]) : answers[d][i] = "ok"
  /\ delivery[d] = "gave_up" =>
       Len(answers[d]) = MaxRetries \/ answers[d][Len(answers[d])] # "failed"

DeliveryOf(d) ==
  /\ dispatch[d[1]] \in {"none", "looking"} => delivery[d] = "none"
  /\ delivery[d] \in {"none", "unqueued"} => answers[d] = <<>>
  /\ delivery[d] \in {"posting", "lost"} => Len(answers[d]) < MaxRetries /\ Failed(d)
  /\ RetriesOf(d)

DeliveryInv == DeliveryTypeOK /\ \A d \in Deliveries : DeliveryOf(d)

LEMMA NoAnswers ==
  ASSUME NEW d, answers[d] = <<>>, delivery[d] \notin {"delivered", "gave_up"}
  PROVE  RetriesOf(d) /\ Len(answers[d]) < MaxRetries /\ Failed(d)
<1>1. Len(answers[d]) = 0 /\ MaxRetries \in Nat \ {0}
  BY DeliveryAssumption
<1> QED BY <1>1 DEF RetriesOf, Failed

LEMMA DeliveryInit == WebhookInit => DeliveryInv
<1> SUFFICES ASSUME WebhookInit PROVE DeliveryInv
  OBVIOUS
<1>1. DeliveryTypeOK
  BY DEF WebhookInit, DeliveryTypeOK, Deliveries
<1>2. ASSUME NEW d \in Deliveries PROVE DeliveryOf(d)
  <2>1. delivery[d] = "none" /\ answers[d] = <<>>
    BY DEF WebhookInit, Deliveries
  <2> QED BY <2>1, NoAnswers DEF DeliveryOf
<1> QED BY <1>1, <1>2 DEF DeliveryInv

LEMMA DeliveryAnnounce ==
  ASSUME DeliveryInv, NEW a \in Announcements, Announce(a)
  PROVE  DeliveryInv'
<1>1. DeliveryTypeOK'
  BY DEF DeliveryInv, DeliveryTypeOK, Announce
<1>2. ASSUME NEW d \in Deliveries PROVE DeliveryOf(d)'
  <2>1. UNCHANGED <<delivery, answers>> /\ (dispatch'[d[1]] = dispatch[d[1]] \/ dispatch[d[1]] = "none")
    BY DEF DeliveryInv, DeliveryTypeOK, Announce, Deliveries
  <2> QED BY <2>1 DEF DeliveryInv, DeliveryOf, RetriesOf, Failed
<1> QED BY <1>1, <1>2 DEF DeliveryInv

LEMMA DeliveryDeliver ==
  ASSUME DeliveryInv, NEW a \in Announcements, DeliverEvent(a)
  PROVE  DeliveryInv'
<1>1. /\ DOMAIN delivery = Deliveries
      /\ UNCHANGED <<queueing, answers, deaths>>
      /\ dispatch[a] = "looking" /\ dispatch' = [dispatch EXCEPT ![a] = "looked"]
      /\ dispatch \in [Announcements -> {"none", "looking", "looked", "lost"}]
  BY DEF DeliveryInv, DeliveryTypeOK, DeliverEvent
<1>2. /\ DOMAIN delivery' = Deliveries /\ delivery' = [d \in Deliveries |-> delivery'[d]]
      /\ \A d \in Deliveries :
           \/ delivery'[d] = delivery[d]
           \/ d[1] = a /\ delivery'[d] \in {"unqueued", "posting"}
  BY <1>1 DEF DeliverEvent, Enqueued
<1>3. DeliveryTypeOK'
  <2>1. \A d \in Deliveries : delivery'[d] \in {"none", "unqueued", "posting", "delivered", "gave_up", "lost"}
    BY <1>2 DEF DeliveryInv, DeliveryTypeOK
  <2> QED BY <1>1, <1>2, <2>1 DEF DeliveryInv, DeliveryTypeOK
<1>4. ASSUME NEW d \in Deliveries PROVE DeliveryOf(d)'
  <2>1. DeliveryOf(d) /\ d[1] \in Announcements
    BY DEF DeliveryInv, Deliveries
  <2>2. CASE delivery'[d] = delivery[d]
    BY <1>1, <2>1, <2>2 DEF DeliveryOf, RetriesOf, Failed
  <2>3. CASE d[1] = a /\ delivery'[d] \in {"unqueued", "posting"}
    <3>1. answers'[d] = <<>> /\ dispatch'[d[1]] = "looked"
      BY <1>1, <2>1, <2>3 DEF DeliveryOf
    <3>2. (RetriesOf(d) /\ Len(answers[d]) < MaxRetries /\ Failed(d))'
      <4>1. Len(answers'[d]) = 0 /\ MaxRetries \in Nat \ {0}
        BY <3>1, DeliveryAssumption
      <4> QED BY <2>3, <4>1 DEF RetriesOf, Failed
    <3> QED BY <2>3, <3>1, <3>2 DEF DeliveryOf
  <2> QED BY <1>2, <2>2, <2>3
<1> QED BY <1>3, <1>4 DEF DeliveryInv

LEMMA DeliveryPost ==
  ASSUME DeliveryInv, NEW c \in Deliveries, NEW answer \in Answers, Post(c, answer)
  PROVE  DeliveryInv'
<1> DEFINE n == Len(answers[c])
           next == AfterPost(n + 1, answer)
<1>1. /\ delivery[c] = "posting" /\ answers[c] \in Seq(Answers) /\ n \in Nat
      /\ answers' = [answers EXCEPT ![c] = Append(answers[c], answer)]
      /\ delivery' = [delivery EXCEPT ![c] = next]
      /\ UNCHANGED <<queueing, dispatch, deaths>>
  BY DEF DeliveryInv, DeliveryTypeOK, Post
<1>2. next \in {"delivered", "posting", "gave_up"}
  BY DEF AfterPost
<1>3. Append(answers[c], answer) \in Seq(Answers)
  BY <1>1
<1>4. /\ Len(Append(answers[c], answer)) = n + 1
      /\ Append(answers[c], answer)[n + 1] = answer
      /\ \A i \in 1 .. n : Append(answers[c], answer)[i] = answers[c][i]
  BY <1>1
<1>5. n < MaxRetries /\ MaxRetries \in Nat /\ Failed(c) /\ dispatch[c[1]] \notin {"none", "looking"}
  BY <1>1, DeliveryAssumption DEF DeliveryInv, DeliveryOf
<1>6. /\ answer = "ok" <=> next = "delivered"
      /\ next = "posting" => answer \in {"client_error", "failed"} /\ n + 1 < MaxRetries
      /\ next = "gave_up" => answer # "failed" \/ n + 1 = MaxRetries
  BY <1>1, <1>5 DEF AfterPost, Answers
<1> HIDE DEF n, next
<1>7. DeliveryTypeOK'
  BY <1>1, <1>2, <1>3 DEF DeliveryInv, DeliveryTypeOK
<1>8. /\ answers'[c] = Append(answers[c], answer) /\ delivery'[c] = next
      /\ \A d \in Deliveries \ {c} : answers'[d] = answers[d] /\ delivery'[d] = delivery[d]
  BY <1>1 DEF DeliveryInv, DeliveryTypeOK
<1>9. ASSUME NEW d \in Deliveries PROVE DeliveryOf(d)'
  <2>1. CASE d # c
    BY <1>1, <1>8, <2>1 DEF DeliveryInv, DeliveryOf, RetriesOf, Failed
  <2>2. CASE d = c
    <3>1. /\ Len(answers'[c]) = n + 1 /\ answers'[c][n + 1] = answer
          /\ \A i \in 1 .. n : answers'[c][i] \in {"client_error", "failed"}
      BY <1>4, <1>5, <1>8 DEF Failed, n
    <3>2. \A i \in 1 .. Len(answers'[c]) : i = n + 1 \/ i \in 1 .. n
      BY <1>1, <3>1
    <3>3. RetriesOf(c)'
      BY <1>1, <1>5, <1>6, <1>8, <3>1, <3>2 DEF RetriesOf
    <3>4. delivery'[c] = "posting" => Len(answers'[c]) < MaxRetries /\ Failed(c)'
      BY <1>6, <1>8, <3>1, <3>2 DEF Failed
    <3> QED BY <1>1, <1>2, <1>5, <1>8, <2>2, <3>3, <3>4 DEF DeliveryOf
  <2> QED BY <2>1, <2>2
<1> QED BY <1>7, <1>9 DEF DeliveryInv

LEMMA DeliveryDie ==
  ASSUME DeliveryInv, Die
  PROVE  DeliveryInv'
<1>1. /\ UNCHANGED <<queueing, answers>> /\ deaths' \in Nat
      /\ dispatch' = [a \in Announcements |-> IF dispatch[a] = "looking" THEN "lost" ELSE dispatch[a]]
      /\ delivery' = [d \in Deliveries |-> IF delivery[d] = "posting" THEN "lost" ELSE delivery[d]]
  BY DEF DeliveryInv, DeliveryTypeOK, Die
<1>2. DeliveryTypeOK'
  BY <1>1 DEF DeliveryInv, DeliveryTypeOK
<1>3. ASSUME NEW d \in Deliveries PROVE DeliveryOf(d)'
  <2>1. DeliveryOf(d) /\ d[1] \in Announcements
    BY DEF DeliveryInv, Deliveries
  <2>2. /\ dispatch'[d[1]] \in {"none", "looking"} => dispatch[d[1]] = dispatch'[d[1]]
        /\ delivery'[d] = IF delivery[d] = "posting" THEN "lost" ELSE delivery[d]
    BY <1>1, <2>1
  <2> QED BY <1>1, <2>1, <2>2 DEF DeliveryOf, RetriesOf, Failed
<1> QED BY <1>2, <1>3 DEF DeliveryInv

LEMMA DeliveryStep == DeliveryInv /\ [WebhookNext]_webhookVars => DeliveryInv'
<1> SUFFICES ASSUME DeliveryInv, [WebhookNext]_webhookVars PROVE DeliveryInv'
  OBVIOUS
<1>1. CASE UNCHANGED deliveryVars
  BY <1>1 DEF deliveryVars, DeliveryInv, DeliveryTypeOK, DeliveryOf, RetriesOf, Failed
<1> QED
  BY <1>1, DeliveryAnnounce, DeliveryDeliver, DeliveryPost, DeliveryDie
     DEF WebhookNext, webhookVars, Deliveries

(* A delivery posts at most MaxRetries times and never after a success or  *)
(* an error it does not know, and no server or network error makes it give *)
(* up earlier, for any webhooks and events, whatever the registry's        *)
(* requests do meanwhile and whenever the process dies.                    *)
THEOREM RetriesFollowFailuresHolds == WebhookSpec => []RetriesFollowFailures
<1>1. DeliveryInv => RetriesFollowFailures
  BY DEF DeliveryInv, DeliveryTypeOK, DeliveryOf, RetriesOf, RetriesFollowFailures
<1> QED BY <1>1, DeliveryInit, DeliveryStep, PTL DEF WebhookSpec

(* Deliveries read the registry and never write it: the whole of the       *)
(* webhooks implements the registry alone, so that what is proved of the   *)
(* registry holds while events are delivered.                              *)
THEOREM DeliveriesLeaveTheRegistry == WebhookSpec => RegistrySpec
<1>1. WebhookInit => RegistryInit
  BY DEF WebhookInit
<1>2. [WebhookNext]_webhookVars => [RegistryNext]_registryVars
  BY DEF WebhookNext, webhookVars, Announce, DeliverEvent, Post, Die
<1> QED BY <1>1, <1>2, PTL DEF WebhookSpec, RegistrySpec
=============================================================================
