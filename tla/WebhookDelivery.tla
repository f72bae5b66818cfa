-------------------------- MODULE WebhookDelivery --------------------------
(***************************************************************************)
(* infrastructure/webhooks/webhook.service.ts and webhook-queue.service.ts *)
(* over the registry.  A booking command calls deliverEvent and does not   *)
(* wait for it.  Without Kafka the process posts to each webhook itself,   *)
(* again after a failure, from a copy of the webhook.  With Kafka each     *)
(* delivery is enqueued, which always throws: the message of               *)
(* enqueueWebhookDelivery has no version, and publishEvent calls           *)
(* version.toString().  No message reaches the worker, so the worker       *)
(* (webhook-worker.service.ts) has nothing to do.                          *)
(***************************************************************************)
EXTENDS WebhookRegistry, Sequences

CONSTANTS
  Announcements,   \* calls of deliverEvent
  EventOf,         \* the event of each
  MaxRetries,      \* maxRetries: posts per delivery
  MaxDeaths        \* bound on deaths of the process

ASSUME DeliveryAssumption ==
  /\ EventOf \in [Announcements -> HookEvents]
  /\ MaxRetries \in Nat \ {0}

VARIABLES
  queueing,   \* is Kafka configured
  dispatch,   \* where each call of deliverEvent is
  delivery,   \* per call and webhook: where the delivery is
  answers,    \* per call and webhook: what became of each post
  deaths

deliveryVars == <<queueing, dispatch, delivery, answers, deaths>>
webhookVars == <<registryVars, deliveryVars>>

(* What a post may come to: 2xx; 4xx; 5xx, a timeout or a network error;   *)
(* any other status or error.                                              *)
Answers == {"ok", "client_error", "failed", "other"}

WebhookInit ==
  /\ RegistryInit
  /\ queueing \in BOOLEAN
  /\ dispatch = [a \in Announcements |-> "none"]
  /\ delivery = [d \in Announcements \X HookIds |-> "none"]
  /\ answers = [d \in Announcements \X HookIds |-> <<>>]
  /\ deaths = 0

-----------------------------------------------------------------------------
Subscribed(h, e) == h \in Kept /\ hooks[h].active /\ e \in hooks[h].events

(* A create or delete call announces its booking.                          *)
Announce(a) ==
  /\ dispatch[a] = "none"
  /\ dispatch' = [dispatch EXCEPT ![a] = "looking"]
  /\ UNCHANGED <<registryVars, queueing, delivery, answers, deaths>>

(* enqueueWebhookDelivery: the TypeError is logged, and swallowed by       *)
(* deliverEvent.                                                           *)
Enqueued == "unqueued"

(* Variant: only the first webhook found is served.                        *)
DeliverToOne(a) ==
  /\ dispatch[a] = "looking"
  /\ dispatch' = [dispatch EXCEPT ![a] = "looked"]
  /\ delivery' \in {delivery} \cup
                   {[delivery EXCEPT ![<<a, h>>] = IF queueing THEN Enqueued ELSE "posting"] :
                      h \in {h \in HookIds : Subscribed(h, EventOf[a])}}
  /\ UNCHANGED <<registryVars, queueing, answers, deaths>>

(* findByEvent, and a delivery for each webhook found.                     *)
DeliverEvent(a) ==
  /\ dispatch[a] = "looking"
  /\ dispatch' = [dispatch EXCEPT ![a] = "looked"]
  /\ delivery' = [d \in DOMAIN delivery |->
                    IF d[1] # a \/ ~Subscribed(d[2], EventOf[a]) THEN delivery[d]
                    ELSE IF queueing THEN Enqueued ELSE "posting"]
  /\ UNCHANGED <<registryVars, queueing, answers, deaths>>

(* Variant: one retry too many.                                            *)
AfterPostAgain(attempt, answer) ==
  IF answer = "ok" THEN "delivered"
  ELSE IF answer \in {"client_error", "failed"} /\ attempt <= MaxRetries THEN "posting"
  ELSE "gave_up"

(* What deliverToWebhook does after a post: 4xx, 5xx, timeouts and network *)
(* errors are retried while attempts are left.                             *)
AfterPost(attempt, answer) ==
  IF answer = "ok" THEN "delivered"
  ELSE IF answer \in {"client_error", "failed"} /\ attempt < MaxRetries THEN "posting"
  ELSE "gave_up"

(* One post of deliverToWebhook: the copy of the webhook stays active and  *)
(* keeps its URL, whatever became of the webhook.                          *)
Post(d, answer) ==
  /\ delivery[d] = "posting"
  /\ answers' = [answers EXCEPT ![d] = Append(@, answer)]
  /\ delivery' = [delivery EXCEPT ![d] = AfterPost(Len(answers[d]) + 1, answer)]
  /\ UNCHANGED <<registryVars, queueing, dispatch, deaths>>

(* The process ends: nothing of its deliveries is stored.                  *)
Die ==
  /\ deaths < MaxDeaths
  /\ deaths' = deaths + 1
  /\ dispatch' = [a \in Announcements |-> IF dispatch[a] = "looking" THEN "lost" ELSE dispatch[a]]
  /\ delivery' = [d \in DOMAIN delivery |-> IF delivery[d] = "posting" THEN "lost" ELSE delivery[d]]
  /\ UNCHANGED <<registryVars, queueing, answers>>

WebhookNext ==
  \/ RegistryNext /\ UNCHANGED deliveryVars
  \/ \E a \in Announcements : Announce(a) \/ DeliverEvent(a)
  \/ \E d \in Announcements \X HookIds, answer \in Answers : Post(d, answer)
  \/ Die

(* The database answers, and fetch does within its timeout of ten seconds. *)
WebhookFairness ==
  /\ \A a \in Announcements : WF_webhookVars(DeliverEvent(a))
  /\ \A d \in Announcements \X HookIds : WF_webhookVars(\E answer \in Answers : Post(d, answer))

WebhookSpec == WebhookInit /\ [][WebhookNext]_webhookVars /\ WebhookFairness

-----------------------------------------------------------------------------
(* A delivery posts at most MaxRetries times (README.md:597; :602 lists    *)
(* one more) and never after a success or an error it does not know; it is *)
(* delivered exactly when a post succeeded, and it gives up before         *)
(* MaxRetries on no server error, timeout or network error.  Whether a 4xx *)
(* is posted again is left open here: see ClientErrorsAreFinal.            *)
RetriesFollowFailures ==
  \A d \in DOMAIN answers :
    /\ Len(answers[d]) <= MaxRetries
    /\ \A i \in 1 .. Len(answers[d]) :
         i < Len(answers[d]) => answers[d][i] \notin {"ok", "other"}
    /\ delivery[d] = "delivered" <=> \E i \in 1 .. Len(answers[d]) : answers[d][i] = "ok"
    /\ delivery[d] = "gave_up" =>
         Len(answers[d]) = MaxRetries \/ answers[d][Len(answers[d])] # "failed"

(* README.md:604: `No Retry: 4xx responses', and :671: `won't retry'.      *)
ClientErrorsAreFinal ==
  \A d \in DOMAIN answers : \A i \in 1 .. Len(answers[d]) :
    answers[d][i] = "client_error" => i = Len(answers[d])

Served(d) == delivery[d] \in {"delivered", "gave_up"}

(* An event is tried to the end on every webhook that stays subscribed to  *)
(* it until its delivery has begun, unless the process dies or Kafka is    *)
(* configured.                                                             *)
SubscribersAreServed ==
  \A d \in Announcements \X HookIds :
    dispatch[d[1]] = "looking" /\ Subscribed(d[2], EventOf[d[1]])
      ~> \/ Served(d)
         \/ ~Subscribed(d[2], EventOf[d[1]])
         \/ deaths > 0
         \/ queueing

(* README.md:625: `Guaranteed delivery', with Kafka.                       *)
QueuedDeliveriesAreServed ==
  \A d \in Announcements \X HookIds :
    dispatch[d[1]] = "looking" /\ Subscribed(d[2], EventOf[d[1]])
      ~> \/ Served(d)
         \/ ~Subscribed(d[2], EventOf[d[1]])
         \/ deaths > 0
         \/ ~queueing
=============================================================================
